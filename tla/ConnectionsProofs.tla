-------------------------- MODULE ConnectionsProofs --------------------------
(***************************************************************************)
(* What is proved of Connections, for any units of work, rows and pool.    *)
(* IInv says who stands in the line of a row: it is inductive, and who     *)
(* stands there has a connection (NoHoldAndWait), only the head of a line  *)
(* works (RowsAreExclusive), and in a full pool somebody can go on         *)
(* (FullPoolMoves), since who waits for a row has somebody before it.      *)
(***************************************************************************)
EXTENDS Connections, FiniteSetTheorems, TLAPS

\* In the first state every line is empty.
LEMMA InitIInv == Init => IInv
BY RowAssumption, SessionAssumption DEF Init, IInv, TypeOK, LinesSound, Locking, WaitersInLine

\* A step that leaves the lines alone and takes t neither into nor out of one.
LEMMA OutsideLines ==
    ASSUME IInv, NEW t \in Updates, UNCHANGED locks,
           pc[t] \in {"idle", "asking", "connected", "between"},
           NEW p \in {"idle", "asking", "connected", "between", "working"},
           NEW n \in {1, 2}, p = "working" => n = session[t] /\ ~Locking(t),
           pc' = [pc EXCEPT ![t] = p], session' = [session EXCEPT ![t] = n]
    PROVE  IInv'
<1> USE DEF IInv, TypeOK
<1>1. TypeOK'
  OBVIOUS
<1>2. \A w \in Rows : \A i \in 1..Len(locks[w]) : locks[w][i] \in Updates /\ locks[w][i] # t
  BY DEF LinesSound
<1>3. LinesSound'
  BY <1>2, RowAssumption DEF LinesSound, Locking
<1>4. WaitersInLine'
  BY DEF WaitersInLine, InLine
<1> QED
  BY <1>1, <1>3, <1>4

\* Asking, connecting, giving up, and work on no contended row.
LEMMA PoolStep ==
    ASSUME IInv, NEW t \in Updates, Ask(t) \/ Connect(t) \/ GiveUp(t) \/ Work(t)
    PROVE  IInv'
<1> USE DEF IInv, TypeOK
<1>1. session = [session EXCEPT ![t] = session[t]]
  OBVIOUS
<1>2. CASE Ask(t)
  BY <1>1, <1>2, OutsideLines DEF Ask
<1>3. CASE Connect(t)
  BY <1>1, <1>3, OutsideLines DEF Connect
<1>4. CASE GiveUp(t)
  BY <1>4, OutsideLines DEF GiveUp
<1>5. CASE Work(t)
  BY <1>1, <1>5, OutsideLines DEF Work
<1> QED
  BY <1>2, <1>3, <1>4, <1>5

\* Who is blocked waits for a row.
LEMMA BlockedHasRow ==
    ASSUME IInv, NEW s \in Updates, pc[s] = "blocked" PROVE Locking(s) /\ RowOf[s] \in Rows
<1>1. Locking(s)
  BY DEF IInv, LinesSound
<1> QED
  BY <1>1, RowAssumption DEF Locking

\* A session goes to the end of the line.
LEMMA LockRowStep == ASSUME IInv, NEW t \in Updates, LockRow(t) PROVE IInv'
<1> USE DEF IInv, TypeOK
<1> DEFINE w == RowOf[t]
<1>1. /\ pc[t] = "connected" /\ session[t] = 1 /\ w \in Rows /\ UNCHANGED session
      /\ pc' = [pc EXCEPT ![t] = "blocked"]
      /\ locks' = [locks EXCEPT ![w] = Append(@, t)]
  BY RowAssumption DEF LockRow, Locking
<1>2. TypeOK'
  BY <1>1
<1>3. \A v \in Rows : \A i \in 1..Len(locks[v]) : locks[v][i] \in Updates /\ locks[v][i] # t
  BY <1>1 DEF LinesSound
<1>4. /\ \A v \in Rows : v # w => locks'[v] = locks[v]
      /\ Len(locks'[w]) = Len(locks[w]) + 1 /\ locks'[w][Len(locks[w]) + 1] = t
      /\ \A i \in 1..Len(locks[w]) : locks'[w][i] = locks[w][i]
  BY <1>1
<1> HIDE DEF w
<1>5. ASSUME NEW v \in Rows, NEW i \in 1..Len(locks'[v])
      PROVE  LET s == locks'[v][i]
             IN  /\ RowOf[s] = v /\ session'[s] = 1 /\ pc'[s] \in {"blocked", "working"}
                 /\ \A j \in 1..Len(locks'[v]) : locks'[v][j] = s => j = i
  <2>1. CASE v # w
    BY <2>1, <1>1, <1>3, <1>4 DEF LinesSound
  <2>2. CASE v = w /\ i \in 1..Len(locks[w])
    <3> DEFINE s == locks[w][i]
    <3>1. locks'[w][i] = s /\ s \in Updates /\ s # t
      BY <2>2, <1>1, <1>3, <1>4
    <3>2. /\ RowOf[s] = w /\ session[s] = 1 /\ pc[s] \in {"blocked", "working"}
          /\ \A j \in 1..Len(locks[w]) : locks[w][j] = s => j = i
      BY <2>2, <1>1 DEF LinesSound
    <3>3. \A j \in 1..Len(locks'[w]) : locks'[w][j] = s => j = i
      BY <3>1, <3>2, <1>1, <1>4
    <3> QED
      BY <2>2, <3>1, <3>2, <3>3, <1>1
  <2>3. CASE v = w /\ i = Len(locks[w]) + 1
    <3>1. locks'[v][i] = t /\ RowOf[t] = w
      BY <2>3, <1>4 DEF w
    <3>2. \A j \in 1..Len(locks[w]) : locks'[w][j] # t
      BY <1>1, <1>3, <1>4
    <3>3. \A j \in 1..Len(locks'[w]) : locks'[w][j] = t => j = i
      BY <2>3, <3>2, <1>1, <1>4
    <3> QED
      BY <2>3, <3>1, <3>3, <1>1
  <2>4. v = w => i \in 1..Len(locks[w]) \/ i = Len(locks[w]) + 1
    <3>1. Len(locks[w]) \in Nat
      BY <1>1
    <3>2. ASSUME v = w PROVE i \in 1..(Len(locks[w]) + 1)
      BY <3>2, <1>4
    <3> QED
      BY <3>1, <3>2
  <2> QED
    BY <2>1, <2>2, <2>3, <2>4
<1>6. ASSUME NEW s \in Updates
      PROVE  /\ pc'[s] = "blocked" => Locking(s)'
             /\ pc'[s] = "working" /\ Locking(s)'
                   => Len(locks'[RowOf[s]]) > 0 /\ locks'[RowOf[s]][1] = s
  <2>1. CASE s = t
    BY <2>1, <1>1, RowAssumption DEF Locking, w
  <2>2. CASE s # t
    BY <2>2, <1>1, <1>4, RowAssumption DEF LinesSound, Locking
  <2> QED
    BY <2>1, <2>2
<1>7. LinesSound'
  BY <1>5, <1>6 DEF LinesSound
<1>8. WaitersInLine'
  <2> SUFFICES ASSUME NEW s \in Updates, pc'[s] = "blocked"
               PROVE  \E i \in 1..Len(locks'[RowOf[s]]) : locks'[RowOf[s]][i] = s
    BY DEF WaitersInLine, InLine
  <2>1. \A v \in Rows : Len(locks[v]) \in Nat
    OBVIOUS
  <2>2. CASE s = t
    <3>1. Len(locks[w]) + 1 \in 1..Len(locks'[w])
      BY <1>1, <1>4, <2>1
    <3> QED
      BY <2>2, <3>1, <1>4 DEF w
  <2>3. CASE s # t
    <3>0. pc[s] = "blocked"
      BY <2>3, <1>1
    <3>1. pc[s] = "blocked" /\ RowOf[s] \in Rows
      BY <3>0, BlockedHasRow
    <3>2. PICK i \in 1..Len(locks[RowOf[s]]) : locks[RowOf[s]][i] = s
      BY <3>1 DEF WaitersInLine, InLine
    <3>3. CASE RowOf[s] = w
      <4>1. i \in 1..Len(locks'[w]) /\ locks'[w][i] = s
        BY <3>2, <3>3, <1>1, <1>4, <2>1
      <4> QED
        BY <4>1, <3>3
    <3>4. CASE RowOf[s] # w
      BY <3>1, <3>2, <3>4, <1>4
    <3> QED
      BY <3>3, <3>4
  <2> QED
    BY <2>2, <2>3
<1> QED
  BY <1>2, <1>7, <1>8

\* The head of the line begins to work.
LEMMA LockedStep == ASSUME IInv, NEW t \in Updates, Locked(t) PROVE IInv'
<1> USE DEF IInv, TypeOK
<1>0. pc[t] = "blocked" /\ pc' = [pc EXCEPT ![t] = "working"] /\ UNCHANGED <<session, locks>>
  BY DEF Locked
<1>1. /\ pc[t] = "blocked" /\ Locking(t) /\ RowOf[t] \in Rows
      /\ pc' = [pc EXCEPT ![t] = "working"] /\ UNCHANGED <<session, locks>>
  BY <1>0, BlockedHasRow
<1>b. locks[RowOf[t]] # <<>> /\ t = Head(locks[RowOf[t]]) /\ locks[RowOf[t]] \in Seq(Updates)
  BY <1>1 DEF Locked
<1>2. Len(locks[RowOf[t]]) > 0 /\ locks[RowOf[t]][1] = t
  BY <1>b
<1>3. TypeOK'
  BY <1>1
<1>4. LinesSound'
  BY <1>1, <1>2 DEF LinesSound, Locking
<1>5. WaitersInLine'
  BY <1>1 DEF WaitersInLine, InLine
<1> QED
  BY <1>3, <1>4, <1>5

\* A session ends, with COMMIT or ROLLBACK: who worked on a row was at the
\* head of its line, and the others move up.
LEMMA EndStep == ASSUME IInv, NEW t \in Updates, Commit(t) \/ Rollback(t) PROVE IInv'
<1> USE DEF IInv, TypeOK
<1> DEFINE w == RowOf[t]
<1>1. PICK p \in {"idle", "between"}, n \in {1, 2} :
        /\ pc[t] = "working" /\ Unlock(t)
        /\ pc' = [pc EXCEPT ![t] = p] /\ session' = [session EXCEPT ![t] = n]
  BY DEF Commit, Rollback
<1>2. CASE ~Locking(t)
  <2>1. UNCHANGED locks
    BY <1>1, <1>2 DEF Unlock
  <2>2. TypeOK'
    BY <1>1, <2>1
  <2>3. \A v \in Rows : \A i \in 1..Len(locks[v]) : locks[v][i] # t
    BY <1>1, <1>2, RowAssumption DEF LinesSound, Locking
  <2>4. LinesSound'
    BY <1>1, <2>1, <2>3 DEF LinesSound, Locking
  <2>5. WaitersInLine'
    BY <1>1, <2>1 DEF WaitersInLine, InLine
  <2> QED
    BY <2>2, <2>4, <2>5
<1>3. CASE Locking(t)
  <2>a. w \in Rows
    BY <1>3, RowAssumption DEF Locking
  <2>b. Len(locks[w]) > 0 /\ locks[w][1] = t
    BY <1>1, <1>3 DEF LinesSound
  <2>c. locks' = [locks EXCEPT ![w] = Tail(@)]
    BY <1>1, <1>3 DEF Unlock
  <2>1. /\ w \in Rows /\ Len(locks[w]) > 0 /\ locks[w][1] = t
        /\ locks' = [locks EXCEPT ![w] = Tail(@)]
    BY <2>a, <2>b, <2>c
  <2>2. TypeOK'
    BY <1>1, <2>1
  <2>3. /\ \A v \in Rows : v # w => locks'[v] = locks[v]
        /\ Len(locks'[w]) = Len(locks[w]) - 1
        /\ \A i \in 1..Len(locks'[w]) : locks'[w][i] = locks[w][i + 1]
    BY <2>1
  <2>4. \A v \in Rows : \A i \in 1..Len(locks'[v]) : locks'[v][i] # t
    <3> SUFFICES ASSUME NEW v \in Rows, NEW i \in 1..Len(locks'[v]), locks'[v][i] = t
                 PROVE  FALSE
      OBVIOUS
    <3>1. CASE v = w
      <4>1. locks[w][i + 1] = t /\ i + 1 \in 1..Len(locks[w]) /\ 1 \in 1..Len(locks[w])
        BY <3>1, <2>1, <2>3
      <4>2. i + 1 = 1
        BY <4>1, <2>1 DEF LinesSound
      <4> QED
        BY <4>2
    <3>2. CASE v # w
      BY <3>2, <2>1, <2>3 DEF LinesSound
    <3> QED
      BY <3>1, <3>2
  <2> HIDE DEF w
  <2>5. ASSUME NEW v \in Rows, NEW i \in 1..Len(locks'[v])
        PROVE  LET s == locks'[v][i]
               IN  /\ RowOf[s] = v /\ session'[s] = 1 /\ pc'[s] \in {"blocked", "working"}
                   /\ \A j \in 1..Len(locks'[v]) : locks'[v][j] = s => j = i
    <3>1. CASE v # w
      BY <3>1, <1>1, <2>3, <2>4 DEF LinesSound
    <3>2. CASE v = w
      <4> DEFINE s == locks[w][i + 1]
      <4>a. Len(locks[w]) \in Nat /\ locks[w] \in Seq(Updates)
        BY <2>1
      <4>b. i \in 1..(Len(locks[w]) - 1)
        BY <3>2, <2>3
      <4>c. i + 1 \in 1..Len(locks[w])
        BY <4>a, <4>b
      <4>d. locks'[w][i] = s /\ s # t
        <5>1. i \in 1..Len(locks'[w])
          BY <3>2
        <5>2. locks'[w][i] = s
          BY <5>1, <2>3
        <5>3. locks'[w][i] # t
          BY <5>1, <2>1, <2>4
        <5> QED
          BY <5>2, <5>3
      <4>1. i + 1 \in 1..Len(locks[w]) /\ locks'[w][i] = s /\ s \in Updates /\ s # t
        BY <4>a, <4>c, <4>d
      <4>2. /\ RowOf[s] = w /\ session[s] = 1 /\ pc[s] \in {"blocked", "working"}
            /\ \A j \in 1..Len(locks[w]) : locks[w][j] = s => j = i + 1
        BY <4>1, <2>1 DEF LinesSound
      <4>3. \A j \in 1..Len(locks'[w]) : locks'[w][j] = s => j = i
        <5> SUFFICES ASSUME NEW j \in 1..Len(locks'[w]), locks'[w][j] = s PROVE j = i
          OBVIOUS
        <5>1. j \in Int /\ i \in Int /\ j + 1 \in 1..Len(locks[w]) /\ locks[w][j + 1] = s
          BY <4>a, <3>2, <2>3
        <5>2. j + 1 = i + 1
          BY <5>1, <4>2
        <5> QED
          BY <5>1, <5>2
      <4> QED
        BY <3>2, <4>1, <4>2, <4>3, <1>1
    <3> QED
      BY <3>1, <3>2
  <2>6. ASSUME NEW s \in Updates
        PROVE  /\ pc'[s] = "blocked" => Locking(s)'
               /\ pc'[s] = "working" /\ Locking(s)'
                     => Len(locks'[RowOf[s]]) > 0 /\ locks'[RowOf[s]][1] = s
    <3>1. CASE s = t
      BY <3>1, <1>1
    <3>2. CASE s # t
      <4>1. pc'[s] = pc[s] /\ session'[s] = session[s]
        BY <3>2, <1>1
      <4>2. pc[s] = "working" /\ Locking(s) => RowOf[s] # w /\ RowOf[s] \in Rows
        BY <3>2, <2>1, RowAssumption DEF LinesSound, Locking
      <4> QED
        BY <4>1, <4>2, <2>3 DEF LinesSound, Locking
    <3> QED
      BY <3>1, <3>2
  <2>7. LinesSound'
    BY <2>5, <2>6 DEF LinesSound
  <2>8. WaitersInLine'
    <3> SUFFICES ASSUME NEW s \in Updates, pc'[s] = "blocked"
                 PROVE  \E i \in 1..Len(locks'[RowOf[s]]) : locks'[RowOf[s]][i] = s
      BY DEF WaitersInLine, InLine
    <3>0. pc[s] = "blocked" /\ s # t
      BY <1>1
    <3>1. pc[s] = "blocked" /\ s # t /\ RowOf[s] \in Rows
      BY <3>0, BlockedHasRow
    <3>2. PICK i \in 1..Len(locks[RowOf[s]]) : locks[RowOf[s]][i] = s
      BY <3>1 DEF WaitersInLine, InLine
    <3>3. CASE RowOf[s] = w
      <4>1. Len(locks[w]) \in Nat /\ i \in 1..Len(locks[w]) /\ i # 1
        BY <3>1, <3>2, <3>3, <2>1
      <4>2. i - 1 \in 1..Len(locks'[w]) /\ (i - 1) + 1 = i
        BY <4>1, <2>3
      <4>3. locks'[w][i - 1] = s
        BY <4>2, <3>2, <3>3, <2>3
      <4> QED
        BY <4>2, <4>3, <3>3
    <3>4. CASE RowOf[s] # w
      BY <3>1, <3>2, <3>4, <2>3
    <3> QED
      BY <3>3, <3>4
  <2> QED
    BY <2>2, <2>7, <2>8
<1> QED
  BY <1>2, <1>3

\* The lines of the rows are in order in every reachable state.
THEOREM Invariance == Spec => []IInv
<1>1. Init => IInv
  BY InitIInv
<1>2. IInv /\ [Next]_vars => IInv'
  <2> SUFFICES ASSUME IInv, [Next]_vars PROVE IInv'
    OBVIOUS
  <2>1. CASE UNCHANGED vars
    BY <2>1 DEF IInv, TypeOK, LinesSound, Locking, WaitersInLine, InLine, vars
  <2>2. CASE Next
    BY <2>2, PoolStep, LockRowStep, LockedStep, EndStep DEF Next, Step
  <2> QED
    BY <2>1, <2>2
<1> QED
  BY <1>1, <1>2, PTL DEF Spec

\* Who has a row, or stands in line for one, has a connection already.
THEOREM NobodyHoldsAndWaits == Spec => []NoHoldAndWait
<1>1. IInv => NoHoldAndWait
  <2> SUFFICES ASSUME IInv, NEW t \in Updates, NEW w \in Rows, InLine(t, locks[w])
               PROVE  t \in Holding
    BY DEF NoHoldAndWait
  <2>1. PICK i \in 1..Len(locks[w]) : locks[w][i] = t
    BY DEF InLine
  <2> QED
    BY <2>1 DEF IInv, LinesSound, Holding
<1> QED
  BY <1>1, Invariance, PTL

\* Two transactions that write one row never work at the same time.
THEOREM RowsAreNeverShared == Spec => []RowsAreExclusive
<1>1. IInv => RowsAreExclusive
  BY DEF IInv, LinesSound, RowsAreExclusive
<1> QED
  BY <1>1, Invariance, PTL

\* Of the sessions that fill the pool one can go on: if all of them wait for
\* rows, the head of the line one of them stands in has its connection and
\* finds its row free.
THEOREM FullPoolMoves == Spec => []SomeoneCanGoOn
<1>1. IInv => SomeoneCanGoOn
  <2> SUFFICES ASSUME IInv, PoolIsFull
               PROVE  \E t \in Holding : \/ pc[t] \in {"connected", "working"}
                                         \/ locks[RowOf[t]] # <<>> /\ t = Head(locks[RowOf[t]])
    BY DEF SomeoneCanGoOn
  <2>1. PICK t \in Updates : t \in Holding
    <3>1. Holding # {}
      BY FS_EmptySet, PoolAssumption DEF PoolIsFull
    <3> QED
      BY <3>1 DEF Holding
  <2>2. CASE pc[t] = "blocked"
    <3> DEFINE w == RowOf[t]
               s == locks[w][1]
    <3>1. w \in Rows /\ locks[w] \in Seq(Updates)
      BY <2>2, RowAssumption DEF IInv, TypeOK, LinesSound, Locking
    <3>2. Len(locks[w]) \in Nat /\ Len(locks[w]) > 0
      BY <2>2, <3>1 DEF IInv, WaitersInLine, InLine
    <3>3. 1 \in 1..Len(locks[w]) /\ locks[w] # <<>> /\ s = Head(locks[w]) /\ s \in Updates
      BY <3>1, <3>2
    <3>4. RowOf[s] = w /\ s \in Holding
      BY <3>1, <3>3 DEF IInv, LinesSound, Holding
    <3> QED
      BY <3>3, <3>4
  <2> QED
    BY <2>1, <2>2 DEF Holding
<1> QED
  BY <1>1, Invariance, PTL
=============================================================================
