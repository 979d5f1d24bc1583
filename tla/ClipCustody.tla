---------------------------- MODULE ClipCustody ----------------------------
(***************************************************************************)
(* What the bot promises about clips, with no word of transactions, tasks, *)
(* manifests or restarts.  A clip is taken into custody only when its      *)
(* bytes are in store and it is on the list in the same step; it stays in  *)
(* store until its owner asks for its deletion.  The list may be lost, but *)
(* only as a whole, and a list rebuilt from the store misses no clip.      *)
(***************************************************************************)
CONSTANT Clips

VARIABLES
    custody,  \* clips the bot owes its users
    store,    \* clips whose bytes are in store
    list      \* clips that users can find

custodyVars == <<custody, store, list>>

CustodyTypeOK ==
    custody \subseteq Clips /\ store \subseteq Clips /\ list \subseteq Clips

CustodyInit == custody = {} /\ store = {} /\ list = {}

\* Bytes of a clip that is not in custody come and go.
Receive(v) == /\ v \notin custody /\ store' = store \cup {v}
              /\ UNCHANGED <<custody, list>>
Discard_Slip(v) == store' = store \ {v} /\ UNCHANGED <<custody, list>>

Discard(v) == /\ v \notin custody /\ store' = store \ {v}
              /\ UNCHANGED <<custody, list>>

Take(v) == /\ v \in store \ custody
           /\ custody' = custody \cup {v} /\ list' = list \cup {v}
           /\ UNCHANGED store

\* The owner asks; the bytes may go at once or be left behind.
Release(v) == /\ v \in list
              /\ custody' = custody \ {v} /\ store' \in {store, store \ {v}}
              /\ UNCHANGED list
Unlist(v)  == /\ v \notin custody /\ list' = list \ {v}
              /\ UNCHANGED <<custody, store>>

LoseList == list' = {} /\ UNCHANGED <<custody, store>>

\* All or nothing: a rebuilt list has every clip in custody.
Rebuild == /\ list = {} /\ list' \in SUBSET Clips /\ custody \subseteq list'
           /\ UNCHANGED <<custody, store>>

CustodyNext ==
    \/ \E v \in Clips : \/ Receive(v) \/ Discard(v) \/ Take(v)
                        \/ Release(v) \/ Unlist(v)
    \/ LoseList \/ Rebuild

CustodySpec == CustodyInit /\ [][CustodyNext]_custodyVars
=============================================================================
