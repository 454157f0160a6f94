----------------------------- MODULE AssetSlots -----------------------------
(***************************************************************************)
(* What the asset cache promises about each URL, and what a forwarded      *)
(* request relies on (ForwardResume has one slot, as cached and partial):  *)
(* a slot holds the complete response, or a prefix, or nothing.  Either    *)
(* may be forgotten at any moment; a complete response supersedes a prefix *)
(* and a prefix is replaced only by a longer one ("progress is monotonic").*)
(***************************************************************************)
EXTENDS Naturals

CONSTANT Keys

VARIABLES
    whole,  \* the keys whose complete response is stored
    prefix  \* length of the stored prefix of each key, 0 for none

Init ==
    /\ whole = {}
    /\ prefix = [k \in Keys |-> 0]

Store(k) == k \in whole' /\ prefix'[k] = 0

Extend(k) == k \notin whole /\ k \notin whole' /\ prefix'[k] > prefix[k]

ForgetWhole(k) == k \in whole /\ k \notin whole' /\ prefix'[k] = prefix[k]

ForgetPrefix(k) == k \notin whole /\ k \notin whole' /\ prefix'[k] = 0

Keep(k) == (k \in whole' <=> k \in whole) /\ prefix'[k] = prefix[k]

\* One operation of the cache may change several slots, each in its own way.
Next ==
    \A k \in Keys :
        Store(k) \/ Extend(k) \/ ForgetWhole(k) \/ ForgetPrefix(k) \/ Keep(k)

Spec == Init /\ [][Next]_<<whole, prefix>>
=============================================================================
