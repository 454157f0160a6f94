------------------------------ MODULE AdminAuth ------------------------------
(***************************************************************************)
(* The gate of the control panel (vpnmgr/admin.go, server/admin.go): the   *)
(* sessions it has issued and the failed logins it remembers, both in      *)
(* bounded tables.  Every operation holds adminAuth.mu throughout.  Time   *)
(* is counted in ticks.  The list of a client's failures is a set: the     *)
(* code only filters and counts them.                                      *)
(***************************************************************************)
EXTENDS Integers, FiniteSets, TLC

CONSTANTS
    Clients,      \* addresses clientIP tells apart
    Tokens,       \* session tokens: newSessionID never repeats one
    Attempts,     \* the failed logins told apart: as many as are remembered at once
    TTL,          \* adminSessionTTL
    Window,       \* adminFailureWindow
    MaxSessions,  \* adminMaxSessions
    MaxFailures,  \* adminMaxFailures
    Threshold     \* adminLockThreshold

ASSUME AdminAssumption ==
    /\ TTL \in Nat /\ Window \in Nat \ {0}
    /\ MaxSessions \in Nat \ {0} /\ MaxFailures \in Nat \ {0}
    /\ Threshold \in Nat \ {0}

VARIABLES
    sessions,  \* the tokens in the table
    left,      \* ticks to the expiry of each token issued, -1 once past
    age,       \* time since each failed login, Window once it is no longer recent
    failures,  \* the failed logins in the entry of each client, {} for no entry
    issued,    \* history: tokens ever issued
    ended,     \* history: tokens logged out
    tried,     \* history: all failed logins of each in the window since a success
    dropped    \* history: clients whose entry was removed for want of space

adminVars == <<sessions, left, age, failures, issued, ended, tried, dropped>>

AdminInit ==
    /\ sessions = {}
    /\ left = [t \in Tokens |-> -1]
    /\ age = [f \in Attempts |-> Window]
    /\ failures = [c \in Clients |-> {}]
    /\ issued = {}
    /\ ended = {}
    /\ tried = [c \in Clients |-> {}]
    /\ dropped = {}

-----------------------------------------------------------------------------
\* cleanupFailuresLocked keeps what is after the cutoff.
Recent(fs) == {f \in fs : age[f] < Window}

\* Faulty: one failure too many.
LockedLocked_Late(c) == Cardinality(Recent(failures[c])) > Threshold

LockedLocked(c) == Cardinality(Recent(failures[c])) >= Threshold

Entries(table) == {c \in Clients : table[c] # {}}

\* Faulty: the table may be full.
Room_Late(n, max) == n <= max

\* Both tables make room when they have reached their limit.
Room(n, max) == n < max

\* Faulty: the session that has the longest to live.
Oldest_Newest == {t \in sessions : \A u \in sessions : left[u] <= left[t]}

\* The soonest-expiring sessions: the map's order decides among equals.
Oldest == {t \in sessions : \A u \in sessions : left[t] <= left[u]}

-----------------------------------------------------------------------------
\* Login with the right credentials: the client's failures are forgotten and a
\* token is issued, after ensureSessionCapacityLocked.
LoginOK(c, t) ==
    /\ ~LockedLocked(c)
    /\ t \in Tokens \ issued
    /\ IF Room(Cardinality(sessions), MaxSessions)
       THEN sessions' = sessions \cup {t}
       ELSE \E o \in Oldest : sessions' = (sessions \ {o}) \cup {t}
    /\ left' = [left EXCEPT ![t] = TTL]
    /\ issued' = issued \cup {t}
    /\ failures' = [failures EXCEPT ![c] = {}]
    /\ tried' = [tried EXCEPT ![c] = {}]
    /\ dropped' = dropped \ {c}
    /\ UNCHANGED <<age, ended>>

\* Login with others: recordFailureLocked appends, then
\* ensureFailureCapacityLocked removes the entry of any client, this one too.
LoginFails(c, f) ==
    /\ ~LockedLocked(c)
    /\ \A d \in Clients : f \notin failures[d] \cup tried[d]
    /\ age' = [age EXCEPT ![f] = 0]
    /\ LET recorded == [failures EXCEPT ![c] = Recent(@) \cup {f}]
       IN  IF Room(Cardinality(Entries(recorded)), MaxFailures)
           THEN failures' = recorded /\ UNCHANGED dropped
           ELSE \E d \in Entries(recorded) :
                   /\ failures' = [recorded EXCEPT ![d] = {}]
                   /\ dropped' = dropped \cup {d}
    /\ tried' = [tried EXCEPT ![c] = @ \cup {f}]
    /\ UNCHANGED <<sessions, left, issued, ended>>

\* Login of a locked client: nothing is recorded, only the old failures go.
LoginLocked(c) ==
    /\ LockedLocked(c)
    /\ failures' = [failures EXCEPT ![c] = Recent(@)]
    /\ UNCHANGED <<sessions, left, age, issued, ended, tried, dropped>>

\* CheckSession, by requireAdmin and handleAdminAuth: an expired token is
\* removed when somebody shows it.
CheckSession(t) ==
    /\ t \in sessions
    /\ left[t] < 0
    /\ sessions' = sessions \ {t}
    /\ UNCHANGED <<left, age, failures, issued, ended, tried, dropped>>

\* handleAdminLogout.
Logout(t) ==
    /\ t \in issued \ ended
    /\ sessions' = sessions \ {t}
    /\ ended' = ended \cup {t}
    /\ UNCHANGED <<left, age, failures, issued, tried, dropped>>

Older(a) == IF a < Window THEN a + 1 ELSE Window

Tick ==
    /\ left' = [t \in Tokens |-> IF left[t] < 0 THEN -1 ELSE left[t] - 1]
    /\ age' = [f \in Attempts |-> Older(age[f])]
    /\ tried' = [c \in Clients |-> {f \in tried[c] : age'[f] < Window}]
    /\ dropped' = {c \in dropped : tried'[c] # {}}
    /\ UNCHANGED <<sessions, failures, issued, ended>>

AdminNext ==
    \/ \E c \in Clients : \/ \E t \in Tokens : LoginOK(c, t)
                          \/ \E f \in Attempts : LoginFails(c, f)
                          \/ LoginLocked(c)
    \/ \E t \in Tokens : CheckSession(t) \/ Logout(t)
    \/ Tick

AdminSpec == AdminInit /\ [][AdminNext]_adminVars

-----------------------------------------------------------------------------
(***************************************************************************)
(* Properties.                                                             *)
(***************************************************************************)
\* The types, and neither table outgrows its limit.
AdminTypeOK ==
    /\ sessions \subseteq issued /\ issued \subseteq Tokens /\ ended \subseteq issued
    /\ left \in [Tokens -> -1 .. TTL]
    /\ age \in [Attempts -> 0 .. Window]
    /\ failures \in [Clients -> SUBSET Attempts]
    /\ tried \in [Clients -> SUBSET Attempts]
    /\ dropped \subseteq Clients
    /\ Cardinality(sessions) <= MaxSessions
    /\ Cardinality(Entries(failures)) < MaxFailures

\* A session is honoured until it expires, is logged out or MaxSessions others
\* that do not expire before it have been issued: the limit of the table never
\* costs a newer session than it has to, expired entries nobody showed included.
SessionKept ==
    \A t \in issued \ ended :
        \/ t \in sessions
        \/ left[t] < 0
        \/ Cardinality({u \in issued \ {t} : left[u] >= left[t]}) >= MaxSessions

\* "failed logins are rate-limited per client": what is remembered of a client
\* is what it did in the window since its last success, so that it never fails
\* more than Threshold times in a window and is not locked for longer than
\* that, unless its entry was removed for want of space.
RateLimited ==
    \A c \in Clients :
        /\ Recent(failures[c]) \subseteq tried[c]
        /\ c \notin dropped => /\ Recent(failures[c]) = tried[c]
                               /\ Cardinality(tried[c]) <= Threshold

\* Clients, tokens and attempts are only compared for equality.
Symmetry == Permutations(Clients) \cup Permutations(Tokens) \cup Permutations(Attempts)
=============================================================================
