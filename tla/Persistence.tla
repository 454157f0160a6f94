----------------------------- MODULE Persistence -----------------------------
(***************************************************************************)
(* What survives a restart: the configuration (corplink/config.go, written *)
(* to a temporary file and renamed), the cookie jar (corplink/cookiejar.go,*)
(* written in place) and the operations that change them: login, logout    *)
(* and UpdateConfig, run by concurrent HTTP handlers.  The process may die *)
(* between any two steps.                                                  *)
(*                                                                         *)
(* The configuration is three of its fields: the generated key pair, the   *)
(* TOTP secret and the upstream proxy.  The jar holds the session or not;  *)
(* only a login's response sets it.                                        *)
(***************************************************************************)
EXTENDS Naturals

CONSTANTS
    Handlers,   \* concurrent handlers of the control panel
    Main,       \* the start of the program
    MaxKeys,    \* bound of the key pairs ever generated
    Proxies,    \* values of upstream_proxy, NoProxy among them
    Malformed   \* those of them ParseUpstreamProxy rejects

NoProxy == ""   \* nothing configured

ASSUME PersistenceAssumption ==
    /\ MaxKeys \in Nat
    /\ Main \notin Handlers
    /\ "free" \notin Handlers \cup {Main}
    /\ NoProxy \in Proxies \ Malformed

Procs == Handlers \cup {Main}
Keys == 0 .. MaxKeys   \* 0 is the missing key pair
Config == [key : Keys, code : BOOLEAN, proxy : Proxies]
NoConfig == [key |-> 0, code |-> FALSE, proxy |-> NoProxy]

\* A file: there or not, whole or cut off in the middle of a write.
Missing == [is |-> "missing", has |-> NoConfig]
Torn == [is |-> "torn", has |-> NoConfig]
Whole(c) == [is |-> "whole", has |-> c]

VARIABLES
    mem,      \* the Config in memory
    applied,  \* conf.upstreamProxy
    disk,     \* the configuration file
    tmp,      \* its temporary file
    confMu,   \* holder of Config.mu
    snap,     \* what the holder serialized
    jar,      \* does the jar in memory hold the session
    jarFile,  \* the cookie file: "none", "session" or "torn"
    jarMu,    \* holder of persistentJar.mu
    pc, op,   \* where each process is, and in which operation
    arg,      \* the proxy each process passed to SetUpstreamProxy
    keys,     \* key pairs generated so far
    out,      \* history: a logout met no login and wrote its files; no login since
    dirty     \* history: an operation failed and left its change in memory

conf == <<mem, applied, disk, tmp, confMu, snap>>
cookies == <<jar, jarFile, jarMu>>
vars == <<conf, cookies, pc, op, arg, keys, out, dirty>>

Free == "free"

Init ==
    /\ mem = NoConfig
    /\ applied = NoProxy
    /\ disk = Missing
    /\ tmp = Missing
    /\ confMu = Free
    /\ snap = NoConfig
    /\ jar = FALSE
    /\ jarFile = "none"
    /\ jarMu = Free
    /\ pc = [p \in Procs |-> IF p = Main THEN "load" ELSE "idle"]
    /\ op = [p \in Procs |-> "none"]
    /\ arg = [p \in Procs |-> NoProxy]
    /\ keys = 0
    /\ out = FALSE
    /\ dirty = FALSE

Goto(p, next) == pc' = [pc EXCEPT ![p] = next]
Become(p, what) == op' = [op EXCEPT ![p] = what]
Finish(p) == Goto(p, "idle") /\ Become(p, "none")
Running == pc[Main] = "idle"

-----------------------------------------------------------------------------
(***************************************************************************)
(* Config.Save.                                                            *)
(***************************************************************************)
\* Save holds c.mu from the serialization to the rename.
SaveFree == confMu = Free

SaveBegin(p) ==
    /\ pc[p] = "save"
    /\ SaveFree
    /\ confMu' = p
    /\ snap' = mem
    /\ Goto(p, "truncate")
    /\ UNCHANGED <<mem, applied, disk, tmp, cookies, op, arg, keys, out, dirty>>

\* Faulty: the file itself is written.
Target_InPlace(f) == disk' = f /\ UNCHANGED tmp

\* os.WriteFile goes to the temporary file.
Target(f) == tmp' = f /\ UNCHANGED disk

SaveTruncate(p) ==
    /\ pc[p] = "truncate"
    /\ Target(Torn)
    /\ Goto(p, "fill")
    /\ UNCHANGED <<mem, applied, confMu, snap, cookies, op, arg, keys, out, dirty>>

SaveFill(p) ==
    /\ pc[p] = "fill"
    /\ Target(Whole(snap))
    /\ Goto(p, "rename")
    /\ UNCHANGED <<mem, applied, confMu, snap, cookies, op, arg, keys, out, dirty>>

Unlock == confMu' = Free /\ snap' = NoConfig

\* The program goes on to read the cookies; a handler answers its request.
AfterSave(p) ==
    IF p = Main THEN Goto(p, "open") /\ UNCHANGED op ELSE Finish(p)

\* The rename replaces the old file at once.
Renamed == tmp

SaveRename(p) ==
    /\ pc[p] = "rename"
    /\ disk' = Renamed
    /\ tmp' = Missing
    /\ Unlock
    /\ AfterSave(p)
    /\ out' = (out \/ op[p] = "logout")
    /\ dirty' = (dirty /\ snap # mem)
    /\ UNCHANGED <<mem, applied, cookies, arg, keys>>

\* A write or the rename fails: the program does not start, a handler answers
\* with the error, except a logout, which ignores it.
SaveFails(p) ==
    /\ pc[p] \in {"truncate", "fill", "rename"}
    /\ Unlock
    /\ IF p = Main THEN Goto(p, "failed") /\ UNCHANGED op ELSE Finish(p)
    /\ dirty' = TRUE
    /\ UNCHANGED <<mem, applied, disk, tmp, cookies, arg, keys, out>>

-----------------------------------------------------------------------------
(***************************************************************************)
(* persistentJar: every change rewrites the file in place, under j.mu.     *)
(***************************************************************************)
JarHold(p, session) ==
    /\ jarMu = Free
    /\ jarMu' = p
    /\ jar' = session
    /\ Goto(p, "persist")
    /\ UNCHANGED <<conf, jarFile, arg, keys, dirty>>

\* What follows the write of the cookie file in each operation.
AfterPersist(p) ==
    CASE op[p] = "login" -> Goto(p, "otp")
      [] op[p] = "company" -> Goto(p, "save")
      [] op[p] \in {"copy", "none"} -> Goto(p, "idle")
      [] OTHER -> Goto(p, "forget")

PersistTruncate(p) ==
    /\ pc[p] = "persist"
    /\ jarFile' = "torn"
    /\ Goto(p, "refill")
    /\ UNCHANGED <<conf, jar, jarMu, op, arg, keys, out, dirty>>

PersistFill(p) ==
    /\ pc[p] = "refill"
    /\ jarFile' = IF jar THEN "session" ELSE "none"
    /\ jarMu' = Free
    /\ AfterPersist(p)
    /\ Become(p, IF op[p] = "copy" THEN "none" ELSE op[p])
    /\ UNCHANGED <<conf, jar, arg, keys, out, dirty>>

\* os.WriteFile fails and nobody looks: a logout goes on all the same, but it
\* has not removed the session from the disk (operation "partial").
PersistFails(p) ==
    /\ pc[p] \in {"persist", "refill"}
    /\ jarMu' = Free
    /\ AfterPersist(p)
    /\ Become(p, CASE op[p] = "copy" -> "none"
                   [] op[p] = "logout" -> "partial"
                   [] OTHER -> op[p])
    /\ UNCHANGED <<conf, jar, jarFile, arg, keys, out, dirty>>

-----------------------------------------------------------------------------
(***************************************************************************)
(* The handlers.                                                           *)
(***************************************************************************)
\* handleLoginPassword, handleEmailVerify: the request is sent.  A logout under
\* way may now be undone by the login (operation "partial").
Login(h) ==
    /\ Running /\ pc[h] = "idle"
    /\ op' = [p \in Procs |-> CASE p = h -> "login"
                               [] op[p] = "logout" -> "partial"
                               [] OTHER -> op[p]]
    /\ Goto(h, "reply")
    /\ out' = FALSE
    /\ UNCHANGED <<conf, cookies, arg, keys, dirty>>

\* The answer carries the session cookie ...
LoginReply(h) ==
    /\ pc[h] = "reply"
    /\ JarHold(h, TRUE)
    /\ UNCHANGED <<op, out>>

\* ... or refuses the login.
LoginRefused(h) ==
    /\ pc[h] = "reply"
    /\ Finish(h)
    /\ UNCHANGED <<conf, cookies, arg, keys, out, dirty>>

\* finalizeLogin: the TOTP secret is fetched if the server gives one.
FinalizeLogin(h) ==
    /\ pc[h] = "otp"
    /\ \E code \in {TRUE, mem.code} : mem' = [mem EXCEPT !.code = code]
    /\ Goto(h, "save")
    /\ UNCHANGED <<applied, disk, tmp, confMu, snap, cookies, op, arg, keys, out, dirty>>

\* Manager.Logout: the session is cleared whatever the server answers ...
Logout(h) ==
    /\ Running /\ pc[h] = "idle"
    /\ Become(h, IF \E g \in Handlers : op[g] = "login" THEN "partial" ELSE "logout")
    /\ JarHold(h, FALSE)
    /\ UNCHANGED out

\* Faulty: the TOTP secret outlives the logout.
Forgotten_Not == mem

\* ... and then the TOTP secret.
Forgotten == [mem EXCEPT !.code = FALSE]

Forget(h) ==
    /\ pc[h] = "forget"
    /\ mem' = Forgotten
    /\ Goto(h, "save")
    /\ UNCHANGED <<applied, disk, tmp, confMu, snap, cookies, op, arg, keys, out, dirty>>

\* copyHost, by a probe or a connect: the jar is written again.
CopyHost(h) ==
    /\ Running /\ pc[h] = "idle"
    /\ Become(h, "copy")
    /\ JarHold(h, jar)
    /\ UNCHANGED out

\* SetCompany: SetServer seeds the device cookies, then the company is saved.
SetCompany(h) ==
    /\ Running /\ pc[h] = "idle"
    /\ Become(h, "company")
    /\ JarHold(h, jar)
    /\ UNCHANGED out

\* UpdateConfig: the value is stored under m.mu ...
UpdateConfig(h, v) ==
    /\ Running /\ pc[h] = "idle"
    /\ Become(h, "update")
    /\ mem' = [mem EXCEPT !.proxy = v]
    /\ Goto(h, "parse")
    /\ UNCHANGED <<applied, disk, tmp, confMu, snap, cookies, arg, keys, out, dirty>>

\* ... and read again without it, for SetUpstreamProxy to parse ...
Parse(h) ==
    /\ pc[h] = "parse"
    /\ mem.proxy \notin Malformed
    /\ arg' = [arg EXCEPT ![h] = mem.proxy]
    /\ Goto(h, "apply")
    /\ UNCHANGED <<conf, cookies, op, keys, out, dirty>>

\* ... which rejects it: the error is returned before the Save.
ParseFails(h) ==
    /\ pc[h] = "parse"
    /\ mem.proxy \in Malformed
    /\ Finish(h)
    /\ dirty' = TRUE
    /\ UNCHANGED <<conf, cookies, arg, keys, out>>

\* Faulty: the update is applied and not saved.
ThenSave_Not(h) == Finish(h)

ThenSave(h) == Goto(h, "save") /\ UNCHANGED op

Apply(h) ==
    /\ pc[h] = "apply"
    /\ applied' = arg[h]
    /\ arg' = [arg EXCEPT ![h] = NoProxy]
    /\ ThenSave(h)
    /\ UNCHANGED <<mem, disk, tmp, confMu, snap, cookies, keys, out, dirty>>

-----------------------------------------------------------------------------
(***************************************************************************)
(* The start of the program, and its end.                                  *)
(***************************************************************************)
\* LoadConfig: a missing or empty file is a fresh configuration.  A file cut
\* off in the middle would not parse and the program would not start.
LoadConfig ==
    /\ pc[Main] = "load"
    /\ disk # Torn
    /\ mem' = disk.has
    /\ Goto(Main, "defaults")
    /\ UNCHANGED <<applied, disk, tmp, confMu, snap, cookies, op, arg, keys, out, dirty>>

\* ensureDefaults: a key pair is generated when there is none.
EnsureDefaults ==
    /\ pc[Main] = "defaults"
    /\ \/ /\ mem.key # 0
          /\ Goto(Main, "open")
          /\ UNCHANGED <<mem, keys>>
       \/ /\ mem.key = 0
          /\ keys < MaxKeys
          /\ keys' = keys + 1
          /\ mem' = [mem EXCEPT !.key = keys + 1]
          /\ Goto(Main, "save")
    /\ UNCHANGED <<applied, disk, tmp, confMu, snap, cookies, op, arg, out, dirty>>

\* A malformed proxy and an unreadable cookie file are ignored.  Once there is
\* a server the device cookies are seeded, which writes the jar again.
Open ==
    /\ pc[Main] = "open"
    /\ applied' = IF mem.proxy \in Malformed THEN NoProxy ELSE mem.proxy
    /\ jar' = (jarFile = "session")
    /\ \/ Goto(Main, "idle") /\ UNCHANGED jarMu
       \/ Goto(Main, "persist") /\ jarMu' = Main
    /\ UNCHANGED <<mem, disk, tmp, confMu, snap, jarFile, op, arg, keys, out, dirty>>

\* The process dies and is started again: only the files are left.
Crash ==
    /\ pc[Main] # "load"
    /\ mem' = NoConfig
    /\ applied' = NoProxy
    /\ Unlock
    /\ jar' = FALSE
    /\ jarMu' = Free
    /\ pc' = [p \in Procs |-> IF p = Main THEN "load" ELSE "idle"]
    /\ op' = [p \in Procs |-> "none"]
    /\ arg' = [p \in Procs |-> NoProxy]
    /\ dirty' = FALSE
    /\ UNCHANGED <<disk, tmp, jarFile, keys, out>>

Next ==
    \/ \E p \in Procs : \/ SaveBegin(p) \/ SaveTruncate(p) \/ SaveFill(p)
                       \/ SaveRename(p) \/ SaveFails(p)
                       \/ PersistTruncate(p) \/ PersistFill(p) \/ PersistFails(p)
    \/ \E h \in Handlers :
          \/ Login(h) \/ LoginReply(h) \/ LoginRefused(h) \/ FinalizeLogin(h)
          \/ Logout(h) \/ Forget(h) \/ CopyHost(h) \/ SetCompany(h)
          \/ \E v \in Proxies : UpdateConfig(h, v)
          \/ Parse(h) \/ ParseFails(h) \/ Apply(h)
    \/ LoadConfig \/ EnsureDefaults \/ Open \/ Crash

Spec == Init /\ [][Next]_vars

-----------------------------------------------------------------------------
(***************************************************************************)
(* Properties.                                                             *)
(***************************************************************************)
Files == {Missing, Torn} \cup {Whole(c) : c \in Config}

\* The types, and Config.mu is held exactly from a Save's serialization to its
\* rename or its failure.
TypeOK ==
    /\ mem \in Config /\ snap \in Config
    /\ applied \in Proxies \ Malformed
    /\ disk \in Files /\ tmp \in Files
    /\ jar \in BOOLEAN /\ jarFile \in {"none", "session", "torn"}
    /\ {confMu, jarMu} \subseteq Procs \cup {Free}
    /\ keys \in Keys
    /\ out \in BOOLEAN /\ dirty \in BOOLEAN
    /\ \A p \in Procs : pc[p] \in {"truncate", "fill", "rename"} <=> confMu = p

\* However the program dies, in the middle of a Save too, the configuration
\* file it finds at its next start is whole, and the key pair the device was
\* running with is in it: a restart never makes it a new device.
IdentityKept ==
    /\ disk # Torn
    /\ Running => disk.is = "whole" /\ disk.has.key = mem.key /\ mem.key # 0

\* A logout that could write its files is final: until the next login neither
\* the session nor the TOTP secret is in memory or in a file, whatever the
\* other handlers save and however often the program restarts.
LogoutSticks ==
    out => /\ ~jar /\ ~mem.code
           /\ jarFile # "session" /\ ~disk.has.code

\* Save "persists the config": when no operation is under way and none has
\* failed, the file holds what is in memory, for every order of the Saves.
SavedWhenQuiet ==
    Running /\ (\A h \in Handlers : op[h] = "none") /\ ~dirty => disk = Whole(mem)

\* config.go: "SetUpstreamProxy keeps it in sync with config changes": when no
\* update is under way, the proxy in use is the one in the configuration.
ProxyInSync ==
    Running /\ (\A h \in Handlers : op[h] # "update") => applied = mem.proxy

\* config_ops.go: "A malformed value is rejected here": it is never on disk.
RejectedStaysOut == disk.has.proxy \notin Malformed
=============================================================================
