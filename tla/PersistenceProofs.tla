-------------------------- MODULE PersistenceProofs --------------------------
(***************************************************************************)
(* For any number of handlers and any interleaving of their steps, crashes *)
(* and failed writes: the device keeps its key pair, a logout is final,    *)
(* and what is in memory reaches the file.                                 *)
(***************************************************************************)
EXTENDS Persistence, TLAPS

Saving == {"truncate", "fill", "rename"}
Writing == {"persist", "refill"}

\* Where the start of the program, and a handler in each operation, can be.
ControlInv ==
    /\ pc \in [Procs -> {"load", "defaults", "open", "failed", "idle", "reply", "otp",
                         "forget", "parse", "apply", "save"} \cup Saving \cup Writing]
    /\ op \in [Procs -> {"none", "login", "logout", "partial", "copy", "company", "update"}]
    /\ arg \in [Procs -> Proxies \ Malformed]
    /\ op[Main] = "none"
    /\ pc[Main] \notin {"reply", "otp", "forget", "parse", "apply"}
    /\ \A h \in Handlers :
         /\ pc[h] \notin {"load", "defaults", "open", "failed"}
         /\ op[h] = "none" <=> pc[h] = "idle"
         /\ pc[h] \in {"reply", "otp"} => op[h] = "login"
         /\ pc[h] = "forget" => op[h] \in {"logout", "partial"}
         /\ pc[h] \in {"parse", "apply"} => op[h] = "update"
         /\ pc[h] \in Writing => op[h] # "update"

\* No handler runs before the program has started.
StartInv == pc[Main] # "idle" => \A h \in Handlers : pc[h] = "idle"

\* The jar's lock is held exactly while the cookie file is written.
JarLock == \A p \in Procs : pc[p] \in Writing <=> jarMu = p

\* The configuration has been loaded and, if need be, completed and saved.
Loaded == pc[Main] \in {"open", "idle"} \cup Writing

\* Which key pair the files and the copy being saved hold.
KeyInv ==
    /\ disk # Torn
    /\ pc[Main] = "defaults" => mem = disk.has
    /\ pc[Main] \notin {"load", "defaults", "failed"} => mem.key # 0
    /\ Loaded => disk.is = "whole" /\ disk.has.key = mem.key
    /\ confMu # Free => snap.key = mem.key
    /\ \A p \in Procs : pc[p] = "rename" => tmp = Whole(snap)

\* What a logout that meets no login has cleared so far, and stays cleared.
LogoutInv ==
    /\ \A p, q \in Procs : op[p] = "login" => ~out /\ op[q] # "logout"
    /\ out /\ confMu # Free => ~snap.code
    /\ \A p \in Procs : op[p] = "logout" =>
         /\ ~jar
         /\ pc[p] \notin Writing => jarFile # "session"
         /\ pc[p] \in {"save"} \cup Saving => ~mem.code
         /\ pc[p] \in Saving => ~snap.code

\* A change in memory that is not in the file will be saved, or has failed.
PendingInv ==
    ~dirty /\ pc[Main] \notin {"load", "defaults", "failed"} =>
        \/ \E p \in Procs : pc[p] \in {"parse", "apply", "save"}
        \/ confMu # Free /\ snap = mem
        \/ confMu = Free /\ disk = Whole(mem)

\* The inductive invariant.
PInv ==
    /\ TypeOK
    /\ ControlInv /\ StartInv /\ JarLock
    /\ KeyInv /\ LogoutSticks /\ LogoutInv /\ PendingInv

\* What the steps need to know of the constants and of the two files.
LEMMA Constants ==
  /\ Main \in Procs /\ Handlers \subseteq Procs /\ Main \notin Handlers
  /\ \A p \in Procs : p = Main \/ p \in Handlers
  /\ Free \notin Procs
  /\ NoProxy \in Proxies \ Malformed /\ ~NoConfig.code
  /\ NoConfig \in Config /\ Missing \in Files /\ Torn \in Files
  /\ \A c \in Config : Whole(c) \in Files /\ Whole(c) # Torn /\ Whole(c).has = c
  /\ \A f \in Files : f.has \in Config /\ (f # Torn /\ f.has.key # 0 => f = Whole(f.has))
  <1>1. Free \notin Procs /\ Main \notin Handlers /\ NoProxy \in Proxies \ Malformed
    BY PersistenceAssumption DEF Procs, Free
  <1>2. NoConfig \in Config /\ NoConfig.key = 0 /\ ~NoConfig.code
    <2>1. 0 \in Keys
      BY PersistenceAssumption DEF Keys
    <2> QED
      BY <1>1, <2>1, Zenon DEF NoConfig, Config
  <1>3. Missing \in Files /\ Torn \in Files
    BY DEF Files
  <1>4. \A c \in Config : Whole(c) \in Files /\ Whole(c) # Torn /\ Whole(c).has = c
    BY DEF Files, Whole, Torn
  <1>5. ASSUME NEW f \in Files
        PROVE  f.has \in Config /\ (f # Torn /\ f.has.key # 0 => f = Whole(f.has))
    <2>1. CASE f = Missing \/ f = Torn
      <3>1. f.has = NoConfig
        BY <2>1 DEF Missing, Torn
      <3> QED
        BY <1>2, <3>1
    <2>2. CASE \E c \in Config : f = Whole(c)
      BY <2>2 DEF Whole
    <2> QED
      BY <2>1, <2>2 DEF Files
  <1> QED
    BY <1>1, <1>2, <1>3, <1>4, <1>5 DEF Procs

\* What an assignment to one field of the configuration leaves alone.
LEMMA ConfigUpdates ==
  ASSUME NEW c \in Config
  PROVE  /\ c.key \in Keys /\ c.code \in BOOLEAN /\ c.proxy \in Proxies
         /\ \A b \in BOOLEAN :
              LET d == [c EXCEPT !.code = b]
              IN  d \in Config /\ d.key = c.key /\ d.code = b
         /\ \A v \in Proxies :
              LET d == [c EXCEPT !.proxy = v]
              IN  d \in Config /\ d.key = c.key /\ d.code = c.code
         /\ \A k \in Keys :
              LET d == [c EXCEPT !.key = k]
              IN  d \in Config /\ d.key = k /\ d.code = c.code
  BY Zenon DEF Config

\* Before the program runs nobody is in an operation, and outside its own saves
\* and writes nobody holds a lock.
LEMMA Starting ==
  ASSUME PInv, pc[Main] # "idle", pc[Main] \notin Saving \cup Writing
  PROVE  /\ confMu = Free /\ jarMu = Free
         /\ \A p \in Procs : op[p] = "none" /\ pc[p] \notin Saving \cup Writing
         /\ \A h \in Handlers : pc[h] = "idle"
  <1>1. \A h \in Handlers : pc[h] = "idle" /\ op[h] = "none"
    BY Constants DEF PInv, StartInv, ControlInv
  <1>2. \A p \in Procs : op[p] = "none" /\ pc[p] \notin Saving \cup Writing
    BY <1>1, Constants DEF PInv, ControlInv, Saving, Writing
  <1>3. confMu = Free
    BY <1>2, Constants DEF PInv, TypeOK, Saving
  <1>4. jarMu = Free
    BY <1>2, Constants DEF PInv, TypeOK, JarLock
  <1> QED
    BY <1>1, <1>2, <1>3, <1>4

-----------------------------------------------------------------------------
(***************************************************************************)
(* Config.Save.                                                            *)
(***************************************************************************)
\* What is serialized is what is in memory, and nobody else is in a Save.
LEMMA SaveBeginStep ==
  ASSUME PInv, NEW p \in Procs, SaveBegin(p)
  PROVE  PInv'
  <1> USE Constants DEF PInv, Saving, Writing
  <1> USE DEF Goto, conf, cookies, SaveBegin, SaveFree
  <1>1. TypeOK'
    BY DEF TypeOK, ControlInv
  <1>2. ControlInv'
    BY DEF TypeOK, ControlInv
  <1>3. StartInv'
    BY DEF ControlInv, StartInv
  <1>4. JarLock'
    BY DEF TypeOK, ControlInv, JarLock, StartInv
  <1>5. KeyInv'
    BY DEF TypeOK, ControlInv, StartInv, KeyInv, Loaded, Whole
  <1>6. LogoutSticks'
    BY DEF TypeOK, ControlInv, KeyInv, LogoutSticks, LogoutInv, Whole
  <1>7. LogoutInv'
    BY DEF TypeOK, ControlInv, JarLock, LogoutSticks, LogoutInv
  <1>8. PendingInv'
    BY DEF TypeOK, ControlInv, StartInv, KeyInv, Loaded, PendingInv
  <1> QED
    BY <1>1, <1>2, <1>3, <1>4, <1>5, <1>6, <1>7, <1>8

\* Only the temporary file is touched.
LEMMA SaveTruncateStep ==
  ASSUME PInv, NEW p \in Procs, SaveTruncate(p)
  PROVE  PInv'
  <1> USE Constants DEF PInv, Saving, Writing
  <1> USE DEF Goto, conf, cookies, SaveTruncate, Target
  <1>1. TypeOK'
    BY DEF TypeOK, ControlInv
  <1>2. ControlInv'
    BY DEF TypeOK, ControlInv
  <1>3. StartInv'
    BY DEF ControlInv, StartInv
  <1>4. JarLock'
    BY DEF TypeOK, ControlInv, JarLock, StartInv
  <1>5. KeyInv'
    BY DEF TypeOK, ControlInv, StartInv, KeyInv, Loaded, Whole
  <1>6. LogoutSticks'
    BY DEF TypeOK, ControlInv, KeyInv, LogoutSticks, LogoutInv, Whole
  <1>7. LogoutInv'
    BY DEF TypeOK, ControlInv, JarLock, LogoutSticks, LogoutInv
  <1>8. PendingInv'
    BY DEF TypeOK, ControlInv, StartInv, KeyInv, Loaded, PendingInv
  <1> QED
    BY <1>1, <1>2, <1>3, <1>4, <1>5, <1>6, <1>7, <1>8

\* The temporary file now holds what was serialized.
LEMMA SaveFillStep ==
  ASSUME PInv, NEW p \in Procs, SaveFill(p)
  PROVE  PInv'
  <1> USE Constants DEF PInv, Saving, Writing
  <1> USE DEF Goto, conf, cookies, SaveFill, Target
  <1>1. TypeOK'
    BY DEF TypeOK, ControlInv
  <1>2. ControlInv'
    BY DEF TypeOK, ControlInv
  <1>3. StartInv'
    BY DEF ControlInv, StartInv
  <1>4. JarLock'
    BY DEF TypeOK, ControlInv, JarLock, StartInv
  <1>5. KeyInv'
    BY DEF TypeOK, ControlInv, StartInv, KeyInv, Loaded, Whole
  <1>6. LogoutSticks'
    BY DEF TypeOK, ControlInv, KeyInv, LogoutSticks, LogoutInv, Whole
  <1>7. LogoutInv'
    BY DEF TypeOK, ControlInv, JarLock, LogoutSticks, LogoutInv
  <1>8. PendingInv'
    BY DEF TypeOK, ControlInv, StartInv, KeyInv, Loaded, PendingInv
  <1> QED
    BY <1>1, <1>2, <1>3, <1>4, <1>5, <1>6, <1>7, <1>8

\* The file becomes what was serialized: with the key of the device, and after a
\* logout without its secret.  If memory has changed since, somebody will save.
LEMMA SaveRenameStep ==
  ASSUME PInv, NEW p \in Procs, SaveRename(p)
  PROVE  PInv'
  <1> USE Constants DEF PInv, Saving, Writing
  <1> USE DEF Goto, conf, cookies, SaveRename, Unlock, AfterSave, Renamed, Finish, Become
  <1>1. TypeOK'
    BY DEF TypeOK, ControlInv
  <1>2. ControlInv'
    BY DEF TypeOK, ControlInv
  <1>3. StartInv'
    BY DEF ControlInv, StartInv
  <1>4. JarLock'
    BY DEF TypeOK, ControlInv, JarLock, StartInv
  <1>5. KeyInv'
    BY DEF TypeOK, ControlInv, StartInv, KeyInv, Loaded, Whole
  <1>6. LogoutSticks'
    BY DEF TypeOK, ControlInv, KeyInv, LogoutSticks, LogoutInv, Whole
  <1>7. LogoutInv'
    BY DEF TypeOK, ControlInv, JarLock, LogoutSticks, LogoutInv
  <1>8. PendingInv'
    BY DEF TypeOK, ControlInv, StartInv, KeyInv, Loaded, PendingInv
  <1> QED
    BY <1>1, <1>2, <1>3, <1>4, <1>5, <1>6, <1>7, <1>8

\* The change stays in memory, which dirty records.
LEMMA SaveFailsStep ==
  ASSUME PInv, NEW p \in Procs, SaveFails(p)
  PROVE  PInv'
  <1> USE Constants DEF PInv, Saving, Writing
  <1> USE DEF Goto, conf, cookies, SaveFails, Unlock, Finish, Become
  <1>1. TypeOK'
    BY DEF TypeOK, ControlInv
  <1>2. ControlInv'
    BY DEF TypeOK, ControlInv
  <1>3. StartInv'
    BY DEF ControlInv, StartInv
  <1>4. JarLock'
    BY DEF TypeOK, ControlInv, JarLock, StartInv
  <1>5. KeyInv'
    BY DEF TypeOK, ControlInv, StartInv, KeyInv, Loaded, Whole
  <1>6. LogoutSticks'
    BY DEF TypeOK, ControlInv, KeyInv, LogoutSticks, LogoutInv, Whole
  <1>7. LogoutInv'
    BY DEF TypeOK, ControlInv, JarLock, LogoutSticks, LogoutInv
  <1>8. PendingInv'
    BY DEF TypeOK, ControlInv, StartInv, KeyInv, Loaded, PendingInv
  <1> QED
    BY <1>1, <1>2, <1>3, <1>4, <1>5, <1>6, <1>7, <1>8

-----------------------------------------------------------------------------
(***************************************************************************)
(* The cookie file.                                                        *)
(***************************************************************************)
LEMMA PersistTruncateStep ==
  ASSUME PInv, NEW p \in Procs, PersistTruncate(p)
  PROVE  PInv'
  <1> USE Constants DEF PInv, Saving, Writing
  <1> USE DEF Goto, conf, cookies, PersistTruncate
  <1>1. TypeOK'
    BY DEF TypeOK, ControlInv
  <1>2. ControlInv'
    BY DEF TypeOK, ControlInv
  <1>3. StartInv'
    BY DEF ControlInv, StartInv
  <1>4. JarLock'
    BY DEF TypeOK, ControlInv, JarLock, StartInv
  <1>5. KeyInv'
    BY DEF TypeOK, ControlInv, StartInv, KeyInv, Loaded, Whole
  <1>6. LogoutSticks'
    BY DEF TypeOK, ControlInv, KeyInv, LogoutSticks, LogoutInv, Whole
  <1>7. LogoutInv'
    BY DEF TypeOK, ControlInv, JarLock, LogoutSticks, LogoutInv
  <1>8. PendingInv'
    BY DEF TypeOK, ControlInv, StartInv, KeyInv, Loaded, PendingInv
  <1> QED
    BY <1>1, <1>2, <1>3, <1>4, <1>5, <1>6, <1>7, <1>8

\* A logout has cleared the jar, so what it writes holds no session.
LEMMA PersistFillStep ==
  ASSUME PInv, NEW p \in Procs, PersistFill(p)
  PROVE  PInv'
  <1> USE Constants DEF PInv, Saving, Writing
  <1> USE DEF Goto, conf, cookies, PersistFill, AfterPersist, Become
  <1>1. TypeOK'
    BY DEF TypeOK, ControlInv
  <1>2. ControlInv'
    BY DEF TypeOK, ControlInv
  <1>3. StartInv'
    BY DEF ControlInv, StartInv
  <1>4. JarLock'
    BY DEF TypeOK, ControlInv, JarLock, StartInv
  <1>5. KeyInv'
    BY DEF TypeOK, ControlInv, StartInv, KeyInv, Loaded, Whole
  <1>6. LogoutSticks'
    BY DEF TypeOK, ControlInv, KeyInv, LogoutSticks, LogoutInv, Whole
  <1>7. LogoutInv'
    BY DEF TypeOK, ControlInv, JarLock, LogoutSticks, LogoutInv
  <1>8. PendingInv'
    BY DEF TypeOK, ControlInv, StartInv, KeyInv, Loaded, PendingInv
  <1> QED
    BY <1>1, <1>2, <1>3, <1>4, <1>5, <1>6, <1>7, <1>8

\* A logout whose cookie file could not be written promises nothing.
LEMMA PersistFailsStep ==
  ASSUME PInv, NEW p \in Procs, PersistFails(p)
  PROVE  PInv'
  <1> USE Constants DEF PInv, Saving, Writing
  <1> USE DEF Goto, conf, cookies, PersistFails, AfterPersist, Become
  <1>1. TypeOK'
    BY DEF TypeOK, ControlInv
  <1>2. ControlInv'
    BY DEF TypeOK, ControlInv
  <1>3. StartInv'
    BY DEF ControlInv, StartInv
  <1>4. JarLock'
    BY DEF TypeOK, ControlInv, JarLock, StartInv
  <1>5. KeyInv'
    BY DEF TypeOK, ControlInv, StartInv, KeyInv, Loaded, Whole
  <1>6. LogoutSticks'
    BY DEF TypeOK, ControlInv, KeyInv, LogoutSticks, LogoutInv, Whole
  <1>7. LogoutInv'
    BY DEF TypeOK, ControlInv, JarLock, LogoutSticks, LogoutInv
  <1>8. PendingInv'
    BY DEF TypeOK, ControlInv, StartInv, KeyInv, Loaded, PendingInv
  <1> QED
    BY <1>1, <1>2, <1>3, <1>4, <1>5, <1>6, <1>7, <1>8

-----------------------------------------------------------------------------
(***************************************************************************)
(* The handlers.                                                           *)
(***************************************************************************)
\* From here on no logout can complete undisturbed.
LEMMA LoginStep ==
  ASSUME PInv, NEW p \in Handlers, Login(p)
  PROVE  PInv'
  <1> USE Constants DEF PInv, Saving, Writing
  <1> USE DEF Goto, conf, cookies, Login, Running
  <1>1. TypeOK'
    BY DEF TypeOK, ControlInv
  <1>2. ControlInv'
    BY DEF TypeOK, ControlInv
  <1>3. StartInv'
    BY DEF ControlInv, StartInv
  <1>4. JarLock'
    BY DEF TypeOK, ControlInv, JarLock, StartInv
  <1>5. KeyInv'
    BY DEF TypeOK, ControlInv, StartInv, KeyInv, Loaded, Whole
  <1>6. LogoutSticks'
    BY DEF TypeOK, ControlInv, KeyInv, LogoutSticks, LogoutInv, Whole
  <1>7. LogoutInv'
    BY DEF TypeOK, ControlInv, JarLock, LogoutSticks, LogoutInv
  <1>8. PendingInv'
    BY DEF TypeOK, ControlInv, StartInv, KeyInv, Loaded, PendingInv
  <1> QED
    BY <1>1, <1>2, <1>3, <1>4, <1>5, <1>6, <1>7, <1>8

\* The session comes back, but only to a login.
LEMMA LoginReplyStep ==
  ASSUME PInv, NEW p \in Handlers, LoginReply(p)
  PROVE  PInv'
  <1> USE Constants DEF PInv, Saving, Writing
  <1> USE DEF Goto, conf, cookies, LoginReply, JarHold
  <1>1. TypeOK'
    BY DEF TypeOK, ControlInv
  <1>2. ControlInv'
    BY DEF TypeOK, ControlInv
  <1>3. StartInv'
    BY DEF ControlInv, StartInv
  <1>4. JarLock'
    BY DEF TypeOK, ControlInv, JarLock, StartInv
  <1>5. KeyInv'
    BY DEF TypeOK, ControlInv, StartInv, KeyInv, Loaded, Whole
  <1>6. LogoutSticks'
    BY DEF TypeOK, ControlInv, KeyInv, LogoutSticks, LogoutInv, Whole
  <1>7. LogoutInv'
    BY DEF TypeOK, ControlInv, JarLock, LogoutSticks, LogoutInv
  <1>8. PendingInv'
    BY DEF TypeOK, ControlInv, StartInv, KeyInv, Loaded, PendingInv
  <1> QED
    BY <1>1, <1>2, <1>3, <1>4, <1>5, <1>6, <1>7, <1>8

LEMMA LoginRefusedStep ==
  ASSUME PInv, NEW p \in Handlers, LoginRefused(p)
  PROVE  PInv'
  <1> USE Constants DEF PInv, Saving, Writing
  <1> USE DEF Goto, conf, cookies, LoginRefused, Finish, Become
  <1>1. TypeOK'
    BY DEF TypeOK, ControlInv
  <1>2. ControlInv'
    BY DEF TypeOK, ControlInv
  <1>3. StartInv'
    BY DEF ControlInv, StartInv
  <1>4. JarLock'
    BY DEF TypeOK, ControlInv, JarLock, StartInv
  <1>5. KeyInv'
    BY DEF TypeOK, ControlInv, StartInv, KeyInv, Loaded, Whole
  <1>6. LogoutSticks'
    BY DEF TypeOK, ControlInv, KeyInv, LogoutSticks, LogoutInv, Whole
  <1>7. LogoutInv'
    BY DEF TypeOK, ControlInv, JarLock, LogoutSticks, LogoutInv
  <1>8. PendingInv'
    BY DEF TypeOK, ControlInv, StartInv, KeyInv, Loaded, PendingInv
  <1> QED
    BY <1>1, <1>2, <1>3, <1>4, <1>5, <1>6, <1>7, <1>8

\* The secret comes back, but only to a login, which will save it.
LEMMA FinalizeLoginStep ==
  ASSUME PInv, NEW p \in Handlers, FinalizeLogin(p)
  PROVE  PInv'
  <1> USE Constants DEF PInv, Saving, Writing
  <1>1. mem' \in Config /\ mem'.key = mem.key
    <2>1. PICK code \in {TRUE, mem.code} : mem' = [mem EXCEPT !.code = code]
      BY DEF FinalizeLogin
    <2>2. mem \in Config /\ code \in BOOLEAN
      BY ConfigUpdates, Zenon DEF TypeOK
    <2> QED
      BY <2>1, <2>2, ConfigUpdates
  <1> USE DEF Goto, conf, cookies, FinalizeLogin
  <1>2. TypeOK'
    BY <1>1 DEF TypeOK, ControlInv
  <1>3. ControlInv'
    BY <1>1 DEF TypeOK, ControlInv
  <1>4. StartInv'
    BY <1>1 DEF ControlInv, StartInv
  <1>5. JarLock'
    BY <1>1 DEF TypeOK, ControlInv, JarLock, StartInv
  <1>6. KeyInv'
    BY <1>1 DEF TypeOK, ControlInv, StartInv, KeyInv, Loaded, Whole
  <1>7. LogoutSticks'
    BY <1>1 DEF TypeOK, ControlInv, KeyInv, LogoutSticks, LogoutInv, Whole
  <1>8. LogoutInv'
    BY <1>1 DEF TypeOK, ControlInv, JarLock, LogoutSticks, LogoutInv
  <1>9. PendingInv'
    BY <1>1 DEF TypeOK, ControlInv, StartInv, KeyInv, Loaded, PendingInv
  <1> QED
    BY <1>2, <1>3, <1>4, <1>5, <1>6, <1>7, <1>8, <1>9

LEMMA LogoutStep ==
  ASSUME PInv, NEW p \in Handlers, Logout(p)
  PROVE  PInv'
  <1> USE Constants DEF PInv, Saving, Writing
  <1> USE DEF Goto, conf, cookies, Logout, JarHold, Become, Running
  <1>1. TypeOK'
    BY DEF TypeOK, ControlInv
  <1>2. ControlInv'
    BY DEF TypeOK, ControlInv
  <1>3. StartInv'
    BY DEF ControlInv, StartInv
  <1>4. JarLock'
    BY DEF TypeOK, ControlInv, JarLock, StartInv
  <1>5. KeyInv'
    BY DEF TypeOK, ControlInv, StartInv, KeyInv, Loaded, Whole
  <1>6. LogoutSticks'
    BY DEF TypeOK, ControlInv, KeyInv, LogoutSticks, LogoutInv, Whole
  <1>7. LogoutInv'
    BY DEF TypeOK, ControlInv, JarLock, LogoutSticks, LogoutInv
  <1>8. PendingInv'
    BY DEF TypeOK, ControlInv, StartInv, KeyInv, Loaded, PendingInv
  <1> QED
    BY <1>1, <1>2, <1>3, <1>4, <1>5, <1>6, <1>7, <1>8

LEMMA ForgetStep ==
  ASSUME PInv, NEW p \in Handlers, Forget(p)
  PROVE  PInv'
  <1> USE Constants DEF PInv, Saving, Writing
  <1>1. mem' \in Config /\ mem'.key = mem.key /\ ~mem'.code
    <2>1. mem \in Config /\ mem' = [mem EXCEPT !.code = FALSE]
      BY DEF TypeOK, Forget, Forgotten
    <2> QED
      BY <2>1, ConfigUpdates, Zenon
  <1> USE DEF Goto, conf, cookies, Forget
  <1>2. TypeOK'
    BY <1>1 DEF TypeOK, ControlInv
  <1>3. ControlInv'
    BY <1>1 DEF TypeOK, ControlInv
  <1>4. StartInv'
    BY <1>1 DEF ControlInv, StartInv
  <1>5. JarLock'
    BY <1>1 DEF TypeOK, ControlInv, JarLock, StartInv
  <1>6. KeyInv'
    BY <1>1 DEF TypeOK, ControlInv, StartInv, KeyInv, Loaded, Whole
  <1>7. LogoutSticks'
    BY <1>1 DEF TypeOK, ControlInv, KeyInv, LogoutSticks, LogoutInv, Whole
  <1>8. LogoutInv'
    BY <1>1 DEF TypeOK, ControlInv, JarLock, LogoutSticks, LogoutInv
  <1>9. PendingInv'
    BY <1>1 DEF TypeOK, ControlInv, StartInv, KeyInv, Loaded, PendingInv
  <1> QED
    BY <1>2, <1>3, <1>4, <1>5, <1>6, <1>7, <1>8, <1>9

LEMMA CopyHostStep ==
  ASSUME PInv, NEW p \in Handlers, CopyHost(p)
  PROVE  PInv'
  <1> USE Constants DEF PInv, Saving, Writing
  <1> USE DEF Goto, conf, cookies, CopyHost, JarHold, Become, Running
  <1>1. TypeOK'
    BY DEF TypeOK, ControlInv
  <1>2. ControlInv'
    BY DEF TypeOK, ControlInv
  <1>3. StartInv'
    BY DEF ControlInv, StartInv
  <1>4. JarLock'
    BY DEF TypeOK, ControlInv, JarLock, StartInv
  <1>5. KeyInv'
    BY DEF TypeOK, ControlInv, StartInv, KeyInv, Loaded, Whole
  <1>6. LogoutSticks'
    BY DEF TypeOK, ControlInv, KeyInv, LogoutSticks, LogoutInv, Whole
  <1>7. LogoutInv'
    BY DEF TypeOK, ControlInv, JarLock, LogoutSticks, LogoutInv
  <1>8. PendingInv'
    BY DEF TypeOK, ControlInv, StartInv, KeyInv, Loaded, PendingInv
  <1> QED
    BY <1>1, <1>2, <1>3, <1>4, <1>5, <1>6, <1>7, <1>8

LEMMA SetCompanyStep ==
  ASSUME PInv, NEW p \in Handlers, SetCompany(p)
  PROVE  PInv'
  <1> USE Constants DEF PInv, Saving, Writing
  <1> USE DEF Goto, conf, cookies, SetCompany, JarHold, Become, Running
  <1>1. TypeOK'
    BY DEF TypeOK, ControlInv
  <1>2. ControlInv'
    BY DEF TypeOK, ControlInv
  <1>3. StartInv'
    BY DEF ControlInv, StartInv
  <1>4. JarLock'
    BY DEF TypeOK, ControlInv, JarLock, StartInv
  <1>5. KeyInv'
    BY DEF TypeOK, ControlInv, StartInv, KeyInv, Loaded, Whole
  <1>6. LogoutSticks'
    BY DEF TypeOK, ControlInv, KeyInv, LogoutSticks, LogoutInv, Whole
  <1>7. LogoutInv'
    BY DEF TypeOK, ControlInv, JarLock, LogoutSticks, LogoutInv
  <1>8. PendingInv'
    BY DEF TypeOK, ControlInv, StartInv, KeyInv, Loaded, PendingInv
  <1> QED
    BY <1>1, <1>2, <1>3, <1>4, <1>5, <1>6, <1>7, <1>8

\* The new value is in memory only; this handler will save it or fail.
LEMMA UpdateConfigStep ==
  ASSUME PInv, NEW p \in Handlers, NEW v \in Proxies, UpdateConfig(p, v)
  PROVE  PInv'
  <1> USE Constants DEF PInv, Saving, Writing
  <1>1. mem' \in Config /\ mem'.key = mem.key /\ mem'.code = mem.code
    <2>1. mem \in Config /\ mem' = [mem EXCEPT !.proxy = v]
      BY DEF TypeOK, UpdateConfig
    <2> QED
      BY <2>1, ConfigUpdates
  <1> USE DEF Goto, conf, cookies, UpdateConfig, Running, Become
  <1>2. TypeOK'
    BY <1>1 DEF TypeOK, ControlInv
  <1>3. ControlInv'
    BY <1>1 DEF TypeOK, ControlInv
  <1>4. StartInv'
    BY <1>1 DEF ControlInv, StartInv
  <1>5. JarLock'
    BY <1>1 DEF TypeOK, ControlInv, JarLock, StartInv
  <1>6. KeyInv'
    BY <1>1 DEF TypeOK, ControlInv, StartInv, KeyInv, Loaded, Whole
  <1>7. LogoutSticks'
    BY <1>1 DEF TypeOK, ControlInv, KeyInv, LogoutSticks, LogoutInv, Whole
  <1>8. LogoutInv'
    BY <1>1 DEF TypeOK, ControlInv, JarLock, LogoutSticks, LogoutInv
  <1>9. PendingInv'
    BY <1>1 DEF TypeOK, ControlInv, StartInv, KeyInv, Loaded, PendingInv
  <1> QED
    BY <1>2, <1>3, <1>4, <1>5, <1>6, <1>7, <1>8, <1>9

LEMMA ParseStep ==
  ASSUME PInv, NEW p \in Handlers, Parse(p)
  PROVE  PInv'
  <1> USE Constants DEF PInv, Saving, Writing
  <1> USE DEF Goto, conf, cookies, Parse
  <1>1. TypeOK'
    BY DEF TypeOK, ControlInv
  <1>2. ControlInv'
    <2>1. mem.proxy \in Proxies \ Malformed
      BY ConfigUpdates DEF TypeOK
    <2> QED
      BY <2>1 DEF ControlInv
  <1>3. StartInv'
    BY DEF ControlInv, StartInv
  <1>4. JarLock'
    BY DEF TypeOK, ControlInv, JarLock, StartInv
  <1>5. KeyInv'
    BY DEF TypeOK, ControlInv, StartInv, KeyInv, Loaded, Whole
  <1>6. LogoutSticks'
    BY DEF TypeOK, ControlInv, KeyInv, LogoutSticks, LogoutInv, Whole
  <1>7. LogoutInv'
    BY DEF TypeOK, ControlInv, JarLock, LogoutSticks, LogoutInv
  <1>8. PendingInv'
    BY DEF TypeOK, ControlInv, StartInv, KeyInv, Loaded, PendingInv
  <1> QED
    BY <1>1, <1>2, <1>3, <1>4, <1>5, <1>6, <1>7, <1>8

LEMMA ParseFailsStep ==
  ASSUME PInv, NEW p \in Handlers, ParseFails(p)
  PROVE  PInv'
  <1> USE Constants DEF PInv, Saving, Writing
  <1> USE DEF Goto, conf, cookies, ParseFails, Finish, Become
  <1>1. TypeOK'
    BY DEF TypeOK, ControlInv
  <1>2. ControlInv'
    BY DEF TypeOK, ControlInv
  <1>3. StartInv'
    BY DEF ControlInv, StartInv
  <1>4. JarLock'
    BY DEF TypeOK, ControlInv, JarLock, StartInv
  <1>5. KeyInv'
    BY DEF TypeOK, ControlInv, StartInv, KeyInv, Loaded, Whole
  <1>6. LogoutSticks'
    BY DEF TypeOK, ControlInv, KeyInv, LogoutSticks, LogoutInv, Whole
  <1>7. LogoutInv'
    BY DEF TypeOK, ControlInv, JarLock, LogoutSticks, LogoutInv
  <1>8. PendingInv'
    BY DEF TypeOK, ControlInv, StartInv, KeyInv, Loaded, PendingInv
  <1> QED
    BY <1>1, <1>2, <1>3, <1>4, <1>5, <1>6, <1>7, <1>8

LEMMA ApplyStep ==
  ASSUME PInv, NEW p \in Handlers, Apply(p)
  PROVE  PInv'
  <1> USE Constants DEF PInv, Saving, Writing
  <1> USE DEF Goto, conf, cookies, Apply, ThenSave
  <1>1. TypeOK'
    BY DEF TypeOK, ControlInv
  <1>2. ControlInv'
    BY DEF TypeOK, ControlInv
  <1>3. StartInv'
    BY DEF ControlInv, StartInv
  <1>4. JarLock'
    BY DEF TypeOK, ControlInv, JarLock, StartInv
  <1>5. KeyInv'
    BY DEF TypeOK, ControlInv, StartInv, KeyInv, Loaded, Whole
  <1>6. LogoutSticks'
    BY DEF TypeOK, ControlInv, KeyInv, LogoutSticks, LogoutInv, Whole
  <1>7. LogoutInv'
    BY DEF TypeOK, ControlInv, JarLock, LogoutSticks, LogoutInv
  <1>8. PendingInv'
    BY DEF TypeOK, ControlInv, StartInv, KeyInv, Loaded, PendingInv
  <1> QED
    BY <1>1, <1>2, <1>3, <1>4, <1>5, <1>6, <1>7, <1>8

-----------------------------------------------------------------------------
(***************************************************************************)
(* The start and the end.                                                  *)
(***************************************************************************)
LEMMA LoadConfigStep ==
  ASSUME PInv, LoadConfig
  PROVE  PInv'
  <1> USE Constants DEF PInv, Saving, Writing
  <1>1. /\ confMu = Free /\ jarMu = Free
        /\ \A p \in Procs : op[p] = "none" /\ pc[p] \notin Saving \cup Writing
        /\ \A h \in Handlers : pc[h] = "idle"
    BY Starting DEF LoadConfig
  <1> USE DEF Goto, conf, cookies, LoadConfig
  <1>2. TypeOK'
    BY <1>1 DEF TypeOK, ControlInv
  <1>3. ControlInv'
    BY <1>1 DEF TypeOK, ControlInv
  <1>4. StartInv'
    BY <1>1 DEF ControlInv, StartInv
  <1>5. JarLock'
    BY <1>1 DEF TypeOK, ControlInv, JarLock, StartInv
  <1>6. KeyInv'
    BY <1>1 DEF TypeOK, ControlInv, StartInv, KeyInv, Loaded, Whole
  <1>7. LogoutSticks'
    BY <1>1 DEF TypeOK, ControlInv, KeyInv, LogoutSticks, LogoutInv, Whole
  <1>8. LogoutInv'
    BY <1>1 DEF TypeOK, ControlInv, JarLock, LogoutSticks, LogoutInv
  <1>9. PendingInv'
    BY <1>1 DEF TypeOK, ControlInv, StartInv, KeyInv, Loaded, PendingInv
  <1> QED
    BY <1>2, <1>3, <1>4, <1>5, <1>6, <1>7, <1>8, <1>9

\* A configuration that has a key came from a whole file.
LEMMA EnsureDefaultsStep ==
  ASSUME PInv, EnsureDefaults
  PROVE  PInv'
  <1> USE Constants DEF PInv, Saving, Writing
  <1>1. /\ confMu = Free /\ jarMu = Free
        /\ \A p \in Procs : op[p] = "none" /\ pc[p] \notin Saving \cup Writing
        /\ \A h \in Handlers : pc[h] = "idle"
    BY Starting DEF EnsureDefaults
  <1>2. /\ mem' \in Config /\ mem'.code = mem.code /\ mem'.key # 0 /\ keys' \in Keys
        /\ mem'.key = mem.key => mem' = mem
    <2>1. mem \in Config /\ keys \in Keys
      BY DEF TypeOK
    <2>2. CASE mem.key # 0 /\ UNCHANGED <<mem, keys>>
      BY <2>1, <2>2
    <2>3. CASE /\ mem.key = 0 /\ keys < MaxKeys /\ keys' = keys + 1
               /\ mem' = [mem EXCEPT !.key = keys + 1]
      <3>1. keys + 1 \in Keys /\ keys + 1 # 0
        BY <2>1, <2>3, PersistenceAssumption DEF Keys
      <3> QED
        BY <2>1, <2>3, <3>1, ConfigUpdates
    <2> QED
      BY <2>2, <2>3 DEF EnsureDefaults
  <1> USE DEF Goto, conf, cookies, EnsureDefaults
  <1>3. TypeOK'
    BY <1>1, <1>2 DEF TypeOK, ControlInv
  <1>4. ControlInv'
    BY <1>1 DEF TypeOK, ControlInv
  <1>5. StartInv'
    BY <1>1 DEF ControlInv, StartInv
  <1>6. JarLock'
    BY <1>1 DEF TypeOK, ControlInv, JarLock, StartInv
  <1>7. KeyInv'
    BY <1>1, <1>2 DEF TypeOK, ControlInv, StartInv, KeyInv, Loaded, Whole
  <1>8. LogoutSticks'
    BY <1>2 DEF LogoutSticks
  <1>9. LogoutInv'
    BY <1>1 DEF TypeOK, ControlInv, JarLock, LogoutSticks, LogoutInv
  <1>10. PendingInv'
    BY <1>1 DEF TypeOK, ControlInv, StartInv, KeyInv, Loaded, PendingInv
  <1> QED
    BY <1>3, <1>4, <1>5, <1>6, <1>7, <1>8, <1>9, <1>10

LEMMA OpenStep ==
  ASSUME PInv, Open
  PROVE  PInv'
  <1> USE Constants DEF PInv, Saving, Writing
  <1>1. /\ confMu = Free /\ jarMu = Free
        /\ \A p \in Procs : op[p] = "none" /\ pc[p] \notin Saving \cup Writing
        /\ \A h \in Handlers : pc[h] = "idle"
    BY Starting DEF Open
  <1> USE DEF Goto, conf, cookies, Open
  <1>2. TypeOK'
    <2>1. applied' \in Proxies \ Malformed
      BY ConfigUpdates DEF TypeOK
    <2>2. jar' \in BOOLEAN
      BY Zenon
    <2> QED
      BY <1>1, <2>1, <2>2 DEF TypeOK, ControlInv
  <1>3. ControlInv'
    BY <1>1 DEF TypeOK, ControlInv
  <1>4. StartInv'
    BY <1>1 DEF ControlInv, StartInv
  <1>5. JarLock'
    BY <1>1 DEF TypeOK, ControlInv, JarLock, StartInv
  <1>6. KeyInv'
    BY <1>1 DEF TypeOK, ControlInv, StartInv, KeyInv, Loaded, Whole
  <1>7. LogoutSticks'
    BY <1>1 DEF TypeOK, ControlInv, KeyInv, LogoutSticks, LogoutInv, Whole
  <1>8. LogoutInv'
    BY <1>1 DEF TypeOK, ControlInv, JarLock, LogoutSticks, LogoutInv
  <1>9. PendingInv'
    BY <1>1 DEF TypeOK, ControlInv, StartInv, KeyInv, Loaded, PendingInv
  <1> QED
    BY <1>2, <1>3, <1>4, <1>5, <1>6, <1>7, <1>8, <1>9

\* Only the files are left, and the history of the logout.
LEMMA CrashStep ==
  ASSUME PInv, Crash
  PROVE  PInv'
  <1> USE Constants DEF PInv, Saving, Writing
  <1> USE DEF Goto, conf, cookies, Crash, Unlock
  <1>1. TypeOK'
    BY DEF TypeOK, ControlInv
  <1>2. ControlInv'
    BY DEF TypeOK, ControlInv
  <1>3. StartInv'
    BY DEF ControlInv, StartInv
  <1>4. JarLock'
    BY DEF TypeOK, ControlInv, JarLock, StartInv
  <1>5. KeyInv'
    BY DEF TypeOK, ControlInv, StartInv, KeyInv, Loaded, Whole
  <1>6. LogoutSticks'
    BY DEF TypeOK, ControlInv, KeyInv, LogoutSticks, LogoutInv, Whole
  <1>7. LogoutInv'
    BY DEF TypeOK, ControlInv, JarLock, LogoutSticks, LogoutInv
  <1>8. PendingInv'
    BY DEF TypeOK, ControlInv, StartInv, KeyInv, Loaded, PendingInv
  <1> QED
    BY <1>1, <1>2, <1>3, <1>4, <1>5, <1>6, <1>7, <1>8

-----------------------------------------------------------------------------
LEMMA PInvInit == Init => PInv
  <1> SUFFICES ASSUME Init PROVE PInv
    OBVIOUS
  <1> USE Constants DEF Init
  <1>1. jar \in BOOLEAN /\ out \in BOOLEAN /\ dirty \in BOOLEAN /\ ~out /\ ~jar
    BY Zenon
  <1>2. TypeOK
    BY <1>1, PersistenceAssumption DEF TypeOK, Keys
  <1>3. ControlInv /\ StartInv /\ JarLock
    BY DEF ControlInv, StartInv, JarLock, Saving, Writing
  <1>4. KeyInv
    BY DEF KeyInv, Loaded, Missing, Torn, Writing
  <1>5. LogoutSticks /\ LogoutInv
    BY <1>1 DEF LogoutSticks, LogoutInv
  <1>6. PendingInv
    BY DEF PendingInv
  <1> QED
    BY <1>2, <1>3, <1>4, <1>5, <1>6 DEF PInv

LEMMA PInvNext == PInv /\ [Next]_vars => PInv'
  <1> SUFFICES ASSUME PInv, [Next]_vars PROVE PInv'
    OBVIOUS
  <1>1. CASE UNCHANGED vars
    BY <1>1
       DEF vars, conf, cookies, PInv, TypeOK, ControlInv, StartInv, JarLock, KeyInv,
           Loaded, LogoutSticks, LogoutInv, PendingInv
  <1>2. ASSUME NEW p \in Procs,
               \/ SaveBegin(p) \/ SaveTruncate(p) \/ SaveFill(p)
               \/ SaveRename(p) \/ SaveFails(p)
               \/ PersistTruncate(p) \/ PersistFill(p) \/ PersistFails(p)
        PROVE  PInv'
    BY <1>2, SaveBeginStep, SaveTruncateStep, SaveFillStep, SaveRenameStep,
       SaveFailsStep, PersistTruncateStep, PersistFillStep, PersistFailsStep
  <1>3. ASSUME NEW h \in Handlers,
               \/ Login(h) \/ LoginReply(h) \/ LoginRefused(h) \/ FinalizeLogin(h)
               \/ Logout(h) \/ Forget(h) \/ CopyHost(h) \/ SetCompany(h)
               \/ \E v \in Proxies : UpdateConfig(h, v)
               \/ Parse(h) \/ ParseFails(h) \/ Apply(h)
        PROVE  PInv'
    BY <1>3, LoginStep, LoginReplyStep, LoginRefusedStep, FinalizeLoginStep,
       LogoutStep, ForgetStep, CopyHostStep, SetCompanyStep, UpdateConfigStep,
       ParseStep, ParseFailsStep, ApplyStep
  <1>4. CASE LoadConfig \/ EnsureDefaults \/ Open \/ Crash
    BY <1>4, LoadConfigStep, EnsureDefaultsStep, OpenStep, CrashStep
  <1> QED
    BY <1>1, <1>2, <1>3, <1>4 DEF Next

-----------------------------------------------------------------------------
\* The inductive invariant of the files, the handlers and the start.
THEOREM PersistenceInvariant == Spec => []PInv
  BY PInvInit, PInvNext, PTL DEF Spec

\* The types, and Config.mu is held exactly from the serialization of a Save to
\* its rename or failure.
THEOREM PersistenceTypeCorrect == Spec => []TypeOK
  <1>1. PInv => TypeOK
    BY DEF PInv
  <1> QED
    BY <1>1, PersistenceInvariant, PTL

\* A restart, after a crash at any point, finds a whole configuration file, and
\* in it the key pair the device was running with.
THEOREM IdentityKeptAlways == Spec => []IdentityKept
  <1>1. PInv => IdentityKept
    BY DEF PInv, KeyInv, Loaded, IdentityKept, Running
  <1> QED
    BY <1>1, PersistenceInvariant, PTL

\* Until the next login nothing brings back what a completed logout removed,
\* neither a concurrent Save nor a restart.
THEOREM LogoutSticksAlways == Spec => []LogoutSticks
  <1>1. PInv => LogoutSticks
    BY DEF PInv
  <1> QED
    BY <1>1, PersistenceInvariant, PTL

\* With no operation under way and none failed, the file holds what is in
\* memory.
THEOREM SavedWhenQuietAlways == Spec => []SavedWhenQuiet
  <1>1. PInv => SavedWhenQuiet
    <2> SUFFICES ASSUME PInv, Running, \A h \in Handlers : op[h] = "none", ~dirty
                 PROVE  disk = Whole(mem)
      BY DEF SavedWhenQuiet
    <2>1. \A p \in Procs : pc[p] = "idle"
      BY Constants DEF PInv, ControlInv, Running
    <2>2. confMu = Free
      BY <2>1 DEF PInv, TypeOK
    <2> QED
      BY <2>1, <2>2, Constants DEF PInv, PendingInv
  <1> QED
    BY <1>1, PersistenceInvariant, PTL
=============================================================================
