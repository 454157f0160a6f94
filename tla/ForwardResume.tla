--------------------------- MODULE ForwardResume ---------------------------
(***************************************************************************)
(* Plain-HTTP forwarding of the mixed proxy (corplink/proxy_http.go):      *)
(* handleForward dials upstream once per attempt and, when the tunnel dies *)
(* under a response, retries on the next tunnel and splices the rest of    *)
(* the body with a Range request, so that the client sees one response.    *)
(* Immutable assets are captured while they are relayed: a complete body   *)
(* goes to the cache, the prefix of an interrupted one is replayed to the  *)
(* next request for the same asset.                                        *)
(*                                                                         *)
(* All requests ask for one URL, so the cache is one slot for the complete *)
(* response and one for the partial one (AssetCache has the whole cache).  *)
(* A byte of a body is the pair of its source and its position: "rep" is   *)
(* the representation of the URL, "err" the page of an error status.       *)
(* Reads return any number of bytes, and the tunnel may fail between any   *)
(* two of them.  An action is what happens between two network operations. *)
(***************************************************************************)
EXTENDS Integers, Sequences

CONSTANTS
    Reqs,            \* client connections, each serving one request at a time
    Kinds,           \* kinds of requests the clients make
    MaxLen,          \* bound of the length of the representation
    ErrLen,          \* length of the error page
    BufferedMax,     \* forwardBufferedMax
    MaxObject,       \* assetCacheMaxObject
    MaxAttempts,     \* forwardMaxAttempts
    ResumeAttempts,  \* forwardResumeAttempts
    RangeFrom,       \* where the Range of a caller's own begins
    StableOrigin,    \* the origin gives every attempt the same answer
    None             \* no cached response, no partial, no header

ASSUME ForwardAssumption ==
    /\ Kinds \subseteq {"asset", "get", "head", "post", "range"}
    /\ {MaxLen, ErrLen, BufferedMax, MaxObject} \subseteq Nat
    /\ {MaxAttempts, ResumeAttempts, RangeFrom} \subseteq Nat \ {0}
    /\ StableOrigin \in BOOLEAN

VARIABLES
    length,   \* length of the representation
    origin,   \* what it answers with: the representation, an error page, nothing
    cached,   \* assetCache.items of the URL
    partial,  \* assetCache.partials of the URL
    pc,       \* where each connection's handler is
    kind,     \* the request it serves
    st,       \* its forwardState
    resp,     \* the response it is reading, and the bytes still to skip
    client,   \* what its client has received
    attempt, zero, before, \* the counters of the retry loop
    wrote     \* how often the request was sent upstream (2: more than once)

store == <<cached, partial>>
loop == <<attempt, zero, before>>
vars == <<length, origin, cached, partial, pc, kind, st, resp, client,
          attempt, zero, before, wrote>>

Bytes(source, n) == [i \in 1 .. n |-> <<source, i>>]
Representation == Bytes("rep", length)
Origins == {"rep", "err", "empty"}

\* A response header: from is the start of its Content-Range, 0 without one.
Header(status, clen, from) == [status |-> status, clen |-> clen, from |-> from]

\* &forwardState{total: -1, cacheKey: cacheKey}
Fresh(k) ==
    [headerSent |-> FALSE, relayed |-> 0, total |-> -1, closeAfter |-> FALSE,
     pending |-> <<>>, cacheKey |-> k = "asset", header |-> None, buf |-> <<>>]

NoResp == [status |-> "none", from |-> 0, body |-> <<>>, clen |-> -1,
           total |-> -1, skip |-> 0]
Silent == [heads |-> <<>>, body |-> <<>>, reuse |-> FALSE]

Init ==
    /\ length \in 0 .. MaxLen
    /\ origin \in Origins
    /\ cached = None
    /\ partial = None
    /\ pc = [r \in Reqs |-> "idle"]
    /\ kind \in [Reqs -> Kinds]
    /\ st = [r \in Reqs |-> Fresh(kind[r])]
    /\ resp = [r \in Reqs |-> NoResp]
    /\ client = [r \in Reqs |-> Silent]
    /\ attempt = [r \in Reqs |-> 0]
    /\ zero = [r \in Reqs |-> 0]
    /\ before = [r \in Reqs |-> 0]
    /\ wrote = [r \in Reqs |-> 0]

-----------------------------------------------------------------------------
(***************************************************************************)
(* The parts of forwardState's bookkeeping.                                *)
(***************************************************************************)
\* Faulty: every request is replayed.
CanRetry_Always(r) == TRUE

\* canRetry: idempotent and without a Range of the caller's own.
CanRetry(r) == kind[r] \notin {"post", "range"}

\* Bytes received so far, relayed or still buffered.
Progress(s) == s.relayed + Len(s.pending)

\* The offset a Range request asks for; 0 when the attempt starts over.
Offset(s) == IF s.headerSent THEN s.relayed ELSE Len(s.pending)
Resuming(s) == Offset(s) > 0

\* Faulty: the full body is spliced after the prefix.
Skip_Forgotten(s, a) == 0

\* Bytes to discard when the origin ignored the Range.
Skip(s, a) == IF a.status = "200" THEN Offset(s) ELSE 0

\* A response that cannot be spliced after the bytes already received.
Unspliceable(s, a) ==
    /\ Resuming(s)
    /\ \/ a.status \in {"err", "empty"}
       \/ a.status = "206" /\ a.from # Offset(s)

\* The complete length learnt from Content-Range.
LearnTotal(s, a) ==
    IF Resuming(s) /\ a.status = "206" /\ s.total < 0 THEN a.total ELSE s.total

\* Faulty: one byte early.
Complete_OffByOne(s) == s.total >= 0 /\ Progress(s) >= s.total - 1

\* The whole body has been received.
Complete(s) == s.total >= 0 /\ Progress(s) >= s.total

Bad502 == Header("502", 0, 0)

\* Faulty: also after a header.
Answer502_Always(r) ==
    client' = [client EXCEPT ![r].heads = Append(@, Bad502)]

\* The client's view after the 502 that only an unanswered client gets.
Answer502(r) ==
    client' = [client EXCEPT ![r].heads =
                  IF st[r].headerSent THEN @ ELSE Append(@, Bad502)]

\* Faulty: the last prefix is kept, not the longest.
PutPartial_Latest(pa) ==
    partial' = IF cached # None \/ Len(pa.body) > MaxObject THEN partial ELSE pa

\* putPartial: a complete copy wins, and so does a prefix at least as long.
PutPartial(pa) ==
    partial' = IF \/ cached # None
                  \/ Len(pa.body) > MaxObject
                  \/ partial # None /\ Len(partial.body) >= Len(pa.body)
               THEN partial ELSE pa

\* put, with the header reframed to the length of the body.
CommitAssetCache(s) ==
    IF s.cacheKey /\ s.header # None
    THEN /\ cached' = [header |-> [s.header EXCEPT !.clen = Len(s.buf)], body |-> s.buf]
         /\ partial' = None
    ELSE UNCHANGED store

\* Faulty: an interrupted transfer is committed too.
SavePartial_Commits(s) == CommitAssetCache(s)

\* savePartial: what was captured of an interrupted transfer is kept.
SavePartial(s) ==
    /\ IF s.cacheKey /\ s.header # None /\ s.buf # <<>>
       THEN PutPartial([header |-> s.header, body |-> s.buf,
                        total |-> s.total, closeAfter |-> s.closeAfter])
       ELSE UNCHANGED partial
    /\ UNCHANGED cached

-----------------------------------------------------------------------------
(***************************************************************************)
(* The outcomes of an attempt: fwdDone, fwdAbort and fwdRetry.             *)
(***************************************************************************)
Goto(r, next) == pc' = [pc EXCEPT ![r] = next]

Done(r, s, c) ==
    /\ Goto(r, "ended")
    /\ st' = [st EXCEPT ![r] = s]
    /\ client' = [client EXCEPT ![r] = [c EXCEPT !.reuse = ~s.closeAfter]]
    /\ resp' = [resp EXCEPT ![r] = NoResp]
    /\ UNCHANGED loop

Abort(r) ==
    /\ Goto(r, "ended")
    /\ SavePartial(st[r])
    /\ resp' = [resp EXCEPT ![r] = NoResp]
    /\ UNCHANGED <<st, loop>>

\* Attempts without progress in a row, this one included.
ZeroProgress(r) == IF Progress(st[r]) > before[r] THEN 0 ELSE zero[r] + 1

\* Another attempt is allowed: both budgets have room.
Again(r) ==
    /\ CanRetry(r)
    /\ ZeroProgress(r) < ResumeAttempts
    /\ attempt[r] + 1 < MaxAttempts

\* Faulty: the budgets are not charged.
TryAgain_Uncounted(r) ==
    /\ Again(r)
    /\ Goto(r, "attempt")
    /\ before' = [before EXCEPT ![r] = Progress(st[r])]
    /\ resp' = [resp EXCEPT ![r] = NoResp]
    /\ UNCHANGED <<attempt, zero, st, client, store>>

\* kickRefresh and waitTunnelSwap, and the next attempt on what is there then.
TryAgain(r) ==
    /\ Again(r)
    /\ Goto(r, "attempt")
    /\ attempt' = [attempt EXCEPT ![r] = @ + 1]
    /\ zero' = [zero EXCEPT ![r] = ZeroProgress(r)]
    /\ before' = [before EXCEPT ![r] = Progress(st[r])]
    /\ resp' = [resp EXCEPT ![r] = NoResp]
    /\ UNCHANGED <<st, client, store>>

GiveUp(r) ==
    /\ ~Again(r)
    /\ Answer502(r)
    /\ Goto(r, "ended")
    /\ SavePartial(st[r])
    /\ resp' = [resp EXCEPT ![r] = NoResp]
    /\ UNCHANGED <<st, loop>>

Retry(r) == TryAgain(r) \/ GiveUp(r)

-----------------------------------------------------------------------------
(***************************************************************************)
(* handleForward up to its loop.                                           *)
(***************************************************************************)
Begin(r, s, c, next) ==
    /\ Goto(r, next)
    /\ st' = [st EXCEPT ![r] = s]
    /\ client' = [client EXCEPT ![r] = c]
    /\ attempt' = [attempt EXCEPT ![r] = 0]
    /\ zero' = [zero EXCEPT ![r] = 0]
    /\ before' = [before EXCEPT ![r] = Progress(s)]

\* A request arrives: assets.get, and the replay of a complete response.
Request(r, k) ==
    /\ pc[r] \in {"idle", "ended"}
    /\ kind' = [kind EXCEPT ![r] = k]
    /\ wrote' = [wrote EXCEPT ![r] = 0]
    /\ \/ /\ k = "asset" /\ cached # None
          /\ Begin(r, Fresh(k), [heads |-> <<cached.header>>, body |-> cached.body,
                                 reuse |-> TRUE], "ended")
       \/ /\ k = "asset" /\ cached = None
          /\ Begin(r, Fresh(k), Silent, "lookup")
       \/ /\ k # "asset"
          /\ Begin(r, Fresh(k), Silent, "attempt")
    /\ UNCHANGED <<length, origin, store, resp>>

\* assets.getPartial, and the replay of the prefix it returns.
LookupPartial(r) ==
    /\ pc[r] = "lookup"
    /\ \/ /\ partial = None
          /\ Begin(r, st[r], Silent, "attempt")
       \/ /\ partial # None
          /\ Begin(r, [st[r] EXCEPT !.headerSent = TRUE, !.header = partial.header,
                                    !.buf = partial.body,
                                    !.relayed = Len(partial.body),
                                    !.total = partial.total,
                                    !.closeAfter = partial.closeAfter],
                   [heads |-> <<partial.header>>, body |-> partial.body,
                    reuse |-> FALSE], "attempt")
    /\ UNCHANGED <<length, origin, store, kind, resp, wrote>>

\* The client goes away while the prefix is replayed.
ReplayFails(r) ==
    /\ pc[r] = "lookup"
    /\ partial # None
    /\ Goto(r, "ended")
    /\ UNCHANGED <<length, origin, store, kind, st, resp, client, loop, wrote>>

-----------------------------------------------------------------------------
(***************************************************************************)
(* forwardOnce: dial, send, read the response header.                      *)
(***************************************************************************)
\* A timeout is retried while the client has nothing; a refusal is final.
DialFails(r) ==
    /\ pc[r] = "attempt"
    /\ \/ ~st[r].headerSent /\ Retry(r)
       \/ Answer502(r) /\ Abort(r)
    /\ UNCHANGED <<length, origin, kind, wrote>>

OnceMore(n) == IF n < 2 THEN n + 1 ELSE n

\* The request cannot be written, or no response header comes.
NoAnswer(r) ==
    /\ pc[r] = "attempt"
    /\ wrote' = [wrote EXCEPT ![r] = OnceMore(@)]
    /\ Retry(r)
    /\ UNCHANGED <<length, origin, kind>>

\* Where the Range of the request begins, the caller's own or the proxy's; 0
\* without one.
RangeStart(s, k) == IF k = "range" THEN RangeFrom ELSE Offset(s)

\* What the origin may answer: all of it, from a Range on, or with a status that
\* has no body (204, 304, 1xx); only a Range request gets a 206 (external).
Answers(s, k) ==
    LET body(b) == IF k = "head" THEN <<>> ELSE b
        full(status, b) ==
            {[status |-> status, from |-> 0, body |-> body(b), clen |-> n,
              total |-> -1, skip |-> 0] : n \in {-1, Len(b)}}
        part(from) ==
            {[status |-> "206", from |-> from,
              body |-> SubSeq(Representation, from + 1, length),
              clen |-> n, total |-> m, skip |-> 0] :
                  n \in {-1, length - from}, m \in {-1, length}}
        bare == [status |-> "empty", from |-> 0, body |-> <<>>, clen |-> 0,
                 total |-> -1, skip |-> 0]
        gives(x) == StableOrigin => origin = x
        start == RangeStart(s, k)
        exhausted == start > 0 /\ start >= length \* 416: nothing left
    IN UNION { IF gives("rep") THEN full("200", Representation) ELSE {},
               IF gives("rep") /\ start > 0 /\ ~exhausted THEN part(start) ELSE {},
               IF gives("rep") /\ Resuming(s) /\ ~exhausted THEN part(start - 1) ELSE {},
               IF gives("err") \/ exhausted THEN full("err", Bytes("err", ErrLen)) ELSE {},
               IF gives("empty") THEN {bare} ELSE {} }

\* The total of a first response; later ones only add what they teach.
TotalOf(r, s, a) ==
    IF s.headerSent \/ Resuming(s) THEN LearnTotal(s, a)
    ELSE IF kind[r] = "head" \/ a.status = "empty" THEN 0 ELSE a.clen

\* The header is written; a 200 of bounded size is captured for the cache.
WithHeader(s, a) ==
    LET capture == s.cacheKey /\ a.status = "200" /\ s.total <= MaxObject
    IN [s EXCEPT !.headerSent = TRUE, !.closeAfter = FALSE, !.cacheKey = capture,
                 !.header = IF capture THEN Header(a.status, a.clen, a.from) ELSE @]

Respond(r) ==
    /\ pc[r] = "attempt"
    /\ wrote' = [wrote EXCEPT ![r] = OnceMore(@)]
    /\ \E a \in Answers(st[r], kind[r]) :
         LET s == [st[r] EXCEPT !.total = TotalOf(r, st[r], a)]
         IN \/ /\ Unspliceable(st[r], a)
               /\ Abort(r)
               /\ UNCHANGED client
            \/ /\ ~Unspliceable(st[r], a)
               /\ resp' = [resp EXCEPT ![r] = [a EXCEPT !.skip = Skip(st[r], a)]]
               /\ \/ /\ s.headerSent
                     /\ st' = [st EXCEPT ![r] = s]
                     /\ Goto(r, "relay")
                     /\ UNCHANGED client
                  \/ /\ ~s.headerSent /\ (s.total < 0 \/ Resuming(s))
                     /\ st' = [st EXCEPT ![r] = s]
                     /\ Goto(r, "buffer")
                     /\ UNCHANGED client
                  \/ /\ ~s.headerSent /\ s.total >= 0 /\ ~Resuming(s)
                     /\ st' = [st EXCEPT ![r] = WithHeader(s, a)]
                     /\ client' = [client EXCEPT ![r].heads =
                                      Append(@, Header(a.status, a.clen, a.from))]
                     /\ Goto(r, "relay")
               /\ UNCHANGED <<loop, store>>
    /\ UNCHANGED <<length, origin, kind>>

-----------------------------------------------------------------------------
(***************************************************************************)
(* relayForwardBody and forwardBuffered: one Read per step.                *)
(***************************************************************************)
\* The first n bytes of the response, less the ones to skip.
Chunk(r, n) == SubSeq(resp[r].body, resp[r].skip + 1, n)

\* The response after a Read of n bytes.
AfterRead(r, n) ==
    resp' = [resp EXCEPT ![r].body = SubSeq(@, n + 1, Len(@)),
                         ![r].skip = IF n < @ THEN @ - n ELSE 0]

\* The chunk is captured unless the object outgrows the cache.
Capture(s, chunk) ==
    IF ~s.cacheKey THEN s
    ELSE IF Len(s.buf) + Len(chunk) > MaxObject
         THEN [s EXCEPT !.cacheKey = FALSE, !.buf = <<>>]
         ELSE [s EXCEPT !.buf = @ \o chunk]

\* The state once the chunk is written to the client.
Relayed(s, chunk) == [Capture(s, chunk) EXCEPT !.relayed = @ + Len(chunk)]

RelayRead(r) ==
    /\ pc[r] = "relay"
    /\ ~Complete(st[r])
    /\ \E n \in 1 .. Len(resp[r].body) :
         LET chunk == Chunk(r, n)
         IN /\ AfterRead(r, n)
            /\ client' = [client EXCEPT ![r].body = @ \o chunk]
            /\ st' = [st EXCEPT ![r] = Relayed(@, chunk)]
    /\ UNCHANGED <<length, origin, store, pc, kind, loop, wrote>>

\* The body is complete: commit it and keep the connection.
RelayDone(r) ==
    /\ pc[r] = "relay"
    /\ Complete(st[r])
    /\ CommitAssetCache(st[r])
    /\ Done(r, [st[r] EXCEPT !.cacheKey = FALSE, !.buf = <<>>], client[r])
    /\ UNCHANGED <<length, origin, kind, wrote>>

BufferRead(r) ==
    /\ pc[r] = "buffer"
    /\ ~Complete(st[r])
    /\ \E n \in 1 .. Len(resp[r].body) :
         LET chunk == Chunk(r, n)
             whole == st[r].pending \o chunk
         IN /\ AfterRead(r, n)
            /\ \/ /\ chunk = <<>> \/ Len(whole) <= BufferedMax
                  /\ st' = [st EXCEPT ![r].pending = whole]
                  /\ UNCHANGED <<pc, client>>
               \* streamOverflowBuffered
               \/ /\ chunk # <<>> /\ Len(whole) > BufferedMax
                  /\ st' = [st EXCEPT ![r].closeAfter = TRUE, ![r].cacheKey = FALSE,
                                      ![r].headerSent = TRUE, ![r].pending = <<>>,
                                      ![r].relayed = Len(whole), ![r].total = -1]
                  /\ client' = [client EXCEPT
                        ![r].heads = Append(@, Header(resp[r].status, resp[r].clen,
                                                      resp[r].from)),
                        ![r].body = whole]
                  /\ Goto(r, "overflow")
    /\ UNCHANGED <<length, origin, store, kind, loop, wrote>>

\* finishBuffered: one response with its length, whatever the origin's framing.
BufferDone(r) ==
    /\ pc[r] = "buffer"
    /\ Complete(st[r]) \/ (resp[r].body = <<>> /\ st[r].total < 0)
    /\ LET s == st[r]
           body == IF s.total >= 0 /\ s.total < Len(s.pending)
                   THEN SubSeq(s.pending, 1, s.total) ELSE s.pending
           status == IF resp[r].status = "206" THEN "200" ELSE resp[r].status
           head == Header(status, Len(body), 0)
           keep == s.cacheKey /\ status = "200" /\ Len(body) <= MaxObject
           done == [s EXCEPT !.headerSent = TRUE, !.relayed = Len(body),
                             !.total = Len(body), !.closeAfter = FALSE,
                             !.pending = <<>>, !.cacheKey = FALSE,
                             !.header = IF keep THEN head ELSE @]
       IN /\ CommitAssetCache([s EXCEPT !.cacheKey = keep, !.header = head, !.buf = body])
          /\ Done(r, done, [client[r] EXCEPT !.heads = Append(@, head), !.body = body])
    /\ UNCHANGED <<length, origin, kind, wrote>>

\* The rest of an overflowing body is copied without framing, and without a
\* deadline.
OverflowDone(r) ==
    /\ pc[r] = "overflow"
    /\ Done(r, st[r], [client[r] EXCEPT !.body = @ \o resp[r].body])
    /\ UNCHANGED <<length, origin, store, kind, wrote>>

\* A stall, a cut in the middle of a chunk, or an EOF short of the total.
Stall(r) ==
    /\ pc[r] \in {"relay", "buffer"}
    /\ ~Complete(st[r])
    /\ Retry(r)
    /\ UNCHANGED <<length, origin, kind, wrote>>

\* Any other read error, or the client is gone.
Fails(r) ==
    /\ pc[r] \in {"relay", "buffer", "overflow"}
    /\ pc[r] = "relay" => ~Complete(st[r])
    /\ Abort(r)
    /\ UNCHANGED <<length, origin, kind, client, wrote>>

-----------------------------------------------------------------------------
\* Room is made for other assets.
Evict ==
    /\ cached # None
    /\ cached' = None
    /\ UNCHANGED <<length, origin, partial, pc, kind, st, resp, client, loop, wrote>>

EvictPartial ==
    /\ partial # None
    /\ partial' = None
    /\ UNCHANGED <<length, origin, cached, pc, kind, st, resp, client, loop, wrote>>

Step(r) ==
    \/ LookupPartial(r) \/ ReplayFails(r)
    \/ DialFails(r) \/ NoAnswer(r) \/ Respond(r)
    \/ RelayRead(r) \/ RelayDone(r)
    \/ BufferRead(r) \/ BufferDone(r) \/ OverflowDone(r)
    \/ Stall(r) \/ Fails(r)

Next ==
    \/ \E r \in Reqs : Step(r) \/ \E k \in Kinds : Request(r, k)
    \/ Evict
    \/ EvictPartial

Spec == Init /\ [][Next]_vars

\* Every dial, read and write of a body has a deadline, but for the copy of an
\* overflow: streamOverflowBuffered has cleared both deadlines by then, and its
\* client alone sets the pace.
FairSpec == Spec /\ \A r \in Reqs : WF_vars(pc[r] # "overflow" /\ Step(r))

-----------------------------------------------------------------------------
(***************************************************************************)
(* Properties.                                                             *)
(***************************************************************************)
Statuses == {"200", "206", "err", "empty", "502"}
Headers == [status : Statuses, clen : Int, from : Nat]
Bodies == Seq({"rep", "err"} \X Nat)
ForwardStates ==
    [headerSent : BOOLEAN, relayed : Nat, total : Nat \cup {-1},
     closeAfter : BOOLEAN, pending : Bodies, cacheKey : BOOLEAN,
     header : Headers \cup {None}, buf : Bodies]

\* The retry loop of handleForward keeps its counters within forwardMaxAttempts
\* and forwardResumeAttempts, and forwardState has its Go types.
TypeOK ==
    /\ length \in Nat
    /\ origin \in Origins
    /\ cached = None \/ cached \in [header : Headers, body : Bodies]
    /\ partial = None \/
         partial \in [header : Headers, body : Bodies, total : Nat \cup {-1},
                     closeAfter : BOOLEAN]
    /\ pc \in [Reqs -> {"idle", "lookup", "attempt", "relay", "buffer", "overflow", "ended"}]
    /\ kind \in [Reqs -> Kinds]
    /\ st \in [Reqs -> ForwardStates]
    /\ resp \in [Reqs -> [status : Statuses \cup {"none"}, from : Nat, body : Bodies,
                         clen : Int, total : Int, skip : Nat]]
    /\ client \in [Reqs -> [heads : Seq(Headers), body : Bodies, reuse : BOOLEAN]]
    /\ attempt \in [Reqs -> 0 .. MaxAttempts - 1]
    /\ zero \in [Reqs -> 0 .. ResumeAttempts - 1]
    /\ before \in [Reqs -> Nat]
    /\ wrote \in [Reqs -> 0 .. 2]

\* The representation from an offset on, and the body a header announces.
From(offset) == SubSeq(Representation, offset + 1, length)
Announced(h) ==
    CASE h.status \in {"200", "206"} -> From(h.from)
      [] h.status = "err" -> Bytes("err", ErrLen)
      [] h.status \in {"empty", "502"} -> <<>>

IsPrefixOf(s, t) == Len(s) <= Len(t) /\ s = SubSeq(t, 1, Len(s))

\* However often handleForward resumes, replays a partial asset or skips what
\* an origin sends again, the client receives a prefix of one body: no byte is
\* lost, repeated or taken from another body.  Its header announced that body,
\* but in two cases: a range the caller asked for may come as a 200, and an
\* overflow may come under the 206 of its remainder (see AnnouncedBody).
SeamlessBody ==
    \A r \in Reqs :
        client[r].heads # <<>> =>
            \/ IsPrefixOf(client[r].body, Announced(client[r].heads[1]))
            \/ kind[r] = "range" /\ IsPrefixOf(client[r].body, From(RangeFrom))
            \/ st[r].closeAfter /\ IsPrefixOf(client[r].body, Representation)

\* finishBuffered makes a 206 a 200, as the "client never saw the earlier
\* truncated response": every header announces the body that follows it.
AnnouncedBody ==
    \A r \in Reqs :
        client[r].heads # <<>> =>
            IsPrefixOf(client[r].body, Announced(client[r].heads[1]))

\* A connection that handleForward hands back for another request carried
\* exactly the bytes its header declared, and no keep-alive response ever
\* carries more: the next response starts where the client expects it.
KeepAliveFramed ==
    \A r \in Reqs :
        (client[r].heads # <<>> /\ ~st[r].closeAfter /\ kind[r] # "head") =>
            LET declared == client[r].heads[1].clen
            IN /\ Len(client[r].body) <= declared
               /\ client[r].reuse => Len(client[r].body) = declared

\* A client gets at most one response header per request, whatever fails
\* after it: the 502 is for clients that have nothing yet.
HeaderOnce == \A r \in Reqs : Len(client[r].heads) <= 1

\* A request that is not idempotent, or has a Range of the caller's own, reaches
\* the origin at most once: nothing of it is sent again or spliced.
SentOnce == \A r \in Reqs : kind[r] \in {"post", "range"} => wrote[r] <= 1

\* Only complete 200 responses are cached: the body is the representation,
\* to its last byte, under the length it is replayed with.
OnlyWhole200Cached ==
    cached # None =>
        /\ cached.header = Header("200", length, 0)
        /\ cached.body = Representation

\* The one slot of AssetSlots that all requests for the URL share.
PrefixLen == IF partial = None THEN 0 ELSE Len(partial.body)
Slots == INSTANCE AssetSlots
             WITH Keys <- {"url"}, whole <- {k \in {"url"} : cached # None},
                  prefix <- [k \in {"url"} |-> PrefixLen]

\* What requests that overlap do to the cache is what AssetCache shows it to
\* allow: although each saves the prefix it has, or commits, long after it
\* looked, none shortens what another one saved ("progress is monotonic") or
\* leaves a prefix beside a complete response.
SharesSlot == Slots!Spec

\* A streamed overflow is close-delimited: its header declares no length that
\* ends the body early (streamOverflowBuffered).
OverflowUnframed ==
    \A r \in Reqs :
        (client[r].heads # <<>> /\ st[r].closeAfter) =>
            \/ client[r].heads[1].clen = -1
            \/ Len(client[r].body) <= client[r].heads[1].clen

\* Every request ends: with its response, with a 502, or with a closed
\* connection; or it comes to an overflow, which lasts as long as its client
\* leaves it unread.
RequestsEnd ==
    \A r \in Reqs : pc[r] \notin {"idle", "ended"} ~> pc[r] \in {"ended", "overflow"}
=============================================================================
