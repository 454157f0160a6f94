------------------------ MODULE ForwardResumeProofs ------------------------
(***************************************************************************)
(* For any number of connections, any lengths and limits, and any pattern  *)
(* of failures: a client gets one header, a request that is not idempotent *)
(* or has a Range of its own is sent once, and, if the origin does not     *)
(* change its mind between two attempts, the body is seamless, framed and  *)
(* cached only when it is whole.                                           *)
(*                                                                         *)
(* The connections share only the cache, so the invariant is a predicate   *)
(* of one connection's values (its place p, the request's kind k, its      *)
(* forwardState s, the response a and the client's view c) and one of the  *)
(* cache.                                                                  *)
(***************************************************************************)
EXTENDS ForwardResume, SequenceTheorems, TLAPS

Places == {"idle", "lookup", "attempt", "relay", "buffer", "overflow", "ended"}
Live == {"attempt", "relay", "buffer", "overflow"}
Reading == {"relay", "buffer", "overflow"}

Responses == [status : Statuses \cup {"none"}, from : Nat, body : Bodies,
              clen : Int, total : Int, skip : Nat]
Clients == [heads : Seq(Headers), body : Bodies, reuse : BOOLEAN]
Entries == [header : Headers, body : Bodies]
Partials == [header : Headers, body : Bodies, total : Nat \cup {-1}, closeAfter : BOOLEAN]

\* The kinds of requests that are never sent again.
Once == {"post", "range"}

\* The client has heard of the response exactly if headerSent, and until then
\* all that was received is pending; w counts how often the request was sent.
ControlOf(p, k, s, c, w) ==
    /\ Len(c.heads) <= 1
    /\ k \in Once => w <= 1
    /\ k \in Once /\ p = "attempt" => w = 0
    /\ k = "range" /\ p = "attempt" =>
         ~s.headerSent /\ s.pending = <<>> /\ s.total = -1
    /\ p = "lookup" => k = "asset" /\ s = Fresh("asset") /\ c = Silent
    /\ p \in {"relay", "overflow"} => s.headerSent
    /\ p = "buffer" => ~s.headerSent
    /\ p \in Live =>
         /\ ~c.reuse
         /\ s.headerSent => Len(c.heads) = 1 /\ s.pending = <<>>
         /\ ~s.headerSent => c.heads = <<>> /\ c.body = <<>> /\ s.relayed = 0

-----------------------------------------------------------------------------
\* With n the length of the representation and h what the origin answers with:
\* the bodies a request of kind k may be given, one unless the caller asks for a
\* range, and the statuses of the others.
RepFrom(n, i) == SubSeq(Bytes("rep", n), i + 1, n)
Wholes(n, h, k) ==
    CASE k = "head" -> {<<>>}
      [] k = "range" -> {Bytes("rep", n), RepFrom(n, RangeFrom), Bytes("err", ErrLen), <<>>}
      [] k \notin {"head", "range"} ->
           {IF h = "rep" THEN Bytes("rep", n)
            ELSE IF h = "err" THEN Bytes("err", ErrLen) ELSE <<>>}
Good(h) == IF h = "rep" THEN {"200", "206"} ELSE {h}

Received(s, c) == IF s.headerSent THEN c.body ELSE s.pending

\* What has been received is a prefix of the whole body b.
ReceivedOf(b, s, c) ==
    /\ Progress(s) <= Len(b)
    /\ Received(s, c) = SubSeq(b, 1, Progress(s))

\* The response a is one of those that deliver b, or the end of it.
Bears(n, k, b, a) ==
    \/ a.status = "200" /\ a.from = 0 /\ b = Bytes("rep", n)
    \/ a.status = "206" /\ IF k = "range" THEN a.from = RangeFrom /\ b = RepFrom(n, RangeFrom)
                           ELSE b = Bytes("rep", n)
    \/ a.status = "err" /\ b = Bytes("err", ErrLen)
    \/ a.status = "empty" /\ b = <<>>

\* The response being read continues it, but for the bytes to skip.
RestOf(n, b, h, p, k, s, a) ==
    /\ k # "range" => a.status \in Good(h)
    /\ k # "head" => Bears(n, k, b, a)
    /\ a.skip <= Progress(s)
    /\ p = "overflow" => a.skip = 0
    /\ a.body = SubSeq(b, Progress(s) - a.skip + 1, Len(b))

\* The body that a header announces.
SourceOf(n, hd) ==
    IF hd.status \in {"200", "206"} THEN RepFrom(n, hd.from)
    ELSE IF hd.status = "err" THEN Bytes("err", ErrLen) ELSE <<>>

\* What the header told the client, and the length handleForward expects.
FrameOf(n, b, p, k, s, c) ==
    /\ s.total \in {-1, Len(b)}
    /\ s.headerSent /\ k # "head" =>
         \/ SourceOf(n, c.heads[1]) = b
         \/ s.closeAfter /\ b = Bytes("rep", n)
    /\ s.closeAfter <=> p = "overflow"
    /\ s.headerSent /\ p # "overflow" =>
         /\ s.total >= 0
         /\ k # "head" => c.heads[1].clen = Len(b)

\* What is captured is what the client of an asset was sent.
CaptureOf(n, h, p, k, s, c) ==
    s.cacheKey =>
        /\ k = "asset"
        /\ p # "overflow"
        /\ s.headerSent => h = "rep" /\ s.header = Header("200", n, 0) /\ s.buf = c.body
        /\ ~s.headerSent => s.header = None /\ s.buf = <<>>

LiveOf(n, h, p, k, s, a, c) ==
    p \in Live =>
        \E b \in Wholes(n, h, k) :
            /\ ReceivedOf(b, s, c)
            /\ p \in Reading => RestOf(n, b, h, p, k, s, a)
            /\ FrameOf(n, b, p, k, s, c)
            /\ CaptureOf(n, h, p, k, s, c)

\* What SeamlessBody and KeepAliveFramed say of one connection.
ClientOf(n, k, s, c) ==
    c.heads # <<>> =>
        /\ \/ IsPrefixOf(c.body, SourceOf(n, c.heads[1]))
           \/ k = "range" /\ IsPrefixOf(c.body, RepFrom(n, RangeFrom))
           \/ s.closeAfter /\ IsPrefixOf(c.body, Bytes("rep", n))
        /\ ~s.closeAfter /\ k # "head" =>
             /\ Len(c.body) <= c.heads[1].clen
             /\ c.reuse => Len(c.body) = c.heads[1].clen

ConnOf(n, h, p, k, s, a, c, w) ==
    /\ ControlOf(p, k, s, c, w)
    /\ p \in Reading => a.status # "none"
    /\ StableOrigin => LiveOf(n, h, p, k, s, a, c) /\ ClientOf(n, k, s, c)

ConnInv ==
    \A r \in Reqs : ConnOf(length, origin, pc[r], kind[r], st[r], resp[r], client[r], wrote[r])

\* A stored prefix is one of the representation, a stored response is all of it.
PrefixOf(n, h, pa) ==
    /\ h = "rep"
    /\ pa.header = Header("200", n, 0)
    /\ Len(pa.body) <= n
    /\ pa.body = SubSeq(Bytes("rep", n), 1, Len(pa.body))
    /\ pa.total = n
    /\ ~pa.closeAfter
EntryOf(n, h, e) ==
    h = "rep" /\ e.header = Header("200", n, 0) /\ e.body = Bytes("rep", n)

CacheOf(n, h, e, pa) ==
    StableOrigin =>
        /\ e # None => EntryOf(n, h, e)
        /\ pa # None => PrefixOf(n, h, pa)

CacheTyped == cached \in Entries \cup {None} /\ partial \in Partials \cup {None}
CacheInv == CacheOf(length, origin, cached, partial)

\* The inductive invariant.
FInv == TypeOK /\ ConnInv /\ CacheInv

-----------------------------------------------------------------------------
(***************************************************************************)
(* Bodies, and the values of a connection.                                 *)
(***************************************************************************)
\* Bodies are closed under the sequence operators the model uses.
LEMMA BodyOps ==
  /\ <<>> \in Bodies /\ Len(<<>>) = 0
  /\ \A b \in Bodies : Len(b) \in Nat /\ (Len(b) = 0 <=> b = <<>>)
  /\ \A b, c \in Bodies : b \o c \in Bodies /\ Len(b \o c) = Len(b) + Len(c)
  /\ \A b \in Bodies : \A i \in Nat \ {0} : \A j \in 0 .. Len(b) :
       /\ SubSeq(b, i, j) \in Bodies
       /\ Len(SubSeq(b, i, j)) = IF i <= j THEN j - i + 1 ELSE 0
  /\ \A n \in Nat : \A x \in {"rep", "err"} : Bytes(x, n) \in Bodies /\ Len(Bytes(x, n)) = n
  <1>1. <<>> \in Bodies /\ Len(<<>>) = 0
    BY EmptySeq DEF Bodies
  <1>2. \A b \in Bodies : Len(b) \in Nat /\ (Len(b) = 0 <=> b = <<>>)
    BY EmptySeq DEF Bodies
  <1>3. \A b, c \in Bodies : b \o c \in Bodies /\ Len(b \o c) = Len(b) + Len(c)
    BY ConcatProperties DEF Bodies
  <1>4. ASSUME NEW b \in Bodies, NEW i \in Nat \ {0}, NEW j \in 0 .. Len(b)
        PROVE  /\ SubSeq(b, i, j) \in Bodies
               /\ Len(SubSeq(b, i, j)) = IF i <= j THEN j - i + 1 ELSE 0
    <2>1. \A x \in i .. j : b[x] \in {"rep", "err"} \X Nat
      BY <1>2, ElementOfSeq DEF Bodies
    <2> QED
      BY <2>1, SubSeqProperties DEF Bodies
  <1>5. ASSUME NEW n \in Nat, NEW x \in {"rep", "err"}
        PROVE  Bytes(x, n) \in Bodies /\ Len(Bytes(x, n)) = n
    <2>1. Bytes(x, n) \in [1 .. n -> {"rep", "err"} \X Nat]
      BY DEF Bytes
    <2>2. Bytes(x, n) \in Bodies
      BY <2>1, SeqDef DEF Bodies
    <2>3. DOMAIN Bytes(x, n) = 1 .. n /\ DOMAIN Bytes(x, n) = 1 .. Len(Bytes(x, n))
      BY <2>2, LenProperties DEF Bodies, Bytes
    <2> QED
      BY <1>2, <2>2, <2>3
  <1> QED
    BY <1>1, <1>2, <1>3, <1>4, <1>5
\* A part of a suffix is a part of the sequence.
LEMMA PartOfSuffix ==
  ASSUME NEW S, NEW s \in Seq(S), NEW a \in 1 .. Len(s) + 1,
         NEW i \in Nat \ {0}, NEW j \in 0 .. Len(s) - a + 1
  PROVE  SubSeq(SubSeq(s, a, Len(s)), i, j) = SubSeq(s, a + i - 1, a + j - 1)
  <1>1. Len(s) \in Nat
    BY LenProperties
  <1>2. CASE j < i
    <2>1. a + j - 1 < a + i - 1
      BY <1>1, <1>2
    <2> QED
      BY <1>1, <1>2, <2>1, SubSeqEmpty
  <1>3. CASE i <= j
    <2>1. a \in 1 .. Len(s) /\ i \in 1 .. Len(s) - a + 1 /\ j \in 1 .. Len(s) - a + 1
      BY <1>1, <1>3
    <2>2. Len(s) \in 1 .. Len(s)
      BY <1>1, <2>1
    <2> QED
      BY <2>1, <2>2, SubSeqOfSubSeq
  <1> QED
    BY <1>1, <1>2, <1>3

\* The initial values of a connection have their types.
LEMMA Constants ==
  /\ NoResp \in Responses /\ Silent \in Clients
  /\ \A k \in Kinds : Fresh(k) \in ForwardStates
  <1>1. NoResp \in Responses
    BY BodyOps DEF NoResp, Responses, Statuses
  <1>2. Silent \in Clients
    BY BodyOps DEF Silent, Clients
  <1>3. ASSUME NEW k \in Kinds PROVE Fresh(k) \in ForwardStates
    BY BodyOps DEF Fresh, ForwardStates
  <1> QED
    BY <1>1, <1>2, <1>3

\* Heads of a client that has none, or one.
LEMMA Heads ==
  ASSUME NEW q \in Seq(Headers), NEW hd \in Headers
  PROVE  /\ Append(q, hd) \in Seq(Headers)
         /\ q = <<>> => /\ Len(Append(q, hd)) = 1 /\ Append(q, hd)[1] = hd
                        /\ Append(q, hd) # <<>> /\ Append(q, hd) = <<hd>>
         /\ Len(q) \in Nat /\ (Len(q) = 0 <=> q = <<>>)
  <1>1. Append(q, hd) \in Seq(Headers) /\ Len(q) \in Nat /\ (Len(q) = 0 <=> q = <<>>)
    BY EmptySeq, AppendProperties
  <1>2. /\ Append(<<>>, hd) = <<hd>> /\ <<hd>> # <<>>
        /\ Len(<<hd>>) = 1 /\ <<hd>>[1] = hd
    OBVIOUS
  <1> QED
    BY <1>1, <1>2

\* A prefix of a body, and the whole of it.
LEMMA Prefixes ==
  ASSUME NEW b \in Bodies, NEW m \in 0 .. Len(b)
  PROVE  /\ SubSeq(b, 1, m) \in Bodies
         /\ Len(SubSeq(b, 1, m)) = m
         /\ IsPrefixOf(SubSeq(b, 1, m), b)
         /\ SubSeq(b, 1, Len(b)) = b
         /\ SubSeq(b, 1, 0) = <<>>
  <1>1. Len(b) \in Nat /\ 1 \in Nat \ {0}
    BY BodyOps
  <1>2. SubSeq(b, 1, m) \in Bodies /\ Len(SubSeq(b, 1, m)) = m
    BY <1>1, BodyOps
  <1>3. SubSeq(b, 1, Len(b)) = b
    BY SubSeqFull DEF Bodies
  <1>4. SubSeq(b, 1, 0) = <<>>
    BY <1>1, SubSeqEmpty
  <1> QED
    BY <1>1, <1>2, <1>3, <1>4 DEF IsPrefixOf

\* The representation from an offset on, and the body of a header.
LEMMA Sources ==
  ASSUME NEW n \in Nat
  PROVE  /\ RepFrom(n, 0) = Bytes("rep", n)
         /\ \A i \in Nat : /\ RepFrom(n, i) \in Bodies
                           /\ Len(RepFrom(n, i)) = IF i < n THEN n - i ELSE 0
         /\ \A hd \in Headers : SourceOf(n, hd) \in Bodies
  <1>1. /\ Bytes("rep", n) \in Bodies /\ Len(Bytes("rep", n)) = n /\ <<>> \in Bodies
        /\ Bytes("err", ErrLen) \in Bodies
    BY BodyOps, ForwardAssumption
  <1>2. RepFrom(n, 0) = Bytes("rep", n)
    <2>1. 0 + 1 = 1 /\ n \in 0 .. n
      OBVIOUS
    <2> QED
      BY <1>1, <2>1, Prefixes DEF RepFrom
  <1>3. ASSUME NEW i \in Nat
        PROVE  RepFrom(n, i) \in Bodies /\ Len(RepFrom(n, i)) = IF i < n THEN n - i ELSE 0
    <2>1. i + 1 \in Nat \ {0} /\ n \in 0 .. Len(Bytes("rep", n))
      BY <1>1
    <2>2. /\ RepFrom(n, i) \in Bodies
          /\ Len(RepFrom(n, i)) = IF i + 1 <= n THEN n - (i + 1) + 1 ELSE 0
      BY <1>1, <2>1, BodyOps DEF RepFrom
    <2> QED
      BY <2>2
  <1>4. ASSUME NEW hd \in Headers PROVE SourceOf(n, hd) \in Bodies
    <2>1. hd.from \in Nat
      BY DEF Headers
    <2> QED
      BY <1>1, <1>3, <2>1 DEF SourceOf
  <1> QED
    BY <1>2, <1>3, <1>4

\* Whole bodies are bodies; without a range there is one.
LEMMA WholeFacts ==
  ASSUME NEW n \in Nat, NEW h \in Origins, NEW k, NEW b \in Wholes(n, h, k)
  PROVE  /\ b \in Bodies /\ Len(b) \in Nat
         /\ k = "head" => b = <<>> /\ Len(b) = 0
         /\ k \notin {"head", "range"} =>
              b = IF h = "rep" THEN Bytes("rep", n)
                  ELSE IF h = "err" THEN Bytes("err", ErrLen) ELSE <<>>
  <1>1. /\ Bytes("rep", n) \in Bodies /\ Bytes("err", ErrLen) \in Bodies /\ <<>> \in Bodies
        /\ Len(<<>>) = 0
    BY BodyOps, ForwardAssumption
  <1>2. RepFrom(n, RangeFrom) \in Bodies
    BY Sources, ForwardAssumption
  <1>3. CASE k = "head"
    BY <1>1, <1>3, BodyOps DEF Wholes
  <1>4. CASE k = "range"
    BY <1>1, <1>2, <1>4, BodyOps DEF Wholes
  <1>5. CASE k \notin {"head", "range"}
    BY <1>1, <1>5, BodyOps DEF Wholes
  <1> QED
    BY <1>3, <1>4, <1>5

\* The empty body begins every body.
LEMMA EmptyPrefix ==
  ASSUME NEW b \in Bodies
  PROVE  IsPrefixOf(<<>>, b)
  <1>1. Len(b) \in Nat /\ Len(<<>>) = 0
    BY BodyOps
  <1> QED
    BY <1>1, Prefixes DEF IsPrefixOf

\* The length of what is left from position i on.
LEMMA SuffixLen ==
  ASSUME NEW b \in Bodies, NEW i \in Nat \ {0}
  PROVE  Len(SubSeq(b, i, Len(b))) = IF i <= Len(b) THEN Len(b) - i + 1 ELSE 0
  <1>1. Len(b) \in Nat
    BY BodyOps
  <1>2. Len(b) \in 0 .. Len(b)
    BY <1>1
  <1> QED
    BY <1>2, BodyOps

\* Positions in a body are natural numbers.
LEMMA ProgressNat ==
  ASSUME NEW s \in ForwardStates
  PROVE  Progress(s) \in Nat /\ Offset(s) \in Nat
  <1>1. s.relayed \in Nat /\ s.pending \in Bodies
    BY DEF ForwardStates
  <1>2. Len(s.pending) \in Nat
    BY <1>1, BodyOps
  <1> QED
    BY <1>1, <1>2 DEF Progress, Offset

\* A retried attempt keeps what was received; only the response is gone.
LEMMA Retries ==
  ASSUME NEW n, NEW h, NEW p \in {"attempt", "relay", "buffer"}, NEW k, NEW s, NEW a, NEW c,
         NEW w, NEW w2, ConnOf(n, h, p, k, s, a, c, w), k \notin Once
  PROVE  ConnOf(n, h, "attempt", k, s, NoResp, c, w2)
  BY DEF ConnOf, ControlOf, LiveOf, FrameOf, CaptureOf, Live, Reading, Once

\* A request may end anywhere: what its client holds stays a prefix.
LEMMA Ends ==
  ASSUME NEW n, NEW h, NEW p, NEW k, NEW s, NEW a, NEW c, NEW a2,
         NEW w, NEW w2, ConnOf(n, h, p, k, s, a, c, w), k \in Once => w2 <= 1
  PROVE  ConnOf(n, h, "ended", k, s, a2, c, w2)
  BY DEF ConnOf, ControlOf, LiveOf, Live, Reading

\* The 502 of a client that has no header yet.
Told(s, c) ==
    [c EXCEPT !.heads = IF s.headerSent THEN c.heads ELSE Append(c.heads, Bad502)]

\* The 502 is the only header, with the empty body it announces.
LEMMA Ends502 ==
  ASSUME NEW n \in Nat, NEW h, NEW p \in Live, NEW k, NEW s \in ForwardStates, NEW a,
         NEW c \in Clients, NEW w, NEW w2,
         ConnOf(n, h, p, k, s, a, c, w), k \in Once => w2 <= 1
  PROVE  /\ Told(s, c) \in Clients
         /\ ConnOf(n, h, "ended", k, s, NoResp, Told(s, c), w2)
  <1>0. Bad502 \in Headers /\ Bad502.status = "502" /\ Bad502.clen = 0
    BY DEF Bad502, Header, Headers, Statuses
  <1>1. CASE s.headerSent
    <2>1. Told(s, c) = c
      BY <1>1, Zenon DEF Told, Clients
    <2> QED
      BY <2>1, Ends
  <1>2. CASE ~s.headerSent
    <2> DEFINE d == Told(s, c)
    <2>1. c.heads = <<>> /\ c.body = <<>> /\ ~c.reuse
      BY <1>2 DEF ConnOf, ControlOf
    <2>2. d = [heads |-> <<Bad502>>, body |-> <<>>, reuse |-> c.reuse]
      BY <1>0, <1>2, <2>1, Heads DEF Clients, Told
    <2>3. /\ d \in Clients /\ d.heads = <<Bad502>>
          /\ d.body = <<>> /\ d.reuse = c.reuse
      BY <1>0, <2>1, <2>2, BodyOps DEF Clients
    <2>4. Len(d.heads) = 1 /\ d.heads[1] = Bad502
      BY <1>0, <2>3
    <2>5. ControlOf("ended", k, s, d, w2)
      BY <2>4 DEF ControlOf, Live
    <2>6. IsPrefixOf(d.body, SourceOf(n, Bad502))
      <3>1. SourceOf(n, Bad502) = <<>>
        BY <1>0 DEF SourceOf
      <3> QED
        BY <2>3, <3>1, BodyOps, Prefixes DEF IsPrefixOf
    <2>7. ClientOf(n, k, s, d)
      BY <1>0, <2>3, <2>4, <2>6, BodyOps DEF ClientOf
    <2> QED
      BY <2>3, <2>5, <2>7 DEF ConnOf, LiveOf, Live, Reading
  <1> QED
    BY <1>1, <1>2

-----------------------------------------------------------------------------
(***************************************************************************)
(* Steps of one connection, and how an attempt fails.                      *)
(***************************************************************************)
\* One connection moves, the others stand still.
LEMMA LocalStep ==
  ASSUME FInv, NEW r \in Reqs, NEW p \in Places, NEW k \in Kinds,
         NEW s \in ForwardStates, NEW a \in Responses, NEW c \in Clients, NEW w \in 0 .. 2,
         pc' = [pc EXCEPT ![r] = p], kind' = [kind EXCEPT ![r] = k],
         st' = [st EXCEPT ![r] = s], resp' = [resp EXCEPT ![r] = a],
         client' = [client EXCEPT ![r] = c], wrote' = [wrote EXCEPT ![r] = w],
         UNCHANGED <<length, origin>>,
         attempt' \in [Reqs -> 0 .. MaxAttempts - 1],
         zero' \in [Reqs -> 0 .. ResumeAttempts - 1],
         before' \in [Reqs -> Nat],
         CacheTyped', CacheInv',
         ConnOf(length, origin, p, k, s, a, c, w)
  PROVE  FInv'
  <1>1. /\ pc \in [Reqs -> Places] /\ kind \in [Reqs -> Kinds]
        /\ st \in [Reqs -> ForwardStates] /\ resp \in [Reqs -> Responses]
        /\ client \in [Reqs -> Clients] /\ wrote \in [Reqs -> 0 .. 2]
    BY DEF FInv, TypeOK, Places, Responses, Clients
  <1>2. TypeOK'
    <2>1. /\ pc' \in [Reqs -> Places] /\ kind' \in [Reqs -> Kinds]
          /\ st' \in [Reqs -> ForwardStates] /\ resp' \in [Reqs -> Responses]
          /\ client' \in [Reqs -> Clients] /\ wrote' \in [Reqs -> 0 .. 2]
      BY <1>1, Zenon
    <2> QED
      BY <2>1 DEF FInv, TypeOK, CacheTyped, Partials, Entries, Places, Responses, Clients
  <1>3. ConnInv'
    <2>1. SUFFICES ASSUME NEW q \in Reqs
                   PROVE  ConnOf(length, origin, pc'[q], kind'[q], st'[q], resp'[q],
                                 client'[q], wrote'[q])
      BY <2>1, Zenon DEF ConnInv
    <2>2. CASE q = r
      BY <1>1, <2>2, Zenon
    <2>3. CASE q # r
      BY <1>1, <2>3, Zenon DEF FInv, ConnInv
    <2> QED
      BY <2>2, <2>3
  <1> QED
    BY <1>2, <1>3 DEF FInv

\* What an interrupted attempt has captured is a prefix of the representation.
LEMMA PrefixSaved ==
  ASSUME StableOrigin, NEW n \in Nat, NEW h \in Origins, NEW p \in Live, NEW k,
         NEW s \in ForwardStates, NEW a, NEW c \in Clients, NEW w,
         ConnOf(n, h, p, k, s, a, c, w), s.cacheKey, s.buf # <<>>
  PROVE  PrefixOf(n, h, [header |-> s.header, body |-> s.buf, total |-> s.total,
                         closeAfter |-> s.closeAfter])
  <1>2. PICK b \in Wholes(n, h, k) :
          ReceivedOf(b, s, c) /\ FrameOf(n, b, p, k, s, c) /\ CaptureOf(n, h, p, k, s, c)
    BY DEF ConnOf, LiveOf
  <1>3. /\ k = "asset" /\ p # "overflow" /\ s.headerSent
        /\ h = "rep" /\ s.header = Header("200", n, 0) /\ s.buf = c.body
    BY <1>2 DEF CaptureOf, ForwardStates
  <1>4. b = Bytes("rep", n) /\ b \in Bodies /\ Len(b) = n
    <2>1. b = Bytes("rep", n)
      BY <1>3, WholeFacts
    <2> QED
      BY <2>1, BodyOps
  <1>5. s.total = n /\ ~s.closeAfter
    BY <1>2, <1>3, <1>4 DEF FrameOf, ForwardStates
  <1>6. /\ Progress(s) <= Len(b) /\ c.body = SubSeq(b, 1, Progress(s))
        /\ Progress(s) \in Nat
    BY <1>2, <1>3, ProgressNat DEF ReceivedOf, Received
  <1>7. Len(s.buf) = Progress(s)
    BY <1>3, <1>4, <1>6, Prefixes
  <1>8. /\ Len(s.buf) <= n /\ s.buf = SubSeq(Bytes("rep", n), 1, Len(s.buf))
    BY <1>3, <1>4, <1>6, <1>7
  <1> QED
    BY <1>3, <1>5, <1>8 DEF PrefixOf

\* What an interrupted attempt leaves behind for the next request.
LEMMA SavesPrefix ==
  ASSUME FInv, NEW r \in Reqs, pc[r] \in Live, SavePartial(st[r]),
         UNCHANGED <<length, origin>>
  PROVE  CacheTyped' /\ CacheInv'
  <1> DEFINE s == st[r]
             pa == [header |-> s.header, body |-> s.buf, total |-> s.total,
                    closeAfter |-> s.closeAfter]
  <1>0. /\ length \in Nat /\ origin \in Origins /\ s \in ForwardStates /\ client[r] \in Clients
        /\ ConnOf(length, origin, pc[r], kind[r], s, resp[r], client[r], wrote[r])
    BY DEF FInv, ConnInv, TypeOK, Clients
  <1>1. CacheTyped /\ CacheInv
    BY DEF FInv, TypeOK, CacheTyped, Entries, Partials
  <1>2. CASE ~(s.cacheKey /\ s.header # None /\ s.buf # <<>>)
    <2>1. UNCHANGED <<cached, partial>>
      BY <1>2 DEF SavePartial
    <2> QED
      BY <1>1, <2>1 DEF CacheTyped, CacheInv
  <1>3. CASE s.cacheKey /\ s.header # None /\ s.buf # <<>>
    <2>1. UNCHANGED cached /\ partial' \in {partial, pa}
      BY <1>3 DEF SavePartial, PutPartial
    <2>2. pa \in Partials
      BY <1>0, <1>3 DEF ForwardStates, Partials
    <2>3. ASSUME StableOrigin PROVE PrefixOf(length, origin, pa)
      BY <1>0, <1>3, <2>3, PrefixSaved
    <2>4. CacheTyped'
      BY <1>1, <2>1, <2>2 DEF CacheTyped
    <2>5. CacheInv'
      BY <1>1, <2>1, <2>3 DEF CacheInv, CacheOf
    <2> QED
      BY <2>4, <2>5
  <1> QED
    BY <1>2, <1>3

\* Nothing happens to the cache.
LEMMA CacheKept ==
  ASSUME FInv, UNCHANGED <<length, origin, cached, partial>>
  PROVE  CacheTyped' /\ CacheInv'
  <1>1. CacheTyped /\ CacheInv
    BY DEF FInv, TypeOK, CacheTyped, Entries, Partials
  <1> QED
    BY <1>1 DEF CacheTyped, CacheInv

\* The values of one connection, and what the invariant says of them.
LEMMA Values ==
  ASSUME FInv, NEW r \in Reqs
  PROVE  /\ length \in Nat /\ origin \in Origins
         /\ pc[r] \in Places /\ kind[r] \in Kinds
         /\ st[r] \in ForwardStates /\ resp[r] \in Responses /\ client[r] \in Clients
         /\ wrote[r] \in 0 .. 2
         /\ ConnOf(length, origin, pc[r], kind[r], st[r], resp[r], client[r], wrote[r])
  BY DEF FInv, ConnInv, TypeOK, Clients, Responses, Places

\* Nothing changes by assigning a connection its own values.
LEMMA Unmoved ==
  ASSUME FInv, NEW r \in Reqs
  PROVE  /\ pc = [pc EXCEPT ![r] = pc[r]] /\ kind = [kind EXCEPT ![r] = kind[r]]
         /\ st = [st EXCEPT ![r] = st[r]] /\ resp = [resp EXCEPT ![r] = resp[r]]
         /\ client = [client EXCEPT ![r] = client[r]]
         /\ wrote = [wrote EXCEPT ![r] = wrote[r]]
         /\ attempt \in [Reqs -> 0 .. MaxAttempts - 1]
         /\ zero \in [Reqs -> 0 .. ResumeAttempts - 1]
         /\ before \in [Reqs -> Nat]
  BY DEF FInv, TypeOK

\* GiveUp and Abort.
LEMMA Stops ==
  ASSUME FInv, NEW r \in Reqs, pc[r] \in Live, NEW w \in 0 .. 2,
         wrote' = [wrote EXCEPT ![r] = w], kind[r] \in Once => w <= 1,
         client' = client \/ Answer502(r),
         Goto(r, "ended"), SavePartial(st[r]), resp' = [resp EXCEPT ![r] = NoResp],
         UNCHANGED <<st, loop, length, origin, kind>>
  PROVE  FInv'
  <1>1. CacheTyped' /\ CacheInv'
    BY SavesPrefix
  <1>2. PICK c \in {client[r], Told(st[r], client[r])} : client' = [client EXCEPT ![r] = c]
    BY Unmoved DEF Answer502, Told
  <1>3. c \in Clients /\ ConnOf(length, origin, "ended", kind[r], st[r], NoResp, c, w)
    BY <1>2, Values, Ends, Ends502
  <1>4. "ended" \in Places
    BY DEF Places
  <1>5. /\ pc' = [pc EXCEPT ![r] = "ended"] /\ kind' = [kind EXCEPT ![r] = kind[r]]
        /\ st' = [st EXCEPT ![r] = st[r]]
        /\ attempt' \in [Reqs -> 0 .. MaxAttempts - 1]
        /\ zero' \in [Reqs -> 0 .. ResumeAttempts - 1]
        /\ before' \in [Reqs -> Nat]
    BY Unmoved DEF Goto, loop
  <1>6. kind[r] \in Kinds /\ st[r] \in ForwardStates /\ NoResp \in Responses
    BY Values, Constants
  <1> QED
    BY <1>1, <1>2, <1>3, <1>4, <1>5, <1>6, LocalStep

\* Retry, after whatever failed.
LEMMA Retried ==
  ASSUME FInv, NEW r \in Reqs, pc[r] \in {"attempt", "relay", "buffer"}, NEW w \in 0 .. 2,
         wrote' = [wrote EXCEPT ![r] = w], kind[r] \in Once => w <= 1,
         Retry(r), UNCHANGED <<length, origin, kind>>
  PROVE  FInv'
  <1>1. CASE GiveUp(r)
    <2>1. pc[r] \in Live
      BY DEF Live
    <2> QED
      BY <1>1, <2>1, Stops DEF GiveUp
  <1>2. CASE TryAgain(r)
    <2>1. CacheTyped' /\ CacheInv'
      BY <1>2, CacheKept DEF TryAgain, store
    <2>2. ConnOf(length, origin, "attempt", kind[r], st[r], NoResp, client[r], w)
      BY <1>2, Values, Retries DEF TryAgain, Again, CanRetry, Once
    <2>3. Progress(st[r]) \in Nat
      BY Values, ProgressNat
    <2>4. /\ attempt' \in [Reqs -> 0 .. MaxAttempts - 1]
          /\ zero' \in [Reqs -> 0 .. ResumeAttempts - 1]
          /\ before' \in [Reqs -> Nat]
      BY <1>2, <2>3, Unmoved, ForwardAssumption DEF TryAgain, Again, ZeroProgress
    <2>5. "attempt" \in Places
      BY DEF Places
    <2>6. /\ pc' = [pc EXCEPT ![r] = "attempt"] /\ kind' = [kind EXCEPT ![r] = kind[r]]
          /\ st' = [st EXCEPT ![r] = st[r]] /\ resp' = [resp EXCEPT ![r] = NoResp]
          /\ client' = [client EXCEPT ![r] = client[r]]
      BY <1>2, Unmoved DEF TryAgain, Goto
    <2>7. /\ kind[r] \in Kinds /\ st[r] \in ForwardStates /\ NoResp \in Responses
          /\ client[r] \in Clients
      BY Values, Constants
    <2> QED
      BY <2>1, <2>2, <2>4, <2>5, <2>6, <2>7, LocalStep
  <1> QED
    BY <1>1, <1>2 DEF Retry

\* Abort, with or without a 502 before it.
LEMMA Aborted ==
  ASSUME FInv, NEW r \in Reqs, pc[r] \in Live, NEW w \in 0 .. 2,
         wrote' = [wrote EXCEPT ![r] = w], kind[r] \in Once => w <= 1,
         client' = client \/ Answer502(r), Abort(r), UNCHANGED <<length, origin, kind>>
  PROVE  FInv'
  BY Stops DEF Abort

\* OnceMore sends a post that waits for its first attempt once.
LEMMA Written ==
  ASSUME FInv, NEW r \in Reqs
  PROVE  /\ pc[r] \in Live => (kind[r] \in Once => wrote[r] <= 1)
         /\ pc[r] = "attempt" => /\ OnceMore(wrote[r]) \in 0 .. 2
                                 /\ kind[r] \in Once => OnceMore(wrote[r]) <= 1
  BY Values DEF ConnOf, ControlOf, OnceMore

\* The failures of handleForward: dial, no answer, stall, read error.
LEMMA FailureSteps ==
  ASSUME FInv, NEW r \in Reqs, DialFails(r) \/ NoAnswer(r) \/ Stall(r) \/ Fails(r)
  PROVE  FInv'
  <1>1. CASE DialFails(r)
    <2>1. pc[r] = "attempt" /\ pc[r] \in Live /\ UNCHANGED <<length, origin, kind, wrote>>
      BY <1>1 DEF DialFails, Live
    <2>2. wrote' = [wrote EXCEPT ![r] = wrote[r]]
      BY <2>1, Unmoved
    <2>3. Retry(r) \/ (Answer502(r) /\ Abort(r))
      BY <1>1 DEF DialFails
    <2> QED
      BY <2>1, <2>2, <2>3, Written, Values, Retried, Aborted
  <1>2. CASE NoAnswer(r)
    <2>1. /\ pc[r] = "attempt" /\ Retry(r) /\ UNCHANGED <<length, origin, kind>>
          /\ wrote' = [wrote EXCEPT ![r] = OnceMore(wrote[r])]
      BY <1>2 DEF NoAnswer
    <2> QED
      BY <2>1, Written, Values, Retried
  <1>3. CASE Stall(r)
    <2>1. /\ pc[r] \in {"relay", "buffer"} /\ pc[r] \in Live /\ Retry(r)
          /\ UNCHANGED <<length, origin, kind, wrote>>
      BY <1>3 DEF Stall, Live
    <2>2. wrote' = [wrote EXCEPT ![r] = wrote[r]]
      BY <2>1, Unmoved
    <2> QED
      BY <2>1, <2>2, Written, Values, Retried
  <1>4. CASE Fails(r)
    <2>1. /\ pc[r] \in Live /\ Abort(r)
          /\ UNCHANGED <<length, origin, kind, client, wrote>>
      BY <1>4 DEF Fails, Live
    <2>2. wrote' = [wrote EXCEPT ![r] = wrote[r]]
      BY <2>1, Unmoved
    <2> QED
      BY <2>1, <2>2, Written, Values, Aborted
  <1> QED
    BY <1>1, <1>2, <1>3, <1>4

-----------------------------------------------------------------------------
(***************************************************************************)
(* Requests arrive, and prefixes are replayed.                             *)
(***************************************************************************)
\* A request enters the loop, or is answered from the cache.
LEMMA Begins ==
  ASSUME FInv, NEW r \in Reqs, NEW p \in Places, NEW k \in Kinds, NEW s \in ForwardStates,
         NEW c \in Clients, NEW w \in 0 .. 2, Begin(r, s, c, p),
         kind' = [kind EXCEPT ![r] = k], wrote' = [wrote EXCEPT ![r] = w],
         UNCHANGED <<length, origin, store, resp>>,
         ConnOf(length, origin, p, k, s, resp[r], c, w)
  PROVE  FInv'
  <1>1. CacheTyped' /\ CacheInv'
    BY CacheKept DEF store
  <1>2. /\ attempt' \in [Reqs -> 0 .. MaxAttempts - 1]
        /\ zero' \in [Reqs -> 0 .. ResumeAttempts - 1]
        /\ before' \in [Reqs -> Nat]
    BY Unmoved, ProgressNat, ForwardAssumption DEF Begin
  <1>3. /\ pc' = [pc EXCEPT ![r] = p] /\ st' = [st EXCEPT ![r] = s]
        /\ client' = [client EXCEPT ![r] = c] /\ resp' = [resp EXCEPT ![r] = resp[r]]
        /\ resp[r] \in Responses
    BY Unmoved, Values DEF Begin, Goto
  <1> QED
    BY <1>1, <1>2, <1>3, LocalStep

\* A request that has reached the loop with nothing received.
LEMMA StartsFresh ==
  ASSUME NEW n \in Nat, NEW h \in Origins, NEW k \in Kinds, NEW a, NEW w,
         k \in Once => w = 0
  PROVE  ConnOf(n, h, "attempt", k, Fresh(k), a, Silent, w)
  <1>1. PICK b : b \in Wholes(n, h, k)
    BY DEF Wholes
  <1>2. PICK s : s = Fresh(k)
    OBVIOUS
  <1>3. /\ s.headerSent = FALSE /\ s.relayed = 0 /\ s.total = -1 /\ s.closeAfter = FALSE
        /\ s.pending = <<>> /\ s.cacheKey = (k = "asset") /\ s.header = None /\ s.buf = <<>>
    BY <1>2 DEF Fresh
  <1>4. Silent.heads = <<>> /\ Silent.body = <<>> /\ Silent.reuse = FALSE /\ Len(<<>>) = 0
    BY BodyOps DEF Silent
  <1>5. b \in Bodies /\ Len(b) \in Nat
    BY <1>1, WholeFacts
  <1>6. ControlOf("attempt", k, s, Silent, w)
    BY <1>3, <1>4 DEF ControlOf
  <1>7. Progress(s) = 0
    BY <1>3, <1>4 DEF Progress
  <1>8. ReceivedOf(b, s, Silent)
    BY <1>3, <1>5, <1>7, Prefixes DEF ReceivedOf, Received
  <1>9. FrameOf(n, b, "attempt", k, s, Silent)
    BY <1>3 DEF FrameOf
  <1>10. CaptureOf(n, h, "attempt", k, s, Silent)
    BY <1>3 DEF CaptureOf
  <1>11. LiveOf(n, h, "attempt", k, s, a, Silent)
    BY <1>1, <1>8, <1>9, <1>10 DEF LiveOf, Reading
  <1>12. ClientOf(n, k, s, Silent)
    BY <1>4 DEF ClientOf
  <1> QED
    BY <1>2, <1>6, <1>11, <1>12 DEF ConnOf, Reading

\* The replay of a complete response.
LEMMA Replayed ==
  ASSUME NEW n \in Nat, NEW h, NEW s \in ForwardStates, NEW a, NEW e \in Entries,
         StableOrigin => EntryOf(n, h, e)
  PROVE  LET c == [heads |-> <<e.header>>, body |-> e.body, reuse |-> TRUE]
         IN  c \in Clients /\ ConnOf(n, h, "ended", "asset", s, a, c, 0)
  <1>1. PICK c : c = [heads |-> <<e.header>>, body |-> e.body, reuse |-> TRUE]
    OBVIOUS
  <1>2. e.header \in Headers /\ e.body \in Bodies
    BY DEF Entries
  <1>3. c \in Clients /\ Len(c.heads) = 1 /\ c.heads[1] = e.header /\ c.body = e.body
    <2>1. <<e.header>> \in Seq(Headers) /\ Len(<<e.header>>) = 1 /\ <<e.header>>[1] = e.header
      BY <1>2
    <2> QED
      BY <1>1, <1>2, <2>1 DEF Clients
  <1>4. ControlOf("ended", "asset", s, c, 0)
    BY <1>3 DEF ControlOf, Live
  <1>5. ASSUME StableOrigin PROVE ClientOf(n, "asset", s, c)
    <2>1. /\ e.header.status = "200" /\ e.header.clen = n /\ e.header.from = 0
          /\ e.body = Bytes("rep", n)
      BY <1>5 DEF EntryOf, Header
    <2>2. Len(e.body) = n /\ IsPrefixOf(e.body, Bytes("rep", n))
      BY <1>2, <2>1, BodyOps, Prefixes DEF IsPrefixOf
    <2>3. SourceOf(n, e.header) = Bytes("rep", n)
      BY <2>1, Sources DEF SourceOf
    <2> QED
      BY <1>3, <2>1, <2>2, <2>3 DEF ClientOf
  <1> QED
    BY <1>1, <1>3, <1>4, <1>5 DEF ConnOf, LiveOf, Live, Reading

\* The state and the client's view after the replay of a prefix.
Resumed(pa) ==
    [Fresh("asset") EXCEPT !.headerSent = TRUE, !.header = pa.header, !.buf = pa.body,
                           !.relayed = Len(pa.body), !.total = pa.total,
                           !.closeAfter = pa.closeAfter]

\* An asset continues after the prefix of an interrupted transfer.
LEMMA PrefixReplayed ==
  ASSUME NEW n \in Nat, NEW h \in Origins, NEW a, NEW pa \in Partials, NEW w,
         StableOrigin => PrefixOf(n, h, pa)
  PROVE  LET c == [heads |-> <<pa.header>>, body |-> pa.body, reuse |-> FALSE]
         IN  /\ c \in Clients /\ Resumed(pa) \in ForwardStates
             /\ ConnOf(n, h, "attempt", "asset", Resumed(pa), a, c, w)
  <1>1. PICK c : c = [heads |-> <<pa.header>>, body |-> pa.body, reuse |-> FALSE]
    OBVIOUS
  <1>2. /\ pa.header \in Headers /\ pa.body \in Bodies /\ pa.closeAfter \in BOOLEAN
        /\ pa.total \in Nat \cup {-1}
    BY DEF Partials
  <1>3. /\ c \in Clients /\ Len(c.heads) = 1 /\ c.heads[1] = pa.header /\ c.body = pa.body
        /\ c.reuse = FALSE
    <2>1. <<pa.header>> \in Seq(Headers) /\ Len(<<pa.header>>) = 1 /\ <<pa.header>>[1] = pa.header
      BY <1>2
    <2> QED
      BY <1>1, <1>2, <2>1 DEF Clients
  <1>4. PICK s : s = Resumed(pa)
    OBVIOUS
  <1>5. s = [headerSent |-> TRUE, relayed |-> Len(pa.body), total |-> pa.total,
             closeAfter |-> pa.closeAfter, pending |-> <<>>, cacheKey |-> TRUE,
             header |-> pa.header, buf |-> pa.body]
    BY <1>4 DEF Resumed, Fresh
  <1>6. Len(pa.body) \in Nat /\ <<>> \in Bodies /\ Len(<<>>) = 0
    BY <1>2, BodyOps
  <1>7. s \in ForwardStates
    BY <1>2, <1>5, <1>6 DEF ForwardStates
  <1>8. ControlOf("attempt", "asset", s, c, w)
    BY <1>3, <1>5 DEF ControlOf, Once
  <1>9. ASSUME StableOrigin
        PROVE  LiveOf(n, h, "attempt", "asset", s, a, c) /\ ClientOf(n, "asset", s, c)
    <2>1. PICK b : b = Bytes("rep", n)
      OBVIOUS
    <2>2. /\ h = "rep" /\ pa.header.status = "200" /\ pa.header.clen = n
          /\ pa.header.from = 0 /\ pa.header = Header("200", n, 0)
          /\ Len(pa.body) <= n /\ pa.body = SubSeq(Bytes("rep", n), 1, Len(pa.body))
          /\ pa.total = n /\ ~pa.closeAfter
      BY <1>9 DEF PrefixOf, Header
    <2>3. /\ b \in Bodies /\ Len(b) = n /\ SourceOf(n, pa.header) = b
          /\ b \in Wholes(n, h, "asset")
      BY <2>1, <2>2, BodyOps, Sources DEF Wholes, SourceOf
    <2>4. Progress(s) = Len(pa.body)
      BY <1>5, <1>6 DEF Progress
    <2>5. ReceivedOf(b, s, c)
      BY <1>3, <1>5, <2>1, <2>2, <2>3, <2>4 DEF ReceivedOf, Received
    <2>6. FrameOf(n, b, "attempt", "asset", s, c)
      BY <1>3, <1>5, <2>2, <2>3 DEF FrameOf
    <2>7. CaptureOf(n, h, "attempt", "asset", s, c)
      BY <1>3, <1>5, <2>2 DEF CaptureOf
    <2>8. LiveOf(n, h, "attempt", "asset", s, a, c)
      BY <2>3, <2>5, <2>6, <2>7 DEF LiveOf, Reading
    <2>9. ClientOf(n, "asset", s, c)
      BY <1>3, <2>1, <2>2, <2>3 DEF ClientOf, IsPrefixOf
    <2> QED
      BY <2>8, <2>9
  <1> QED
    BY <1>1, <1>3, <1>4, <1>7, <1>8, <1>9 DEF ConnOf, Reading

\* A request arrives.
LEMMA RequestStep ==
  ASSUME FInv, NEW r \in Reqs, NEW k \in Kinds, Request(r, k)
  PROVE  FInv'
  <1>1. /\ kind' = [kind EXCEPT ![r] = k] /\ wrote' = [wrote EXCEPT ![r] = 0] /\ 0 \in 0 .. 2
        /\ UNCHANGED <<length, origin, store, resp>>
        /\ {"ended", "lookup", "attempt"} \subseteq Places
    BY DEF Request, Places
  <1>2. Fresh(k) \in ForwardStates /\ Silent \in Clients
    BY Constants
  <1>3. CASE /\ k = "asset" /\ cached # None
             /\ Begin(r, Fresh(k), [heads |-> <<cached.header>>, body |-> cached.body,
                                    reuse |-> TRUE], "ended")
    <2>1. cached \in Entries /\ (StableOrigin => EntryOf(length, origin, cached))
      BY <1>3 DEF FInv, TypeOK, Entries, CacheInv, CacheOf
    <2> DEFINE c == [heads |-> <<cached.header>>, body |-> cached.body, reuse |-> TRUE]
    <2>2. c \in Clients /\ ConnOf(length, origin, "ended", k, Fresh(k), resp[r], c, 0)
      BY <1>2, <1>3, <2>1, Values, Replayed
    <2> HIDE DEF c
    <2>3. Begin(r, Fresh(k), c, "ended")
      BY <1>3 DEF c
    <2> QED
      BY <1>1, <1>2, <2>2, <2>3, Begins
  <1>4. CASE k = "asset" /\ Begin(r, Fresh(k), Silent, "lookup")
    <2>1. Silent.heads = <<>> /\ Len(<<>>) = 0
      BY BodyOps DEF Silent
    <2>2. ConnOf(length, origin, "lookup", k, Fresh(k), resp[r], Silent, 0)
      BY <1>4, <2>1 DEF ConnOf, ControlOf, LiveOf, ClientOf, Live, Reading
    <2> QED
      BY <1>1, <1>2, <1>4, <2>2, Begins
  <1>5. CASE k # "asset" /\ Begin(r, Fresh(k), Silent, "attempt")
    <2>1. ConnOf(length, origin, "attempt", k, Fresh(k), resp[r], Silent, 0)
      BY Values, StartsFresh
    <2> QED
      BY <1>1, <1>2, <1>5, <2>1, Begins
  <1> QED
    BY <1>3, <1>4, <1>5 DEF Request

\* getPartial, and the client that leaves during the replay.
LEMMA LookupSteps ==
  ASSUME FInv, NEW r \in Reqs, LookupPartial(r) \/ ReplayFails(r)
  PROVE  FInv'
  <1>1. pc[r] = "lookup" /\ UNCHANGED <<length, origin, store, kind, resp, wrote>>
    BY DEF LookupPartial, ReplayFails
  <1>2. /\ kind' = [kind EXCEPT ![r] = kind[r]] /\ wrote' = [wrote EXCEPT ![r] = wrote[r]]
        /\ kind[r] \in Kinds /\ wrote[r] \in 0 .. 2 /\ {"ended", "attempt"} \subseteq Places
    BY <1>1, Unmoved, Values DEF Places
  <1>3. kind[r] = "asset" /\ st[r] = Fresh("asset") /\ client[r] = Silent
    BY <1>1, Values DEF ConnOf, ControlOf
  <1>4. st[r] \in ForwardStates /\ Silent \in Clients
    BY Values, Constants
  <1>5. CASE partial = None /\ Begin(r, st[r], Silent, "attempt")
    <2>1. ConnOf(length, origin, "attempt", kind[r], st[r], resp[r], Silent, wrote[r])
      BY <1>2, <1>3, Values, StartsFresh DEF Once
    <2> QED
      BY <1>1, <1>2, <1>4, <1>5, <2>1, Begins
  <1>6. CASE LookupPartial(r) /\ partial # None
    <2> DEFINE c == [heads |-> <<partial.header>>, body |-> partial.body, reuse |-> FALSE]
               s == Resumed(partial)
    <2>1. /\ partial \in Partials
          /\ StableOrigin => PrefixOf(length, origin, partial)
      BY <1>6 DEF FInv, TypeOK, Partials, CacheInv, CacheOf
    <2>2. /\ c \in Clients /\ s \in ForwardStates
          /\ ConnOf(length, origin, "attempt", kind[r], s, resp[r], c, wrote[r])
      BY <1>3, <2>1, Values, PrefixReplayed
    <2>3. Begin(r, s, c, "attempt")
      BY <1>3, <1>6 DEF LookupPartial, Resumed
    <2> HIDE DEF c, s
    <2> QED
      BY <1>1, <1>2, <2>2, <2>3, Begins
  <1>7. CASE ReplayFails(r)
    <2>1. ConnOf(length, origin, "ended", kind[r], st[r], resp[r], client[r], wrote[r])
      BY <1>3, Values, Ends DEF Once
    <2>2. CacheTyped' /\ CacheInv'
      BY <1>1, CacheKept DEF store
    <2>3. /\ pc' = [pc EXCEPT ![r] = "ended"] /\ st' = [st EXCEPT ![r] = st[r]]
          /\ resp' = [resp EXCEPT ![r] = resp[r]] /\ client' = [client EXCEPT ![r] = client[r]]
          /\ attempt' \in [Reqs -> 0 .. MaxAttempts - 1]
          /\ zero' \in [Reqs -> 0 .. ResumeAttempts - 1]
          /\ before' \in [Reqs -> Nat]
      BY <1>7, Unmoved DEF ReplayFails, Goto, loop
    <2>4. resp[r] \in Responses /\ client[r] \in Clients /\ "ended" \in Places
      BY <1>2, Values
    <2>5. UNCHANGED <<length, origin>>
      BY <1>1
    <2> QED
      BY <2>5, <1>2, <1>4, <2>1, <2>2, <2>3, <2>4, LocalStep
  <1> QED
    BY <1>5, <1>6, <1>7 DEF LookupPartial

\* Eviction takes nothing from the connections.
LEMMA EvictSteps ==
  ASSUME FInv, Evict \/ EvictPartial
  PROVE  FInv'
  <1>1. /\ cached' \in {cached, None} /\ partial' \in {partial, None}
        /\ UNCHANGED <<length, origin, pc, kind, st, resp, client, loop, wrote>>
    BY DEF Evict, EvictPartial
  <1>2. TypeOK'
    BY <1>1 DEF FInv, TypeOK, loop
  <1>3. ConnInv'
    BY <1>1 DEF FInv, ConnInv
  <1>4. CacheInv'
    BY <1>1 DEF FInv, CacheInv, CacheOf
  <1> QED
    BY <1>2, <1>3, <1>4 DEF FInv

-----------------------------------------------------------------------------
(***************************************************************************)
(* Reading a response.                                                     *)
(***************************************************************************)
\* A client with a header has received a prefix of what the header announced.
LEMMA SentClient ==
  ASSUME NEW n \in Nat, NEW h \in Origins, NEW p, NEW k, NEW s \in ForwardStates,
         NEW c \in Clients, ~c.reuse, s.headerSent, Len(c.heads) = 1,
         NEW b \in Wholes(n, h, k), ReceivedOf(b, s, c), FrameOf(n, b, p, k, s, c)
  PROVE  ClientOf(n, k, s, c)
  <1>2. b \in Bodies /\ Len(b) \in Nat /\ Progress(s) \in Nat
    BY WholeFacts, ProgressNat
  <1>3. Progress(s) \in 0 .. Len(b) /\ c.body = SubSeq(b, 1, Progress(s))
    BY <1>2 DEF ReceivedOf, Received
  <1>4. Len(c.body) = Progress(s) /\ Len(c.body) <= Len(b) /\ IsPrefixOf(c.body, b)
    BY <1>2, <1>3, Prefixes
  <1>5. \/ IsPrefixOf(c.body, SourceOf(n, c.heads[1]))
        \/ s.closeAfter /\ IsPrefixOf(c.body, Bytes("rep", n))
    <2>1. CASE k = "head"
      <3>1. c.body = <<>>
        BY <1>2, <1>4, <2>1, WholeFacts, BodyOps DEF Clients
      <3>2. c.heads[1] \in Headers
        BY EmptySeq DEF Clients
      <3> QED
        BY <3>1, <3>2, Sources, EmptyPrefix
    <2>2. CASE k # "head"
      BY <1>4, <2>2 DEF FrameOf
    <2> QED
      BY <2>1, <2>2
  <1>6. ~s.closeAfter /\ k # "head" => c.heads[1].clen = Len(b)
    BY DEF FrameOf
  <1> QED
    BY <1>4, <1>5, <1>6 DEF ClientOf

\* A header with the status and the offset of a response that bears b.
LEMMA Announces ==
  ASSUME NEW n \in Nat, NEW k, NEW b, NEW a, Bears(n, k, b, a),
         NEW hd, hd.status = a.status, hd.from = a.from
  PROVE  \/ SourceOf(n, hd) = b
         \/ a.status = "206" /\ k # "range" /\ b = Bytes("rep", n)
  BY Sources DEF Bears, SourceOf

\* The chunk of a Read, and the response after it.
ChunkOf(a, m) == SubSeq(a.body, a.skip + 1, m)
RestAfter(a, m) ==
    [a EXCEPT !.body = SubSeq(a.body, m + 1, Len(a.body)),
              !.skip = IF m < a.skip THEN a.skip - m ELSE 0]

\* What a Read returns and leaves has its type.
LEMMA ReadTyped ==
  ASSUME NEW a \in Responses, NEW m \in 1 .. Len(a.body)
  PROVE  /\ ChunkOf(a, m) \in Bodies /\ Len(ChunkOf(a, m)) \in Nat
         /\ RestAfter(a, m) \in Responses
         /\ RestAfter(a, m).status = a.status /\ RestAfter(a, m).from = a.from
         /\ RestAfter(a, m).body = SubSeq(a.body, m + 1, Len(a.body))
         /\ RestAfter(a, m).skip = IF m < a.skip THEN a.skip - m ELSE 0
  <1>1. a.body \in Bodies /\ a.skip \in Nat
    BY DEF Responses
  <1>2. Len(a.body) \in Nat /\ m \in Nat
    BY <1>1, BodyOps
  <1>3. ChunkOf(a, m) \in Bodies /\ Len(ChunkOf(a, m)) \in Nat
    <2>1. a.skip + 1 \in Nat \ {0} /\ m \in 0 .. Len(a.body)
      BY <1>1, <1>2
    <2>2. SubSeq(a.body, a.skip + 1, m) \in Bodies
      BY <1>1, <2>1, BodyOps
    <2> QED
      BY <2>2, BodyOps DEF ChunkOf
  <1>4. SubSeq(a.body, m + 1, Len(a.body)) \in Bodies
    <2>1. m + 1 \in Nat \ {0} /\ Len(a.body) \in 0 .. Len(a.body)
      BY <1>2
    <2> QED
      BY <1>1, <2>1, BodyOps
  <1>5. (IF m < a.skip THEN a.skip - m ELSE 0) \in Nat
    BY <1>1, <1>2
  <1> QED
    BY <1>3, <1>4, <1>5 DEF RestAfter, Responses

\* What a Read adds to a prefix of b is the next bytes of b.
LEMMA ReadContinues ==
  ASSUME NEW n, NEW b \in Bodies, NEW h, NEW p, NEW k, NEW s \in ForwardStates,
         NEW a \in Responses, NEW c \in Clients, NEW m \in 1 .. Len(a.body),
         ReceivedOf(b, s, c), RestOf(n, b, h, p, k, s, a)
  PROVE  LET q == Progress(s) + Len(ChunkOf(a, m))
         IN  /\ q <= Len(b)
             /\ Received(s, c) \o ChunkOf(a, m) = SubSeq(b, 1, q)
             /\ RestAfter(a, m).skip <= q
             /\ ChunkOf(a, m) # <<>> => RestAfter(a, m).skip = 0
             /\ RestAfter(a, m).body = SubSeq(b, q - RestAfter(a, m).skip + 1, Len(b))
  <1>1. PICK g, l, x, d : /\ g = Progress(s) /\ l = a.skip /\ x = a.body /\ d = ChunkOf(a, m)
    OBVIOUS
  <1>2. Len(b) \in Nat /\ g \in Nat /\ l \in Nat /\ b \in Seq({"rep", "err"} \X Nat)
    BY <1>1, BodyOps, ProgressNat DEF Responses, Bodies
  <1>3. g \in 0 .. Len(b) /\ l \in 0 .. g
    BY <1>1, <1>2 DEF ReceivedOf, RestOf
  <1>4. /\ x = SubSeq(b, g - l + 1, Len(b)) /\ Received(s, c) = SubSeq(b, 1, g)
        /\ Len(x) = Len(b) - g + l
    <2>0. x = SubSeq(b, g - l + 1, Len(b)) /\ Received(s, c) = SubSeq(b, 1, g)
      BY <1>1 DEF ReceivedOf, RestOf
    <2>1. g - l + 1 \in Nat \ {0} /\ Len(b) \in 0 .. Len(b)
      BY <1>2, <1>3
    <2>2. Len(x) = IF g - l + 1 <= Len(b) THEN Len(b) - (g - l + 1) + 1 ELSE 0
      BY <2>0, <2>1, BodyOps
    <2> QED
      BY <1>2, <1>3, <2>0, <2>2
  <1>5. m \in 1 .. Len(b) - g + l
    BY <1>1, <1>4
  <1>5a. PICK q1, left : /\ q1 = IF m <= l THEN g ELSE g + m - l
                        /\ left = IF m < l THEN l - m ELSE 0
    OBVIOUS
  <1>6. /\ q1 \in g .. Len(b) /\ left \in 0 .. q1 /\ q1 - left = g - l + m
    BY <1>5a, <1>2, <1>3, <1>5
  <1>7. d = SubSeq(b, g + 1, g - l + m)
    <2>1. /\ g - l + 1 \in 1 .. Len(b) + 1 /\ l + 1 \in Nat \ {0}
          /\ m \in 0 .. Len(b) - (g - l + 1) + 1
      BY <1>2, <1>3, <1>5
    <2>2. SubSeq(SubSeq(b, g - l + 1, Len(b)), l + 1, m)
            = SubSeq(b, (g - l + 1) + (l + 1) - 1, (g - l + 1) + m - 1)
      BY <1>2, <2>1, PartOfSuffix
    <2>3. (g - l + 1) + (l + 1) - 1 = g + 1 /\ (g - l + 1) + m - 1 = g - l + m
      BY <1>2, <1>5
    <2>4. d = SubSeq(SubSeq(b, g - l + 1, Len(b)), l + 1, m)
      BY <1>1, <1>4 DEF ChunkOf
    <2> QED
      BY <2>2, <2>3, <2>4
  <1>8. d = SubSeq(b, g + 1, q1)
    <2>1. CASE m <= l
      <3>1. g - l + m < g + 1 /\ q1 < g + 1 /\ g - l + m \in Int /\ q1 \in Int /\ g + 1 \in Int
        BY <1>5a, <1>2, <1>5, <2>1
      <3>2. SubSeq(b, g + 1, g - l + m) = <<>> /\ SubSeq(b, g + 1, q1) = <<>>
        BY <3>1, SubSeqEmpty
      <3> QED
        BY <1>7, <3>2
    <2>2. CASE m > l
      <3>1. q1 = g - l + m
        BY <1>5a, <1>2, <1>5, <2>2
      <3> QED
        BY <1>7, <3>1
    <2> QED
      BY <1>2, <1>5, <2>1, <2>2
  <1>9. SubSeq(b, 1, g) \o d = SubSeq(b, 1, q1)
    <2>1. 1 \in 1 .. Len(b) + 1 /\ g \in 1 - 1 .. Len(b) /\ q1 \in g .. Len(b)
      BY <1>2, <1>3, <1>6
    <2> QED
      BY <1>2, <1>8, <2>1, ConcatAdjacentSubSeq
  <1>10. SubSeq(x, m + 1, Len(x)) = SubSeq(b, q1 - left + 1, Len(b))
    <2>1. /\ g - l + 1 \in 1 .. Len(b) + 1 /\ m + 1 \in Nat \ {0}
          /\ Len(b) - g + l \in 0 .. Len(b) - (g - l + 1) + 1
      BY <1>2, <1>3, <1>5
    <2>2. SubSeq(SubSeq(b, g - l + 1, Len(b)), m + 1, Len(b) - g + l)
            = SubSeq(b, (g - l + 1) + (m + 1) - 1, (g - l + 1) + (Len(b) - g + l) - 1)
      BY <1>2, <2>1, PartOfSuffix
    <2>3. /\ (g - l + 1) + (m + 1) - 1 = q1 - left + 1
          /\ (g - l + 1) + (Len(b) - g + l) - 1 = Len(b)
      BY <1>2, <1>5, <1>6
    <2> QED
      BY <1>4, <2>2, <2>3
  <1>11. Len(d) = q1 - g
    <2>1. g + 1 \in Nat \ {0} /\ q1 \in 0 .. Len(b)
      BY <1>2, <1>6
    <2>2. Len(d) = IF g + 1 <= q1 THEN q1 - (g + 1) + 1 ELSE 0
      BY <1>8, <2>1, BodyOps
    <2> QED
      BY <1>2, <1>6, <2>2
  <1>12. RestAfter(a, m).skip = left /\ RestAfter(a, m).body = SubSeq(x, m + 1, Len(x))
    BY <1>1, <1>5a, ReadTyped
  <1>13. g + Len(d) = q1 /\ (d # <<>> => left = 0)
    <2>1. d # <<>> => Len(d) # 0
      BY <1>1, ReadTyped, BodyOps
    <2> QED
      BY <1>5a, <1>2, <1>5, <1>6, <1>11, <2>1
  <1>14. Progress(s) + Len(ChunkOf(a, m)) = q1
    BY <1>1, <1>13
  <1>15. q1 <= Len(b) /\ left <= q1
    BY <1>2, <1>6
  <1> QED
    BY <1>1, <1>4, <1>9, <1>10, <1>12, <1>13, <1>14, <1>15

\* The types of forwardState.
LEMMA Fields ==
  ASSUME NEW s \in ForwardStates
  PROVE  /\ s.headerSent \in BOOLEAN /\ s.relayed \in Nat /\ s.total \in Nat \cup {-1}
         /\ s.closeAfter \in BOOLEAN /\ s.pending \in Bodies /\ s.cacheKey \in BOOLEAN
         /\ s.header \in Headers \cup {None} /\ s.buf \in Bodies
         /\ Len(s.pending) \in Nat
  <1>1. s.pending \in Bodies
    BY DEF ForwardStates
  <1>2. Len(s.pending) \in Nat
    BY <1>1, BodyOps
  <1> QED
    BY <1>2 DEF ForwardStates

\* The capture changes the buffer and the key, nothing else.
LEMMA CaptureFields ==
  ASSUME NEW s \in ForwardStates, NEW d \in Bodies
  PROVE  LET s2 == Relayed(s, d)
         IN  /\ s2 \in ForwardStates
             /\ s2.headerSent = s.headerSent /\ s2.relayed = s.relayed + Len(d)
             /\ s2.total = s.total /\ s2.closeAfter = s.closeAfter
             /\ s2.pending = s.pending /\ s2.header = s.header
             /\ s2.cacheKey => s.cacheKey /\ s2.buf = s.buf \o d
  <1>1. Len(d) \in Nat /\ s.buf \o d \in Bodies /\ <<>> \in Bodies /\ s.relayed + Len(d) \in Nat
    <2>1. s.buf \in Bodies /\ s.relayed \in Nat
      BY Fields
    <2>2. Len(d) \in Nat /\ <<>> \in Bodies
      BY BodyOps
    <2>3. s.buf \o d \in Bodies
      BY <2>1, BodyOps
    <2> QED
      BY <2>1, <2>2, <2>3
  <1>2. CASE Capture(s, d) = s /\ ~s.cacheKey
    BY <1>1, <1>2 DEF Relayed, ForwardStates
  <1>3. CASE Capture(s, d) = [s EXCEPT !.cacheKey = FALSE, !.buf = <<>>]
    BY <1>1, <1>3 DEF Relayed, ForwardStates
  <1>4. CASE Capture(s, d) = [s EXCEPT !.buf = s.buf \o d] /\ s.cacheKey
    BY <1>1, <1>4 DEF Relayed, ForwardStates
  <1> QED
    BY <1>2, <1>3, <1>4 DEF Capture

\* A Read while relaying moves the client on by the next bytes.
LEMMA RelayReads ==
  ASSUME NEW n \in Nat, NEW h \in Origins, NEW k, NEW s \in ForwardStates,
         NEW a \in Responses, NEW c \in Clients, NEW w, NEW m \in 1 .. Len(a.body),
         ConnOf(n, h, "relay", k, s, a, c, w)
  PROVE  LET d == ChunkOf(a, m)
             c2 == [c EXCEPT !.body = @ \o d]
         IN  /\ c2 \in Clients
             /\ ConnOf(n, h, "relay", k, Relayed(s, d), RestAfter(a, m), c2, w)
  <1>1. PICK d, c2, s2, a2 : /\ d = ChunkOf(a, m) /\ c2 = [c EXCEPT !.body = @ \o d]
                             /\ s2 = Relayed(s, d) /\ a2 = RestAfter(a, m)
    OBVIOUS
  <1>2. d \in Bodies /\ Len(d) \in Nat /\ a2 \in Responses /\ a2.status = a.status
        /\ a2.from = a.from
    BY <1>1, ReadTyped
  <1>3. c.body \in Bodies /\ c.body \o d \in Bodies
    BY <1>2, BodyOps DEF Clients
  <1>4. /\ c2 \in Clients /\ c2.heads = c.heads /\ c2.reuse = c.reuse
        /\ c2.body = c.body \o d
    BY <1>1, <1>3 DEF Clients
  <1>5. /\ s2 \in ForwardStates
        /\ s2.headerSent = s.headerSent /\ s2.relayed = s.relayed + Len(d)
        /\ s2.total = s.total /\ s2.closeAfter = s.closeAfter
        /\ s2.pending = s.pending /\ s2.header = s.header
        /\ s2.cacheKey => s.cacheKey /\ s2.buf = s.buf \o d
    BY <1>1, <1>2, CaptureFields
  <1>6. ControlOf("relay", k, s, c, w) /\ s.headerSent /\ ~c.reuse
    BY DEF ConnOf, ControlOf, Live
  <1>7. ControlOf("relay", k, s2, c2, w)
    BY <1>4, <1>5, <1>6 DEF ControlOf
  <1>8. ASSUME StableOrigin
        PROVE  LiveOf(n, h, "relay", k, s2, a2, c2) /\ ClientOf(n, k, s2, c2)
    <2>2. PICK b \in Wholes(n, h, k) :
            /\ ReceivedOf(b, s, c) /\ RestOf(n, b, h, "relay", k, s, a)
            /\ FrameOf(n, b, "relay", k, s, c) /\ CaptureOf(n, h, "relay", k, s, c)
      BY <1>8 DEF ConnOf, LiveOf, Live, Reading
    <2>3. b \in Bodies
      BY WholeFacts
    <2>4. PICK q :
            /\ q = Progress(s) + Len(d)
            /\ q <= Len(b)
            /\ Received(s, c) \o d = SubSeq(b, 1, q)
            /\ a2.skip <= q
            /\ a2.body = SubSeq(b, q - a2.skip + 1, Len(b))
      <3>1. LET q == Progress(s) + Len(ChunkOf(a, m))
            IN  /\ q <= Len(b)
                /\ Received(s, c) \o ChunkOf(a, m) = SubSeq(b, 1, q)
                /\ RestAfter(a, m).skip <= q
                /\ RestAfter(a, m).body = SubSeq(b, q - RestAfter(a, m).skip + 1, Len(b))
        BY <2>2, <2>3, ReadContinues, Zenon
      <3> QED
        BY <1>1, <3>1, Zenon
    <2>5. Progress(s2) = q
      BY <1>2, <1>5, <2>4, Fields DEF Progress
    <2>6. ReceivedOf(b, s2, c2)
      BY <1>4, <1>5, <1>6, <2>4, <2>5 DEF ReceivedOf, Received
    <2>7. RestOf(n, b, h, "relay", k, s2, a2)
      BY <1>2, <2>2, <2>4, <2>5 DEF RestOf, Bears
    <2>8. FrameOf(n, b, "relay", k, s2, c2)
      BY <1>4, <1>5, <2>2 DEF FrameOf
    <2>9. CaptureOf(n, h, "relay", k, s2, c2)
      BY <1>4, <1>5, <1>6, <2>2 DEF CaptureOf
    <2>10. ClientOf(n, k, s2, c2)
      <3>1. Len(c2.heads) = 1
        BY <1>4, <1>6 DEF ControlOf, Live
      <3> QED
        BY <1>4, <1>5, <1>6, <2>6, <2>8, <3>1, SentClient
    <2> QED
      BY <2>6, <2>7, <2>8, <2>9, <2>10 DEF LiveOf
  <1> QED
    BY <1>1, <1>2, <1>4, <1>7, <1>8 DEF ConnOf, Reading

\* relayForwardBody reads.
LEMMA RelayReadStep ==
  ASSUME FInv, NEW r \in Reqs, RelayRead(r)
  PROVE  FInv'
  <1>1. /\ pc[r] = "relay"
        /\ UNCHANGED <<length, origin, cached, partial, pc, kind, attempt, zero, before, wrote>>
    BY DEF RelayRead, store, loop
  <1>2. PICK m \in 1 .. Len(resp[r].body) :
          /\ AfterRead(r, m)
          /\ client' = [client EXCEPT ![r].body = @ \o Chunk(r, m)]
          /\ st' = [st EXCEPT ![r] = Relayed(st[r], Chunk(r, m))]
    BY DEF RelayRead
  <1>3. PICK d, s2, c2, a2 :
          /\ d = ChunkOf(resp[r], m) /\ s2 = Relayed(st[r], d)
          /\ c2 = [client[r] EXCEPT !.body = @ \o d] /\ a2 = RestAfter(resp[r], m)
    OBVIOUS
  <1>4. /\ st[r] \in ForwardStates /\ resp[r] \in Responses /\ client[r] \in Clients
        /\ kind[r] \in Kinds /\ wrote[r] \in 0 .. 2 /\ "relay" \in Places
        /\ length \in Nat /\ origin \in Origins
        /\ ConnOf(length, origin, "relay", kind[r], st[r], resp[r], client[r], wrote[r])
    BY <1>1, Values DEF Places
  <1>5. d \in Bodies /\ a2 \in Responses
    BY <1>3, <1>4, ReadTyped
  <1>6. s2 \in ForwardStates
    BY <1>3, <1>4, <1>5, CaptureFields
  <1>7. c2 \in Clients /\ ConnOf(length, origin, "relay", kind[r], s2, a2, c2, wrote[r])
    BY <1>3, <1>4, RelayReads
  <1>8. Chunk(r, m) = d
    BY <1>3 DEF Chunk, ChunkOf
  <1>9. /\ st' = [st EXCEPT ![r] = s2] /\ resp' = [resp EXCEPT ![r] = a2]
        /\ client' = [client EXCEPT ![r] = c2]
    <2>1. st' = [st EXCEPT ![r] = s2]
      BY <1>2, <1>3, <1>8
    <2>2. resp' = [resp EXCEPT ![r] = a2]
      BY <1>2, <1>3 DEF AfterRead, RestAfter
    <2>3. client' = [client EXCEPT ![r] = c2]
      BY <1>2, <1>3, <1>8
    <2> QED
      BY <2>1, <2>2, <2>3
  <1>10. /\ pc' = [pc EXCEPT ![r] = "relay"] /\ kind' = [kind EXCEPT ![r] = kind[r]]
         /\ wrote' = [wrote EXCEPT ![r] = wrote[r]]
         /\ attempt' \in [Reqs -> 0 .. MaxAttempts - 1]
         /\ zero' \in [Reqs -> 0 .. ResumeAttempts - 1]
         /\ before' \in [Reqs -> Nat]
    BY <1>1, Unmoved
  <1>11. CacheTyped' /\ CacheInv' /\ UNCHANGED <<length, origin>>
    BY <1>1, CacheKept
  <1> QED
    BY <1>4, <1>5, <1>6, <1>7, <1>9, <1>10, <1>11, LocalStep

\* The buffer after a Read that it has room for.
LEMMA BufferReads ==
  ASSUME NEW n \in Nat, NEW h \in Origins, NEW k, NEW s \in ForwardStates,
         NEW a \in Responses, NEW c \in Clients, NEW w, NEW m \in 1 .. Len(a.body),
         ConnOf(n, h, "buffer", k, s, a, c, w), NEW y, y = s.pending \o ChunkOf(a, m)
  PROVE  LET s2 == [s EXCEPT !.pending = y]
         IN  /\ s2 \in ForwardStates
             /\ ConnOf(n, h, "buffer", k, s2, RestAfter(a, m), c, w)
  <1>1. PICK d, s2, a2 : d = ChunkOf(a, m) /\ s2 = [s EXCEPT !.pending = y] /\ a2 = RestAfter(a, m)
    OBVIOUS
  <1>2. d \in Bodies /\ Len(d) \in Nat /\ a2 \in Responses /\ a2.status = a.status
        /\ a2.from = a.from
    BY <1>1, ReadTyped
  <1>3. s.pending \in Bodies /\ y \in Bodies /\ Len(y) = Len(s.pending) + Len(d)
    <2>1. s.pending \in Bodies
      BY Fields
    <2> QED
      BY <1>1, <1>2, <2>1, BodyOps
  <1>4. /\ s2 \in ForwardStates
        /\ s2.headerSent = s.headerSent /\ s2.relayed = s.relayed
        /\ s2.total = s.total /\ s2.closeAfter = s.closeAfter
        /\ s2.pending = y /\ s2.header = s.header
        /\ s2.cacheKey = s.cacheKey /\ s2.buf = s.buf
    BY <1>1, <1>3 DEF ForwardStates
  <1>5. ControlOf("buffer", k, s, c, w) /\ ~s.headerSent /\ s.relayed = 0 /\ c.heads = <<>>
    BY DEF ConnOf, ControlOf, Live
  <1>6. ControlOf("buffer", k, s2, c, w)
    BY <1>4, <1>5 DEF ControlOf
  <1>7. ASSUME StableOrigin PROVE LiveOf(n, h, "buffer", k, s2, a2, c)
    <2>2. PICK b \in Wholes(n, h, k) :
            /\ ReceivedOf(b, s, c) /\ RestOf(n, b, h, "buffer", k, s, a)
            /\ FrameOf(n, b, "buffer", k, s, c) /\ CaptureOf(n, h, "buffer", k, s, c)
      BY <1>7 DEF ConnOf, LiveOf, Live, Reading
    <2>3. b \in Bodies
      BY WholeFacts
    <2>4. PICK q :
            /\ q = Progress(s) + Len(d)
            /\ q <= Len(b)
            /\ Received(s, c) \o d = SubSeq(b, 1, q)
            /\ a2.skip <= q
            /\ a2.body = SubSeq(b, q - a2.skip + 1, Len(b))
      <3>1. LET q == Progress(s) + Len(ChunkOf(a, m))
            IN  /\ q <= Len(b)
                /\ Received(s, c) \o ChunkOf(a, m) = SubSeq(b, 1, q)
                /\ RestAfter(a, m).skip <= q
                /\ RestAfter(a, m).body = SubSeq(b, q - RestAfter(a, m).skip + 1, Len(b))
        BY <2>2, <2>3, ReadContinues, Zenon
      <3> QED
        BY <1>1, <3>1, Zenon
    <2>5. Progress(s2) = q
      BY <1>2, <1>3, <1>4, <2>4, Fields DEF Progress
    <2>6. ReceivedOf(b, s2, c)
      BY <1>1, <1>4, <1>5, <2>4, <2>5 DEF ReceivedOf, Received
    <2>7. RestOf(n, b, h, "buffer", k, s2, a2)
      BY <1>2, <2>2, <2>4, <2>5 DEF RestOf, Bears
    <2>8. FrameOf(n, b, "buffer", k, s2, c)
      BY <1>4, <1>5, <2>2 DEF FrameOf
    <2>9. CaptureOf(n, h, "buffer", k, s2, c)
      BY <1>4, <1>5, <2>2 DEF CaptureOf
    <2> QED
      BY <2>6, <2>7, <2>8, <2>9 DEF LiveOf
  <1>8. ClientOf(n, k, s2, c)
    BY <1>5 DEF ClientOf
  <1> QED
    BY <1>1, <1>2, <1>4, <1>6, <1>7, <1>8 DEF ConnOf, Reading

\* streamOverflowBuffered: the buffer is written out and the rest follows it.
Overflowed(s, y) ==
    [s EXCEPT !.closeAfter = TRUE, !.cacheKey = FALSE, !.headerSent = TRUE,
              !.pending = <<>>, !.relayed = Len(y), !.total = -1]

\* The client of an overflow holds what was buffered, without a length.
LEMMA BufferOverflows ==
  ASSUME NEW n \in Nat, NEW h \in Origins, NEW k, NEW s \in ForwardStates,
         NEW a \in Responses, NEW c \in Clients, NEW w, NEW m \in 1 .. Len(a.body),
         ConnOf(n, h, "buffer", k, s, a, c, w),
         NEW y, y = s.pending \o ChunkOf(a, m), ChunkOf(a, m) # <<>>
  PROVE  LET s2 == Overflowed(s, y)
             c2 == [c EXCEPT !.heads = Append(@, Header(a.status, a.clen, a.from)), !.body = y]
         IN  /\ s2 \in ForwardStates /\ c2 \in Clients
             /\ ConnOf(n, h, "overflow", k, s2, RestAfter(a, m), c2, w)
  <1>1. PICK d, s2, a2, c2, hd :
          /\ d = ChunkOf(a, m) /\ s2 = Overflowed(s, y) /\ a2 = RestAfter(a, m)
          /\ hd = Header(a.status, a.clen, a.from)
          /\ c2 = [c EXCEPT !.heads = Append(@, hd), !.body = y]
    OBVIOUS
  <1>2. d \in Bodies /\ Len(d) \in Nat /\ a2 \in Responses /\ a2.status = a.status
        /\ a2.from = a.from
    BY <1>1, ReadTyped
  <1>3. y \in Bodies /\ Len(y) = Len(s.pending) + Len(d) /\ Len(y) \in Nat /\ Len(<<>>) = 0
    <2>1. s.pending \in Bodies
      BY Fields
    <2> QED
      BY <1>1, <1>2, <2>1, BodyOps
  <1>4. /\ s2 \in ForwardStates
        /\ s2.headerSent /\ s2.relayed = Len(y) /\ s2.total = -1 /\ s2.closeAfter
        /\ s2.pending = <<>> /\ ~s2.cacheKey
    <2>1. <<>> \in Bodies
      BY BodyOps
    <2> QED
      BY <1>1, <1>3, <2>1 DEF ForwardStates, Overflowed
  <1>5. /\ ControlOf("buffer", k, s, c, w) /\ ~s.headerSent /\ s.relayed = 0 /\ c.heads = <<>>
        /\ ~c.reuse
    BY DEF ConnOf, ControlOf, Live
  <1>6. hd \in Headers /\ hd.status = a.status /\ hd.from = a.from
    BY <1>1 DEF Header, Headers, Responses, ConnOf, Reading
  <1>7. c2 \in Clients /\ Len(c2.heads) = 1 /\ c2.heads[1] = hd /\ c2.body = y /\ ~c2.reuse
    <2>1. c.heads \in Seq(Headers)
      BY DEF Clients
    <2>2. /\ Append(c.heads, hd) \in Seq(Headers) /\ Len(Append(c.heads, hd)) = 1
          /\ Append(c.heads, hd)[1] = hd
      BY <1>5, <1>6, <2>1, Heads
    <2> QED
      BY <1>1, <1>3, <1>5, <2>2 DEF Clients
  <1>8. ControlOf("overflow", k, s2, c2, w)
    BY <1>4, <1>5, <1>7 DEF ControlOf
  <1>9. ASSUME StableOrigin
        PROVE  LiveOf(n, h, "overflow", k, s2, a2, c2) /\ ClientOf(n, k, s2, c2)
    <2>2. PICK b \in Wholes(n, h, k) :
            ReceivedOf(b, s, c) /\ RestOf(n, b, h, "buffer", k, s, a)
      BY <1>9 DEF ConnOf, LiveOf, Live, Reading
    <2>3. b \in Bodies
      BY WholeFacts
    <2>4. PICK q :
            /\ q = Progress(s) + Len(d)
            /\ q <= Len(b)
            /\ Received(s, c) \o d = SubSeq(b, 1, q)
            /\ a2.skip <= q
            /\ a2.skip = 0
            /\ a2.body = SubSeq(b, q - a2.skip + 1, Len(b))
      <3>1. LET q == Progress(s) + Len(ChunkOf(a, m))
            IN  /\ q <= Len(b)
                /\ Received(s, c) \o ChunkOf(a, m) = SubSeq(b, 1, q)
                /\ RestAfter(a, m).skip <= q
                /\ RestAfter(a, m).skip = 0
                /\ RestAfter(a, m).body = SubSeq(b, q - RestAfter(a, m).skip + 1, Len(b))
        BY <2>2, <2>3, ReadContinues, Zenon
      <3> QED
        BY <1>1, <3>1, Zenon
    <2>5. Progress(s2) = q
      BY <1>2, <1>3, <1>4, <1>5, <2>4, Fields DEF Progress
    <2>6. ReceivedOf(b, s2, c2)
      BY <1>1, <1>4, <1>5, <1>7, <2>4, <2>5 DEF ReceivedOf, Received
    <2>7. RestOf(n, b, h, "overflow", k, s2, a2)
      BY <1>2, <2>2, <2>4, <2>5 DEF RestOf, Bears
    <2>8. FrameOf(n, b, "overflow", k, s2, c2)
      <3>1. k # "head" => SourceOf(n, hd) = b \/ b = Bytes("rep", n)
        BY <1>6, <2>2, Announces DEF RestOf
      <3> QED
        BY <1>4, <1>7, <3>1 DEF FrameOf
    <2>9. CaptureOf(n, h, "overflow", k, s2, c2)
      BY <1>4 DEF CaptureOf
    <2>10. ClientOf(n, k, s2, c2)
      BY <1>4, <1>7, <2>6, <2>8, SentClient
    <2> QED
      BY <2>6, <2>7, <2>8, <2>9, <2>10 DEF LiveOf
  <1> QED
    BY <1>1, <1>2, <1>4, <1>7, <1>8, <1>9 DEF ConnOf, Reading

\* forwardBuffered reads.
LEMMA BufferReadStep ==
  ASSUME FInv, NEW r \in Reqs, BufferRead(r)
  PROVE  FInv'
  <1>1. /\ pc[r] = "buffer"
        /\ UNCHANGED <<length, origin, cached, partial, kind, attempt, zero, before, wrote>>
    BY DEF BufferRead, store, loop
  <1>2. PICK m \in 1 .. Len(resp[r].body) :
          LET chunk == Chunk(r, m)
              whole == st[r].pending \o chunk
          IN /\ AfterRead(r, m)
             /\ \/ /\ st' = [st EXCEPT ![r].pending = whole]
                   /\ UNCHANGED <<pc, client>>
                \/ /\ chunk # <<>>
                   /\ st' = [st EXCEPT ![r].closeAfter = TRUE, ![r].cacheKey = FALSE,
                                       ![r].headerSent = TRUE, ![r].pending = <<>>,
                                       ![r].relayed = Len(whole), ![r].total = -1]
                   /\ client' = [client EXCEPT
                         ![r].heads = Append(@, Header(resp[r].status, resp[r].clen, resp[r].from)),
                         ![r].body = whole]
                   /\ Goto(r, "overflow")
    BY DEF BufferRead
  <1>3. PICK d, y, a2 : /\ d = ChunkOf(resp[r], m) /\ y = st[r].pending \o d
                        /\ a2 = RestAfter(resp[r], m)
    OBVIOUS
  <1>4. /\ st[r] \in ForwardStates /\ resp[r] \in Responses /\ client[r] \in Clients
        /\ kind[r] \in Kinds /\ wrote[r] \in 0 .. 2
        /\ "buffer" \in Places /\ "overflow" \in Places
        /\ length \in Nat /\ origin \in Origins
        /\ ConnOf(length, origin, "buffer", kind[r], st[r], resp[r], client[r], wrote[r])
    BY <1>1, Values DEF Places
  <1>5. a2 \in Responses /\ resp' = [resp EXCEPT ![r] = a2]
    BY <1>2, <1>3, <1>4, ReadTyped DEF AfterRead, RestAfter
  <1>6. Chunk(r, m) = d
    BY <1>3 DEF Chunk, ChunkOf
  <1>7. /\ kind' = [kind EXCEPT ![r] = kind[r]] /\ wrote' = [wrote EXCEPT ![r] = wrote[r]]
        /\ attempt' \in [Reqs -> 0 .. MaxAttempts - 1]
        /\ zero' \in [Reqs -> 0 .. ResumeAttempts - 1]
        /\ before' \in [Reqs -> Nat]
    BY <1>1, Unmoved
  <1>8. CacheTyped' /\ CacheInv' /\ UNCHANGED <<length, origin>>
    BY <1>1, CacheKept
  <1>9. CASE st' = [st EXCEPT ![r].pending = y] /\ UNCHANGED <<pc, client>>
    <2>1. PICK s2 : s2 = [st[r] EXCEPT !.pending = y]
      OBVIOUS
    <2>2. /\ s2 \in ForwardStates
          /\ ConnOf(length, origin, "buffer", kind[r], s2, a2, client[r], wrote[r])
      BY <1>3, <1>4, <2>1, BufferReads
    <2>3. /\ st' = [st EXCEPT ![r] = s2] /\ pc' = [pc EXCEPT ![r] = "buffer"]
          /\ client' = [client EXCEPT ![r] = client[r]]
      BY <1>1, <1>9, <2>1, Unmoved
    <2> QED
      BY <1>4, <1>5, <1>7, <1>8, <2>2, <2>3, LocalStep
  <1>10. CASE /\ d # <<>> /\ Goto(r, "overflow")
              /\ st' = [st EXCEPT ![r].closeAfter = TRUE, ![r].cacheKey = FALSE,
                                  ![r].headerSent = TRUE, ![r].pending = <<>>,
                                  ![r].relayed = Len(y), ![r].total = -1]
              /\ client' = [client EXCEPT
                    ![r].heads = Append(@, Header(resp[r].status, resp[r].clen, resp[r].from)),
                    ![r].body = y]
    <2>1. PICK s2, c2, hd :
            /\ s2 = Overflowed(st[r], y)
            /\ hd = Header(resp[r].status, resp[r].clen, resp[r].from)
            /\ c2 = [client[r] EXCEPT !.heads = Append(@, hd), !.body = y]
      OBVIOUS
    <2>2. /\ s2 \in ForwardStates /\ c2 \in Clients
          /\ ConnOf(length, origin, "overflow", kind[r], s2, a2, c2, wrote[r])
      BY <1>3, <1>4, <1>10, <2>1, BufferOverflows
    <2>3. st' = [st EXCEPT ![r] = s2]
      BY <1>10, <2>1 DEF Overflowed
    <2>4. client' = [client EXCEPT ![r] = c2]
      BY <1>10, <2>1
    <2>5. pc' = [pc EXCEPT ![r] = "overflow"]
      BY <1>10 DEF Goto
    <2> QED
      BY <1>4, <1>5, <1>7, <1>8, <2>2, <2>3, <2>4, <2>5, LocalStep
  <1> QED
    BY <1>2, <1>3, <1>6, <1>9, <1>10

-----------------------------------------------------------------------------
(***************************************************************************)
(* The end of a response.                                                  *)
(***************************************************************************)
\* fwdDone.
LEMMA Finishes ==
  ASSUME FInv, NEW r \in Reqs, NEW s \in ForwardStates, NEW c \in Clients,
         Done(r, s, c), UNCHANGED <<length, origin, kind, wrote>>, CacheTyped', CacheInv',
         ConnOf(length, origin, "ended", kind[r], s, NoResp,
                [c EXCEPT !.reuse = ~s.closeAfter], wrote[r])
  PROVE  FInv'
  <1>1. PICK c2 : c2 = [c EXCEPT !.reuse = ~s.closeAfter]
    OBVIOUS
  <1>2. c2 \in Clients
    BY <1>1 DEF Clients
  <1>3. /\ pc' = [pc EXCEPT ![r] = "ended"] /\ st' = [st EXCEPT ![r] = s]
        /\ client' = [client EXCEPT ![r] = c2] /\ resp' = [resp EXCEPT ![r] = NoResp]
    BY <1>1 DEF Done, Goto
  <1>4. /\ kind' = [kind EXCEPT ![r] = kind[r]] /\ wrote' = [wrote EXCEPT ![r] = wrote[r]]
        /\ attempt' \in [Reqs -> 0 .. MaxAttempts - 1]
        /\ zero' \in [Reqs -> 0 .. ResumeAttempts - 1]
        /\ before' \in [Reqs -> Nat]
    BY Unmoved DEF Done, loop
  <1>5. /\ kind[r] \in Kinds /\ wrote[r] \in 0 .. 2 /\ NoResp \in Responses
        /\ "ended" \in Places
    BY Values, Constants DEF Places
  <1> QED
    BY <1>1, <1>2, <1>3, <1>4, <1>5, LocalStep

\* commitAssetCache of a whole representation.
LEMMA Commits ==
  ASSUME FInv, NEW s \in ForwardStates, CommitAssetCache(s), UNCHANGED <<length, origin>>,
         StableOrigin /\ s.cacheKey =>
             /\ origin = "rep" /\ s.header.status = "200" /\ s.header.from = 0
             /\ s.buf = Bytes("rep", length)
  PROVE  CacheTyped' /\ CacheInv'
  <1>1. CASE ~(s.cacheKey /\ s.header # None)
    BY <1>1, CacheKept DEF CommitAssetCache, store
  <1>2. CASE s.cacheKey /\ s.header # None
    <2>1. PICK e : e = [header |-> [s.header EXCEPT !.clen = Len(s.buf)], body |-> s.buf]
      OBVIOUS
    <2>2. cached' = e /\ partial' = None
      BY <1>2, <2>1 DEF CommitAssetCache
    <2>3. s.header \in Headers /\ s.buf \in Bodies
      BY <1>2, Fields
    <2>4. Len(s.buf) \in Nat
      BY <2>3, BodyOps
    <2>5. e \in Entries
      BY <2>1, <2>3, <2>4 DEF Entries, Headers
    <2>6. ASSUME StableOrigin PROVE EntryOf(length, origin, e)
      <3>1. length \in Nat
        BY DEF FInv, TypeOK
      <3>2. Len(Bytes("rep", length)) = length
        BY <3>1, BodyOps
      <3>3. [s.header EXCEPT !.clen = length] = Header("200", length, 0)
        BY <1>2, <2>3, <2>6 DEF Headers, Header
      <3> QED
        BY <1>2, <2>1, <2>6, <3>2, <3>3 DEF EntryOf
    <2>7. CacheTyped'
      BY <2>2, <2>5 DEF CacheTyped
    <2>8. CacheInv'
      BY <2>2, <2>6 DEF CacheInv, CacheOf
    <2> QED
      BY <2>7, <2>8
  <1> QED
    BY <1>1, <1>2

\* The client of a finished request, with all of its body.
LEMMA WholeClient ==
  ASSUME NEW n \in Nat, NEW h \in Origins, NEW k, NEW s, NEW c \in Clients, Len(c.heads) = 1,
         c.body \in Wholes(n, h, k),
         k # "head" => \/ SourceOf(n, c.heads[1]) = c.body
                       \/ k = "range" /\ c.body = RepFrom(n, RangeFrom)
                       \/ s.closeAfter /\ c.body = Bytes("rep", n),
         ~s.closeAfter /\ k # "head" => c.heads[1].clen = Len(c.body)
  PROVE  ClientOf(n, k, s, c)
  <1>1. c.body \in Bodies /\ Len(c.body) \in Nat /\ (k = "head" => c.body = <<>>)
    BY WholeFacts
  <1>2. IsPrefixOf(c.body, c.body)
    BY <1>1, Prefixes DEF IsPrefixOf
  <1>3. k = "head" => IsPrefixOf(c.body, SourceOf(n, c.heads[1]))
    <2>1. c.heads[1] \in Headers
      BY EmptySeq DEF Clients
    <2> QED
      BY <1>1, <2>1, Sources, EmptyPrefix
  <1> QED
    BY <1>1, <1>2, <1>3 DEF ClientOf

\* A prefix as long as the body is the body.
LEMMA AllReceived ==
  ASSUME NEW b \in Bodies, NEW s \in ForwardStates, NEW c, ReceivedOf(b, s, c),
         Progress(s) >= Len(b)
  PROVE  Received(s, c) = b
  <1>1. Len(b) \in Nat /\ Progress(s) \in Nat /\ SubSeq(b, 1, Len(b)) = b
    BY BodyOps, ProgressNat, Prefixes
  <1>2. Progress(s) = Len(b)
    BY <1>1 DEF ReceivedOf
  <1> QED
    BY <1>1, <1>2 DEF ReceivedOf

\* relayForwardBody has relayed the total.
LEMMA RelayDoneStep ==
  ASSUME FInv, NEW r \in Reqs, RelayDone(r)
  PROVE  FInv'
  <1>1. PICK s, c, s2, c2, n, h, k, a, w :
          /\ s = st[r] /\ c = client[r] /\ n = length /\ h = origin /\ k = kind[r]
          /\ a = resp[r] /\ w = wrote[r]
          /\ s2 = [s EXCEPT !.cacheKey = FALSE, !.buf = <<>>]
          /\ c2 = [c EXCEPT !.reuse = ~s2.closeAfter]
    OBVIOUS
  <1>2. /\ CommitAssetCache(s) /\ Complete(s) /\ Done(r, s2, c)
        /\ UNCHANGED <<length, origin, kind, wrote>>
    BY <1>1 DEF RelayDone
  <1>3. /\ s \in ForwardStates /\ c \in Clients /\ n \in Nat /\ h \in Origins
        /\ ConnOf(n, h, "relay", k, s, a, c, w)
    BY <1>1, Values DEF RelayDone
  <1>4. /\ s2 \in ForwardStates /\ s2.closeAfter = s.closeAfter /\ s2.closeAfter \in BOOLEAN
    <2>1. <<>> \in Bodies
      BY BodyOps
    <2> QED
      BY <1>1, <1>3, <2>1 DEF ForwardStates
  <1>5. c2 \in Clients /\ c2.heads = c.heads /\ c2.body = c.body
    BY <1>1, <1>3, <1>4 DEF Clients
  <1>6. ControlOf("relay", k, s, c, w) /\ s.headerSent
    BY <1>3 DEF ConnOf, ControlOf
  <1>7. ControlOf("ended", k, s2, c2, w)
    BY <1>5, <1>6 DEF ControlOf, Live
  <1>8. ASSUME StableOrigin
        PROVE  /\ ClientOf(n, k, s2, c2)
               /\ s.cacheKey => /\ h = "rep" /\ s.header.status = "200"
                                /\ s.header.from = 0 /\ s.buf = Bytes("rep", n)
    <2>2. PICK b \in Wholes(n, h, k) :
            /\ ReceivedOf(b, s, c) /\ FrameOf(n, b, "relay", k, s, c)
            /\ CaptureOf(n, h, "relay", k, s, c)
      BY <1>3, <1>8 DEF ConnOf, LiveOf, Live
    <2>3. b \in Bodies /\ Len(b) \in Nat
      BY <1>3, WholeFacts
    <2>4. Progress(s) >= Len(b)
      BY <1>2, <2>2, <2>3 DEF Complete, FrameOf
    <2>5. c.body = b
      BY <1>3, <1>6, <2>2, <2>3, <2>4, AllReceived DEF Received
    <2>6. /\ k # "head" => SourceOf(n, c.heads[1]) = b /\ c.heads[1].clen = Len(b)
          /\ Len(c.heads) = 1
      BY <1>6, <2>2 DEF FrameOf, ControlOf, Live
    <2>7. ClientOf(n, k, s2, c2)
      BY <1>3, <1>5, <2>5, <2>6, WholeClient
    <2>8. s.cacheKey => /\ h = "rep" /\ s.header.status = "200"
                        /\ s.header.from = 0 /\ s.buf = Bytes("rep", n)
      BY <1>3, <1>6, <2>2, <2>5, WholeFacts DEF CaptureOf, Header
    <2> QED
      BY <2>7, <2>8
  <1>9. CacheTyped' /\ CacheInv'
    BY <1>1, <1>2, <1>3, <1>8, Commits
  <1>10. ConnOf(n, h, "ended", k, s2, NoResp, c2, w)
    BY <1>7, <1>8 DEF ConnOf, LiveOf, Live, Reading
  <1> QED
    BY <1>1, <1>2, <1>3, <1>4, <1>9, <1>10, Finishes

\* The rest of an overflowing body completes it.
LEMMA OverflowDoneStep ==
  ASSUME FInv, NEW r \in Reqs, OverflowDone(r)
  PROVE  FInv'
  <1>1. PICK s, c, c1, c2, n, h, k, a, w :
          /\ s = st[r] /\ c = client[r] /\ n = length /\ h = origin /\ k = kind[r]
          /\ a = resp[r] /\ w = wrote[r]
          /\ c1 = [c EXCEPT !.body = @ \o a.body]
          /\ c2 = [c1 EXCEPT !.reuse = ~s.closeAfter]
    OBVIOUS
  <1>2. Done(r, s, c1) /\ UNCHANGED <<length, origin, kind, wrote, cached, partial>>
    BY <1>1 DEF OverflowDone, store
  <1>3. /\ s \in ForwardStates /\ c \in Clients /\ n \in Nat /\ h \in Origins /\ a \in Responses
        /\ ConnOf(n, h, "overflow", k, s, a, c, w)
    BY <1>1, Values DEF OverflowDone
  <1>4. c.body \o a.body \in Bodies /\ s.closeAfter \in BOOLEAN
    <2>1. c.body \in Bodies /\ a.body \in Bodies
      BY <1>3 DEF Clients, Responses
    <2> QED
      BY <1>3, <2>1, BodyOps, Fields
  <1>5. /\ c1 \in Clients /\ c2 \in Clients /\ c2.heads = c.heads
        /\ c2.body = c.body \o a.body
    BY <1>1, <1>3, <1>4 DEF Clients
  <1>6. ControlOf("overflow", k, s, c, w) /\ s.headerSent
    BY <1>3 DEF ConnOf, ControlOf
  <1>7. ControlOf("ended", k, s, c2, w)
    BY <1>5, <1>6 DEF ControlOf, Live
  <1>8. ASSUME StableOrigin PROVE ClientOf(n, k, s, c2)
    <2>1. PICK g : g = Progress(s)
      OBVIOUS
    <2>2. PICK b \in Wholes(n, h, k) :
            /\ ReceivedOf(b, s, c) /\ RestOf(n, b, h, "overflow", k, s, a)
            /\ FrameOf(n, b, "overflow", k, s, c)
      BY <1>3, <1>8 DEF ConnOf, LiveOf, Live, Reading
    <2>3. b \in Bodies /\ Len(b) \in Nat /\ g \in Nat /\ SubSeq(b, 1, Len(b)) = b
      BY <1>3, <2>1, WholeFacts, ProgressNat, Prefixes
    <2>4. g <= Len(b) /\ c.body = SubSeq(b, 1, g) /\ a.body = SubSeq(b, g - 0 + 1, Len(b))
      BY <1>6, <2>1, <2>2 DEF ReceivedOf, Received, RestOf
    <2>5. c.body \o a.body = b
      <3>1. /\ 1 \in 1 .. Len(b) + 1 /\ g \in 1 - 1 .. Len(b)
            /\ Len(b) \in g .. Len(b) /\ g - 0 + 1 = g + 1
        BY <2>3, <2>4
      <3>2. SubSeq(b, 1, g) \o SubSeq(b, g + 1, Len(b)) = SubSeq(b, 1, Len(b))
        BY <2>3, <3>1, ConcatAdjacentSubSeq DEF Bodies
      <3> QED
        BY <2>3, <2>4, <3>1, <3>2
    <2>6. /\ k # "head" => SourceOf(n, c.heads[1]) = b \/ b = Bytes("rep", n)
          /\ s.closeAfter /\ Len(c.heads) = 1
      BY <1>6, <2>2 DEF FrameOf, ControlOf, Live
    <2> QED
      BY <1>3, <1>5, <2>5, <2>6, WholeClient
  <1>9. CacheTyped' /\ CacheInv'
    BY <1>2, CacheKept
  <1>10. ConnOf(n, h, "ended", k, s, NoResp, c2, w)
    BY <1>7, <1>8 DEF ConnOf, LiveOf, Live, Reading
  <1> QED
    BY <1>1, <1>2, <1>3, <1>5, <1>9, <1>10, Finishes

\* finishBuffered's body, and the state and the client's view it leaves.
Finished(s) ==
    IF s.total >= 0 /\ s.total < Len(s.pending)
    THEN SubSeq(s.pending, 1, s.total) ELSE s.pending
FinishedState(s, body, keep, head) ==
    [s EXCEPT !.headerSent = TRUE, !.relayed = Len(body), !.total = Len(body),
              !.closeAfter = FALSE, !.pending = <<>>, !.cacheKey = FALSE,
              !.header = IF keep THEN head ELSE @]

\* finishBuffered writes the whole body with its length.
LEMMA BufferDoneStep ==
  ASSUME FInv, NEW r \in Reqs, BufferDone(r)
  PROVE  FInv'
  <1>1. PICK s, c, n, h, k, a, w :
          /\ s = st[r] /\ c = client[r] /\ n = length /\ h = origin /\ k = kind[r]
          /\ a = resp[r] /\ w = wrote[r]
    OBVIOUS
  <1>2. PICK body, status, head, keep, x, s2, c1, c2 :
          /\ body = Finished(s)
          /\ status = (IF a.status = "206" THEN "200" ELSE a.status)
          /\ head = Header(status, Len(body), 0)
          /\ keep = (s.cacheKey /\ status = "200" /\ Len(body) <= MaxObject)
          /\ x = [s EXCEPT !.cacheKey = keep, !.header = head, !.buf = body]
          /\ s2 = FinishedState(s, body, keep, head)
          /\ c1 = [c EXCEPT !.heads = Append(@, head), !.body = body]
          /\ c2 = [c1 EXCEPT !.reuse = ~s2.closeAfter]
    OBVIOUS
  <1>3. /\ CommitAssetCache(x) /\ Done(r, s2, c1)
        /\ Complete(s) \/ (a.body = <<>> /\ s.total < 0)
        /\ UNCHANGED <<length, origin, kind, wrote>>
    BY <1>1, <1>2 DEF BufferDone, Finished, FinishedState
  <1>4. /\ s \in ForwardStates /\ c \in Clients /\ n \in Nat /\ h \in Origins /\ a \in Responses
        /\ ConnOf(n, h, "buffer", k, s, a, c, w)
    BY <1>1, Values DEF BufferDone
  <1>5. body \in Bodies /\ Len(body) \in Nat /\ <<>> \in Bodies
    <2>1. s.pending \in Bodies /\ s.total \in Nat \cup {-1} /\ Len(s.pending) \in Nat
      BY <1>4, Fields
    <2>2. CASE s.total >= 0 /\ s.total < Len(s.pending)
      <3>1. s.total \in 0 .. Len(s.pending)
        BY <2>1, <2>2
      <3>2. SubSeq(s.pending, 1, s.total) \in Bodies
        BY <2>1, <3>1, Prefixes
      <3> QED
        BY <1>2, <2>2, <3>2, BodyOps DEF Finished
    <2>3. CASE ~(s.total >= 0 /\ s.total < Len(s.pending))
      BY <1>2, <2>1, <2>3, BodyOps DEF Finished
    <2> QED
      BY <2>2, <2>3
  <1>6. /\ status \in Statuses /\ head \in Headers /\ head.status = status
        /\ head.clen = Len(body) /\ head.from = 0
    BY <1>2, <1>4, <1>5 DEF ConnOf, Reading, Responses, Header, Headers, Statuses
  <1>7. keep \in BOOLEAN
    BY <1>2
  <1>8. x \in ForwardStates /\ x.cacheKey = keep /\ x.header = head /\ x.buf = body
    BY <1>2, <1>4, <1>5, <1>6, <1>7 DEF ForwardStates
  <1>9. s2 \in ForwardStates /\ s2.closeAfter = FALSE
    <2>1. (IF keep THEN head ELSE s.header) \in Headers \cup {None}
      BY <1>4, <1>6, Fields
    <2> QED
      BY <1>2, <1>4, <1>5, <2>1 DEF ForwardStates, FinishedState
  <1>10. /\ ControlOf("buffer", k, s, c, w) /\ ~s.headerSent /\ c.heads = <<>> /\ s.relayed = 0
    BY <1>4 DEF ConnOf, ControlOf, Live
  <1>11. /\ c1 \in Clients /\ c2 \in Clients /\ Len(c2.heads) = 1 /\ c2.heads[1] = head
         /\ c2.body = body
    <2>1. c.heads \in Seq(Headers)
      BY <1>4 DEF Clients
    <2>2. /\ Append(c.heads, head) \in Seq(Headers) /\ Len(Append(c.heads, head)) = 1
          /\ Append(c.heads, head)[1] = head
      BY <1>6, <1>10, <2>1, Heads
    <2> QED
      BY <1>2, <1>4, <1>5, <1>9, <2>2 DEF Clients
  <1>12. ControlOf("ended", k, s2, c2, w)
    BY <1>10, <1>11 DEF ControlOf, Live
  <1>13. ASSUME StableOrigin
         PROVE  /\ ClientOf(n, k, s2, c2)
                /\ keep => h = "rep" /\ head.status = "200" /\ body = Bytes("rep", n)
    <2>1. PICK g : g = Progress(s)
      OBVIOUS
    <2>2. PICK b \in Wholes(n, h, k) :
            /\ ReceivedOf(b, s, c) /\ RestOf(n, b, h, "buffer", k, s, a)
            /\ FrameOf(n, b, "buffer", k, s, c) /\ CaptureOf(n, h, "buffer", k, s, c)
      BY <1>4, <1>13 DEF ConnOf, LiveOf, Live, Reading
    <2>3. b \in Bodies /\ Len(b) \in Nat /\ g \in Nat /\ a.skip \in Nat
      BY <1>4, <2>1, WholeFacts, ProgressNat DEF Responses
    <2>4. g >= Len(b)
      <3>1. CASE Complete(s)
        BY <2>1, <2>2, <2>3, <3>1 DEF Complete, FrameOf
      <3>2. CASE a.body = <<>>
        <4>1. PICK i : i = g - a.skip + 1 /\ a.skip <= g /\ a.body = SubSeq(b, i, Len(b))
          BY <2>1, <2>2 DEF RestOf
        <4>2. i \in Nat \ {0} /\ Len(b) \in 0 .. Len(b)
          BY <2>3, <4>1
        <4>3. Len(a.body) = IF i <= Len(b) THEN Len(b) - i + 1 ELSE 0
          BY <2>3, <4>1, <4>2, SuffixLen
        <4>4. Len(a.body) = 0
          BY <3>2, BodyOps
        <4> QED
          BY <2>3, <4>1, <4>3, <4>4
      <3> QED
        BY <1>3, <3>1, <3>2
    <2>5. s.pending = b
      BY <1>4, <1>10, <2>1, <2>2, <2>3, <2>4, AllReceived DEF Received
    <2>6. body = b
      <3>1. s.total \in {-1, Len(b)}
        BY <2>2 DEF FrameOf
      <3> QED
        BY <1>2, <2>3, <2>5, <3>1 DEF Finished
    <2>7. k # "head" => \/ SourceOf(n, head) = b
                        \/ k = "range" /\ b = RepFrom(n, RangeFrom)
      <3>1. ASSUME k # "head" PROVE Bears(n, k, b, a)
        BY <2>2, <3>1 DEF RestOf
      <3>2. SourceOf(n, head) =
              IF status = "200" THEN Bytes("rep", n)
              ELSE IF status = "err" THEN Bytes("err", ErrLen) ELSE <<>>
        BY <1>2, <1>4, <1>6, Sources DEF SourceOf
      <3> QED
        BY <1>2, <3>1, <3>2 DEF Bears
    <2>8. ClientOf(n, k, s2, c2)
      BY <1>4, <1>6, <1>11, <2>6, <2>7, WholeClient
    <2>9. keep => h = "rep" /\ head.status = "200" /\ body = Bytes("rep", n)
      <3> SUFFICES ASSUME keep
                   PROVE  h = "rep" /\ head.status = "200" /\ body = Bytes("rep", n)
        OBVIOUS
      <3>1. k = "asset" /\ status = "200"
        BY <1>2, <2>2 DEF CaptureOf
      <3>2. h = "rep"
        BY <1>2, <1>4, <2>2, <3>1 DEF RestOf, Good, Origins
      <3> QED
        BY <1>4, <1>6, <2>6, <3>1, <3>2, WholeFacts
    <2> QED
      BY <2>8, <2>9
  <1>14. CacheTyped' /\ CacheInv'
    BY <1>1, <1>3, <1>6, <1>8, <1>13, Commits
  <1>15. ConnOf(n, h, "ended", k, s2, NoResp, c2, w)
    BY <1>12, <1>13 DEF ConnOf, LiveOf, Live, Reading
  <1> QED
    BY <1>1, <1>2, <1>3, <1>9, <1>11, <1>14, <1>15, Finishes

-----------------------------------------------------------------------------
(***************************************************************************)
(* The first bytes of a response.                                          *)
(***************************************************************************)
\* The answers of an origin (n and h as before) to an attempt in state s.
AnswerOf(n, h, s, k, a) ==
    \/ /\ a.status = "200" /\ a.from = 0
       /\ StableOrigin => h = "rep"
       /\ a.body = IF k = "head" THEN <<>> ELSE Bytes("rep", n)
       /\ a.clen \in {-1, n}
    \/ /\ a.status = "206"
       /\ StableOrigin => h = "rep"
       /\ k = "range" \/ Resuming(s)
       /\ k # "range" /\ a.from = Offset(s) => a.body = RepFrom(n, Offset(s))
       /\ k = "range" /\ ~Resuming(s) =>
            /\ a.from = RangeFrom /\ a.body = RepFrom(n, RangeFrom)
            /\ RangeFrom < n /\ a.clen \in {-1, n - RangeFrom}
       /\ a.total \in {-1, n}
    \/ /\ a.status = "err" /\ a.from = 0
       /\ StableOrigin => h = "err" \/ Resuming(s) \/ k = "range"
       /\ a.body = IF k = "head" THEN <<>> ELSE Bytes("err", ErrLen)
       /\ a.clen \in {-1, ErrLen}
    \/ /\ a.status = "empty" /\ a.from = 0
       /\ StableOrigin => h = "empty"
       /\ a.body = <<>> /\ a.clen = 0

\* The answers of the model are the ones above.
LEMMA Answered ==
  ASSUME TypeOK, NEW s \in ForwardStates, NEW k, NEW a \in Answers(s, k)
  PROVE  a \in Responses /\ AnswerOf(length, origin, s, k, a)
  <1> DEFINE Body(b) == IF k = "head" THEN <<>> ELSE b
             Full(status, b) ==
               {[status |-> status, from |-> 0, body |-> Body(b), clen |-> n,
                 total |-> -1, skip |-> 0] : n \in {-1, Len(b)}}
             Part(from) ==
               {[status |-> "206", from |-> from,
                 body |-> SubSeq(Representation, from + 1, length),
                 clen |-> n, total |-> m, skip |-> 0] :
                     n \in {-1, length - from}, m \in {-1, length}}
             Bare == [status |-> "empty", from |-> 0, body |-> <<>>, clen |-> 0,
                      total |-> -1, skip |-> 0]
             start == RangeStart(s, k)
             Gives(x) == StableOrigin => origin = x
  <1>0. /\ length \in Nat /\ ErrLen \in Nat /\ RangeFrom \in Nat \ {0}
        /\ Representation \in Bodies /\ Len(Representation) = length
        /\ Bytes("err", ErrLen) \in Bodies /\ Len(Bytes("err", ErrLen)) = ErrLen
        /\ <<>> \in Bodies
    BY BodyOps, ForwardAssumption DEF TypeOK, Representation
  <1>1. Offset(s) \in Nat /\ start \in Nat /\ start = IF k = "range" THEN RangeFrom ELSE Offset(s)
    BY <1>0, ProgressNat DEF RangeStart
  <1>2. \/ Gives("rep") /\ a \in Full("200", Representation)
        \/ /\ Gives("rep") /\ start > 0 /\ ~(start >= length)
           /\ \/ a \in Part(start)
              \/ Resuming(s) /\ a \in Part(start - 1)
        \/ Gives("err") /\ a \in Full("err", Bytes("err", ErrLen))
        \/ start > 0 /\ a \in Full("err", Bytes("err", ErrLen))
        \/ Gives("empty") /\ a = Bare
    <2>1. Resuming(s) => start > 0
      BY <1>0, <1>1 DEF Resuming
    <2> QED
      BY <2>1 DEF Answers
  <1>3. CASE Gives("rep") /\ a \in Full("200", Representation)
    <2>1. PICK n \in {-1, length} :
            a = [status |-> "200", from |-> 0, body |-> Body(Representation), clen |-> n,
                 total |-> -1, skip |-> 0]
      BY <1>0, <1>3
    <2>2. Body(Representation) \in Bodies
      BY <1>0
    <2> QED
      BY <1>0, <1>3, <2>1, <2>2 DEF Responses, Statuses, AnswerOf, Representation
  <1>4. CASE /\ Gives("rep") /\ start > 0 /\ ~(start >= length)
             /\ \/ a \in Part(start)
                \/ Resuming(s) /\ a \in Part(start - 1)
    <2>1. PICK from \in {start, start - 1} :
            a \in Part(from) /\ (from = start \/ Resuming(s))
      BY <1>4
    <2>2. PICK n \in {-1, length - from}, m \in {-1, length} :
            a = [status |-> "206", from |-> from,
                 body |-> SubSeq(Representation, from + 1, length),
                 clen |-> n, total |-> m, skip |-> 0]
      BY <2>1
    <2>3. from \in Nat /\ n \in Int
      BY <1>0, <1>1, <1>4
    <2>4. SubSeq(Representation, from + 1, length) \in Bodies
      BY <1>0, <2>3, BodyOps
    <2>5. m \in Int
      BY <1>0
    <2>6. a \in Responses
      BY <2>2, <2>3, <2>4, <2>5, Zenon DEF Responses, Statuses
    <2>7. /\ a.status = "206" /\ a.total \in {-1, length} /\ a.from = from
          /\ a.body = RepFrom(length, from) /\ a.clen \in {-1, length - from}
      BY <2>2, <2>3 DEF RepFrom, Representation
    <2>8. k = "range" \/ Resuming(s)
      BY <1>1, <1>4 DEF Resuming
    <2>9. k = "range" /\ ~Resuming(s) =>
            a.from = RangeFrom /\ a.body = RepFrom(length, RangeFrom) /\ RangeFrom < length
            /\ a.clen \in {-1, length - RangeFrom}
      BY <1>0, <1>1, <1>4, <2>1, <2>7
    <2> QED
      BY <1>4, <2>6, <2>7, <2>8, <2>9 DEF AnswerOf
  <1>5. CASE /\ Gives("err") \/ start > 0
             /\ a \in Full("err", Bytes("err", ErrLen))
    <2>1. PICK n \in {-1, ErrLen} :
            a = [status |-> "err", from |-> 0, body |-> Body(Bytes("err", ErrLen)), clen |-> n,
                 total |-> -1, skip |-> 0]
      BY <1>0, <1>5
    <2>2. Body(Bytes("err", ErrLen)) \in Bodies
      BY <1>0
    <2>3. Gives("err") \/ Resuming(s) \/ k = "range"
      BY <1>1, <1>5 DEF Resuming
    <2> QED
      BY <1>0, <2>1, <2>2, <2>3 DEF Responses, Statuses, AnswerOf
  <1>6. CASE Gives("empty") /\ a = Bare
    BY <1>0, <1>6 DEF Responses, Statuses, AnswerOf
  <1> HIDE DEF Full, Part, Bare, start
  <1> QED
    BY <1>2, <1>3, <1>4, <1>5, <1>6

TotalFor(k, s, a) ==
    IF s.headerSent \/ Resuming(s) THEN LearnTotal(s, a)
    ELSE IF k = "head" \/ a.status = "empty" THEN 0 ELSE a.clen

\* The total learnt from an answer is a length, or unknown.
LEMMA TotalTyped ==
  ASSUME NEW n \in Nat, NEW h, NEW k, NEW s \in ForwardStates, NEW a, AnswerOf(n, h, s, k, a)
  PROVE  TotalFor(k, s, a) \in Nat \cup {-1}
  <1>1. s.total \in Nat \cup {-1} /\ ErrLen \in Nat /\ RangeFrom \in Nat
    BY Fields, ForwardAssumption
  <1>2. RangeFrom < n => n - RangeFrom \in Nat
    BY <1>1
  <1> QED
    BY <1>1, <1>2 DEF AnswerOf, TotalFor, LearnTotal

\* The response a continues what was received of b, after the bytes to skip,
\* and teaches no total but the right one.
Fits(n, h, k, s, c, a, b) ==
    /\ ReceivedOf(b, s, c)
    /\ FrameOf(n, b, "attempt", k, s, c)
    /\ k # "range" => a.status \in Good(h)
    /\ k # "head" => Bears(n, k, b, a)
    /\ Skip(s, a) <= Progress(s)
    /\ a.body = SubSeq(b, Progress(s) - Skip(s, a) + 1, Len(b))
    /\ TotalFor(k, s, a) \in {-1, Len(b)}
    /\ s.headerSent => TotalFor(k, s, a) = s.total

\* The response to a range of the caller's own is the only one, and bears what
\* it bears.
LEMMA RangeFits ==
  ASSUME StableOrigin, NEW n \in Nat, NEW h \in Origins, NEW s \in ForwardStates,
         NEW x, NEW c \in Clients, NEW w, NEW a \in Responses,
         ConnOf(n, h, "attempt", "range", s, x, c, w), AnswerOf(n, h, s, "range", a)
  PROVE  \E b \in Wholes(n, h, "range") : Fits(n, h, "range", s, c, a, b)
  <1>1. /\ ~s.headerSent /\ s.pending = <<>> /\ s.total = -1 /\ s.relayed = 0
        /\ ~s.closeAfter
    BY DEF ConnOf, ControlOf, LiveOf, FrameOf, Live
  <1>2. Progress(s) = 0 /\ Offset(s) = 0 /\ Len(<<>>) = 0 /\ ~Resuming(s)
    BY <1>1, BodyOps DEF Progress, Offset, Resuming
  <1>3. PICK b : b = IF a.status = "200" THEN Bytes("rep", n)
                     ELSE IF a.status = "206" THEN RepFrom(n, RangeFrom)
                     ELSE IF a.status = "err" THEN Bytes("err", ErrLen) ELSE <<>>
    OBVIOUS
  <1>4. b \in Wholes(n, h, "range")
    BY <1>3 DEF Wholes
  <1>5. b \in Bodies /\ Len(b) \in Nat /\ SubSeq(b, 1, 0) = <<>> /\ SubSeq(b, 1, Len(b)) = b
    BY <1>4, WholeFacts, Prefixes
  <1>6. a.body = b /\ Bears(n, "range", b, a)
    BY <1>2, <1>3 DEF AnswerOf, Bears
  <1>7. a.clen \in {-1, Len(b)} /\ (a.status = "empty" => Len(b) = 0)
    <2>1. Len(Bytes("rep", n)) = n /\ Len(Bytes("err", ErrLen)) = ErrLen
      BY BodyOps, ForwardAssumption
    <2>2. RangeFrom < n => Len(RepFrom(n, RangeFrom)) = n - RangeFrom
      BY Sources, ForwardAssumption
    <2> QED
      BY <1>2, <1>3, <2>1, <2>2 DEF AnswerOf
  <1>8. TotalFor("range", s, a) \in {-1, Len(b)}
    BY <1>1, <1>2, <1>7 DEF TotalFor
  <1>9. Skip(s, a) = 0 /\ 0 - 0 + 1 = 1
    BY <1>2 DEF Skip
  <1>10. ReceivedOf(b, s, c)
    BY <1>1, <1>2, <1>5 DEF ReceivedOf, Received
  <1>11. FrameOf(n, b, "attempt", "range", s, c)
    BY <1>1 DEF FrameOf
  <1>12. Fits(n, h, "range", s, c, a, b)
    BY <1>1, <1>2, <1>5, <1>6, <1>8, <1>9, <1>10, <1>11 DEF Fits
  <1> QED
    BY <1>4, <1>12

\* An answer that is not refused fits what was received.
LEMMA AnswerFits ==
  ASSUME StableOrigin, NEW n \in Nat, NEW h \in Origins, NEW k, NEW s \in ForwardStates,
         NEW x, NEW c \in Clients, NEW w, NEW a \in Responses,
         ConnOf(n, h, "attempt", k, s, x, c, w), AnswerOf(n, h, s, k, a), ~Unspliceable(s, a)
  PROVE  \E b \in Wholes(n, h, k) : Fits(n, h, k, s, c, a, b)
  <1>0. CASE k = "range"
    BY <1>0, RangeFits
  <1>a. CASE k # "range"
    <2>0. PICK g, t : g = Progress(s) /\ t = s.total
      OBVIOUS
    <2>1. PICK b \in Wholes(n, h, k) :
            /\ ReceivedOf(b, s, c) /\ FrameOf(n, b, "attempt", k, s, c)
            /\ s.headerSent => s.pending = <<>>
            /\ ~s.headerSent => s.relayed = 0
      BY DEF ConnOf, ControlOf, LiveOf, Live
    <2>2. Offset(s) = g /\ g \in Nat
      <3>1. Len(<<>>) = 0
        BY BodyOps
      <3> QED
        BY <2>0, <2>1, <3>1, Fields DEF Offset, Progress
    <2>3. /\ b \in Bodies /\ Len(b) \in Nat /\ g <= Len(b) /\ SubSeq(b, 1, Len(b)) = b
          /\ ErrLen \in Nat /\ Len(<<>>) = 0
      BY <2>0, <2>1, WholeFacts, Prefixes, BodyOps, ForwardAssumption DEF ReceivedOf
    <2>4. b = IF k = "head" THEN <<>> ELSE IF h = "rep" THEN Bytes("rep", n)
              ELSE IF h = "err" THEN Bytes("err", ErrLen) ELSE <<>>
      BY <1>a, WholeFacts
    <2>5. Len(b) = IF k = "head" THEN 0 ELSE IF h = "rep" THEN n
                   ELSE IF h = "err" THEN ErrLen ELSE 0
      BY <2>3, <2>4, BodyOps
    <2>6. /\ t \in {-1, Len(b)} /\ (s.headerSent => t >= 0)
      BY <2>0, <2>1 DEF FrameOf
    <2> DEFINE Goal == /\ a.status \in Good(h)
                       /\ k # "head" => Bears(n, k, b, a)
                       /\ Skip(s, a) <= g
                       /\ a.body = SubSeq(b, g - Skip(s, a) + 1, Len(b))
                       /\ TotalFor(k, s, a) \in {-1, Len(b)}
                       /\ s.headerSent => TotalFor(k, s, a) = s.total
    <2>7. ASSUME a.status = "200" PROVE Goal
      <3>1. h = "rep" /\ a.body = b /\ a.clen \in {-1, n} /\ a.from = 0
        BY <2>4, <2>7 DEF AnswerOf
      <3>2. Skip(s, a) = g
        BY <2>2, <2>7 DEF Skip
      <3>3. TotalFor(k, s, a) \in {-1, Len(b)} /\ (s.headerSent => TotalFor(k, s, a) = s.total)
        BY <2>0, <2>5, <2>6, <2>7, <3>1 DEF TotalFor, LearnTotal
      <3>4. g - g + 1 = 1 /\ g <= g
        BY <2>2
      <3>5. k # "head" => Bears(n, k, b, a)
        BY <2>4, <2>7, <3>1 DEF Bears
      <3> QED
        BY <2>3, <2>7, <3>1, <3>2, <3>3, <3>4, <3>5 DEF Good
    <2>8. ASSUME a.status = "206" PROVE Goal
      <3>1. /\ h = "rep" /\ Resuming(s) /\ a.total \in {-1, n}
            /\ a.body = RepFrom(n, Offset(s))
        BY <1>a, <2>8 DEF AnswerOf, Unspliceable
      <3>2. g > 0 /\ k # "head"
        BY <2>2, <2>3, <2>5, <3>1 DEF Resuming
      <3>3. b = Bytes("rep", n) /\ Len(b) = n
        BY <2>4, <2>5, <3>1, <3>2
      <3>4. Skip(s, a) = 0 /\ g - 0 + 1 = g + 1 /\ 0 <= g
        BY <2>2, <2>8 DEF Skip
      <3>5. TotalFor(k, s, a) \in {-1, Len(b)} /\ (s.headerSent => TotalFor(k, s, a) = s.total)
        <4>1. a.total \in {-1, Len(b)} /\ Resuming(s) /\ (s.headerSent => ~(t < 0))
          <5>1. s.headerSent => ~(t < 0)
            <6>1. Len(b) \in Nat
              BY <2>3
            <6> QED
              BY <2>6, <6>1
          <5> QED
            BY <3>1, <3>3, <5>1
        <4>2. TotalFor(k, s, a) = IF t < 0 THEN a.total ELSE t
          BY <2>0, <2>8, <4>1 DEF TotalFor, LearnTotal
        <4> QED
          BY <2>0, <2>6, <4>1, <4>2
      <3>6. Bears(n, k, b, a)
        BY <1>a, <2>8, <3>3 DEF Bears
      <3> QED
        BY <2>2, <2>8, <3>1, <3>3, <3>4, <3>5, <3>6 DEF Good, RepFrom
    <2>9. ASSUME a.status \in {"err", "empty"} PROVE Goal
      <3>1. /\ ~Resuming(s) /\ h = a.status /\ a.body = b
            /\ a.status = "err" => a.clen \in {-1, ErrLen}
        BY <1>a, <2>4, <2>9 DEF AnswerOf, Unspliceable
      <3>2. g = 0
        BY <2>2, <3>1 DEF Resuming
      <3>3. Skip(s, a) = 0 /\ 0 - 0 + 1 = 1 /\ 0 <= 0
        BY <2>9 DEF Skip
      <3>4. TotalFor(k, s, a) \in {-1, Len(b)} /\ (s.headerSent => TotalFor(k, s, a) = s.total)
        BY <2>0, <2>5, <2>6, <2>9, <3>1 DEF TotalFor, LearnTotal
      <3>5. k # "head" => Bears(n, k, b, a)
        BY <2>4, <2>9, <3>1 DEF Bears
      <3> QED
        BY <2>3, <2>9, <3>1, <3>2, <3>3, <3>4, <3>5 DEF Good
    <2>10. Goal
      BY <2>7, <2>8, <2>9 DEF AnswerOf
    <2>11. Fits(n, h, k, s, c, a, b)
      BY <2>0, <2>1, <2>10 DEF Fits
    <2> QED
      BY <2>11
  <1> QED
    BY <1>0, <1>a

\* Then the response, with the bytes to skip, is what is left of the body.
LEMMA FitsRest ==
  ASSUME NEW n, NEW h, NEW k, NEW s, NEW c, NEW a \in Responses, NEW b,
         Fits(n, h, k, s, c, a, b), NEW p, p # "overflow",
         NEW d, d = [a EXCEPT !.skip = Skip(s, a)]
  PROVE  RestOf(n, b, h, p, k, s, d)
  <1>1. d.status = a.status /\ d.body = a.body /\ d.skip = Skip(s, a) /\ d.from = a.from
    BY DEF Responses
  <1> QED
    BY <1>1 DEF Fits, RestOf, Bears

\* The response goes on where the last one stopped: relayed or buffered.
LEMMA Continues ==
  ASSUME NEW n \in Nat, NEW h \in Origins, NEW k, NEW s \in ForwardStates, NEW x,
         NEW c \in Clients, NEW w, NEW w2, NEW a \in Responses,
         ConnOf(n, h, "attempt", k, s, x, c, w), AnswerOf(n, h, s, k, a), ~Unspliceable(s, a),
         k \in Once => w2 <= 1, NEW p, p = IF s.headerSent THEN "relay" ELSE "buffer"
  PROVE  LET s2 == [s EXCEPT !.total = TotalFor(k, s, a)]
             a2 == [a EXCEPT !.skip = Skip(s, a)]
         IN  /\ s2 \in ForwardStates /\ a2 \in Responses
             /\ ConnOf(n, h, p, k, s2, a2, c, w2)
  <1>1. PICK s2, a2, t : /\ t = TotalFor(k, s, a) /\ s2 = [s EXCEPT !.total = t]
                         /\ a2 = [a EXCEPT !.skip = Skip(s, a)]
    OBVIOUS
  <1>2. t \in Nat \cup {-1} /\ Skip(s, a) \in Nat
    BY <1>1, TotalTyped, ProgressNat DEF Skip
  <1>3. /\ s2 \in ForwardStates /\ s2.headerSent = s.headerSent /\ s2.relayed = s.relayed
        /\ s2.total = t /\ s2.closeAfter = s.closeAfter /\ s2.pending = s.pending
        /\ s2.cacheKey = s.cacheKey /\ s2.header = s.header /\ s2.buf = s.buf
    BY <1>1, <1>2 DEF ForwardStates
  <1>4. /\ a2 \in Responses /\ a2.status = a.status /\ a2.body = a.body
        /\ a2.skip = Skip(s, a)
    BY <1>1, <1>2 DEF Responses
  <1>5. ControlOf(p, k, s2, c, w2)
    BY <1>3 DEF ConnOf, ControlOf, Live
  <1>6. a2.status # "none"
    BY <1>4 DEF AnswerOf
  <1>7. ASSUME StableOrigin PROVE LiveOf(n, h, p, k, s2, a2, c) /\ ClientOf(n, k, s2, c)
    <2>1. PICK b \in Wholes(n, h, k) : Fits(n, h, k, s, c, a, b)
      BY <1>7, AnswerFits
    <2>2. CaptureOf(n, h, "attempt", k, s, c) /\ ClientOf(n, k, s, c)
      BY <1>7 DEF ConnOf, LiveOf, Live
    <2>3. /\ ReceivedOf(b, s, c) /\ FrameOf(n, b, "attempt", k, s, c)
          /\ t \in {-1, Len(b)} /\ (s.headerSent => t = s.total)
      BY <1>1, <2>1 DEF Fits
    <2>4. Progress(s2) = Progress(s)
      BY <1>3 DEF Progress
    <2>5. ReceivedOf(b, s2, c)
      BY <1>3, <2>3, <2>4 DEF ReceivedOf, Received
    <2>6. RestOf(n, b, h, p, k, s2, a2)
      <3>1. RestOf(n, b, h, p, k, s, a2)
        BY <1>1, <2>1, FitsRest
      <3> QED
        BY <2>4, <3>1 DEF RestOf
    <2>7. FrameOf(n, b, p, k, s2, c)
      BY <1>3, <2>3 DEF FrameOf
    <2>8. CaptureOf(n, h, p, k, s2, c)
      BY <1>3, <2>2 DEF CaptureOf
    <2>9. ClientOf(n, k, s2, c)
      BY <1>3, <2>2 DEF ClientOf
    <2> QED
      BY <2>5, <2>6, <2>7, <2>8, <2>9 DEF LiveOf
  <1> QED
    BY <1>1, <1>3, <1>4, <1>5, <1>6, <1>7 DEF ConnOf

\* The first response of a known length: its header is written.
LEMMA HeaderWritten ==
  ASSUME NEW n \in Nat, NEW h \in Origins, NEW k, NEW s \in ForwardStates, NEW x,
         NEW c \in Clients, NEW w, NEW w2, NEW a \in Responses,
         ConnOf(n, h, "attempt", k, s, x, c, w), AnswerOf(n, h, s, k, a),
         k \in Once => w2 <= 1,
         ~s.headerSent, ~Resuming(s), TotalFor(k, s, a) >= 0
  PROVE  LET s2 == WithHeader([s EXCEPT !.total = TotalFor(k, s, a)], a)
             a2 == [a EXCEPT !.skip = Skip(s, a)]
             c2 == [c EXCEPT !.heads = Append(@, Header(a.status, a.clen, a.from))]
         IN  /\ s2 \in ForwardStates /\ a2 \in Responses /\ c2 \in Clients
             /\ ConnOf(n, h, "relay", k, s2, a2, c2, w2)
  <1>0. PICK t, s1, hd : /\ t = TotalFor(k, s, a) /\ s1 = [s EXCEPT !.total = t]
                         /\ hd = Header(a.status, a.clen, a.from)
    OBVIOUS
  <1>0a. PICK s2, a2, c2 : /\ s2 = WithHeader(s1, a)
                          /\ a2 = [a EXCEPT !.skip = Skip(s, a)]
                          /\ c2 = [c EXCEPT !.heads = Append(@, hd)]
    OBVIOUS
  <1>1. /\ t = TotalFor(k, s, a) /\ s1 = [s EXCEPT !.total = t]
        /\ s2 = WithHeader(s1, a) /\ hd = Header(a.status, a.clen, a.from)
        /\ a2 = [a EXCEPT !.skip = Skip(s, a)]
        /\ c2 = [c EXCEPT !.heads = Append(@, hd)]
    BY <1>0, <1>0a, Zenon
  <1>2. t \in Nat \cup {-1} /\ t >= 0 /\ Skip(s, a) \in Nat
    BY <1>1, TotalTyped, ProgressNat DEF Skip
  <1>3. /\ a2 \in Responses /\ a2.status = a.status /\ a2.body = a.body
        /\ a2.skip = Skip(s, a)
    BY <1>1, <1>2 DEF Responses
  <1>4. hd \in Headers /\ hd.status = a.status /\ hd.clen = a.clen /\ hd.from = a.from
    BY <1>1 DEF AnswerOf, Header, Headers, Responses, Statuses
  <1>5. /\ s1 \in ForwardStates /\ s1.relayed = s.relayed
        /\ s1.total = t /\ s1.pending = s.pending
        /\ s1.cacheKey = s.cacheKey /\ s1.header = s.header /\ s1.buf = s.buf
    BY <1>1, <1>2 DEF ForwardStates
  <1>6. /\ s2 \in ForwardStates /\ s2.headerSent /\ s2.relayed = s.relayed
        /\ s2.total = t /\ ~s2.closeAfter /\ s2.pending = s.pending /\ s2.buf = s.buf
        /\ s2.cacheKey => s.cacheKey /\ a.status = "200" /\ s2.header = hd
    <2>1. PICK cap : cap = (s1.cacheKey /\ a.status = "200" /\ s1.total <= MaxObject)
      OBVIOUS
    <2>2. cap \in BOOLEAN /\ (IF cap THEN hd ELSE s1.header) \in Headers \cup {None}
      BY <1>4, <1>5, <2>1, Fields
    <2>3. s2 = [s1 EXCEPT !.headerSent = TRUE, !.closeAfter = FALSE, !.cacheKey = cap,
                          !.header = IF cap THEN hd ELSE s1.header]
      BY <1>1, <2>1 DEF WithHeader
    <2>4. s2 \in ForwardStates
      BY <1>5, <2>2, <2>3 DEF ForwardStates
    <2>5. /\ s2.headerSent /\ s2.relayed = s1.relayed /\ s2.total = s1.total
          /\ ~s2.closeAfter /\ s2.pending = s1.pending /\ s2.buf = s1.buf
          /\ s2.cacheKey = cap /\ s2.header = IF cap THEN hd ELSE s1.header
      BY <1>5, <2>3 DEF ForwardStates
    <2> QED
      BY <1>5, <2>1, <2>4, <2>5
  <1>7. /\ ControlOf("attempt", k, s, c, w) /\ c.heads = <<>> /\ c.body = <<>> /\ s.relayed = 0
        /\ ~c.reuse
    BY DEF ConnOf, ControlOf, Live
  <1>8. s.pending = <<>>
    <2>1. s.pending \in Bodies /\ Len(s.pending) \in Nat
      BY Fields
    <2>2. Len(s.pending) = 0
      BY <2>1 DEF Resuming, Offset
    <2> QED
      BY <2>1, <2>2, BodyOps
  <1>9. c2 \in Clients /\ Len(c2.heads) = 1 /\ c2.heads[1] = hd /\ c2.body = <<>> /\ ~c2.reuse
    <2>1. c.heads \in Seq(Headers)
      BY DEF Clients
    <2>2. /\ Append(c.heads, hd) \in Seq(Headers) /\ Len(Append(c.heads, hd)) = 1
          /\ Append(c.heads, hd)[1] = hd
      BY <1>4, <1>7, <2>1, Heads
    <2> QED
      BY <1>1, <1>7, <2>2 DEF Clients
  <1>10. ControlOf("relay", k, s2, c2, w2)
    BY <1>6, <1>8, <1>9 DEF ControlOf
  <1>11. ASSUME StableOrigin
         PROVE  LiveOf(n, h, "relay", k, s2, a2, c2) /\ ClientOf(n, k, s2, c2)
    <2>1. PICK b \in Wholes(n, h, k) : Fits(n, h, k, s, c, a, b)
      <3>1. ~Unspliceable(s, a)
        BY DEF Unspliceable
      <3> QED
        BY <1>11, <3>1, AnswerFits
    <2>2. CaptureOf(n, h, "attempt", k, s, c)
      BY <1>11 DEF ConnOf, LiveOf, Live
    <2>3. /\ ReceivedOf(b, s, c) /\ t \in {-1, Len(b)}
          /\ k # "range" => a.status \in Good(h)
          /\ k # "head" => Bears(n, k, b, a)
      BY <1>1, <2>1 DEF Fits
    <2>4. t = Len(b) /\ (k # "head" => a.clen = Len(b)) /\ Len(b) \in Nat
      <3>1. Len(b) \in Nat
        BY WholeFacts
      <3>2. k # "head" => a.clen = t
        BY <1>1 DEF TotalFor, AnswerOf
      <3> QED
        BY <1>2, <2>3, <3>1, <3>2
    <2>5. Progress(s2) = Progress(s)
      BY <1>6 DEF Progress
    <2>6. ReceivedOf(b, s2, c2)
      BY <1>6, <1>8, <1>9, <2>3, <2>5 DEF ReceivedOf, Received
    <2>7. RestOf(n, b, h, "relay", k, s2, a2)
      <3>1. RestOf(n, b, h, "relay", k, s, a2)
        BY <1>1, <2>1, FitsRest
      <3> QED
        BY <2>5, <3>1 DEF RestOf
    <2>8. FrameOf(n, b, "relay", k, s2, c2)
      <3>1. k # "head" => SourceOf(n, hd) = b
        <4>1. a.status = "206" => k = "range"
          BY DEF AnswerOf
        <4> QED
          BY <1>4, <2>3, <4>1, Announces
      <3> QED
        BY <1>4, <1>6, <1>9, <2>4, <3>1 DEF FrameOf
    <2>9. CaptureOf(n, h, "relay", k, s2, c2)
      <3>1. SUFFICES ASSUME s2.cacheKey
                     PROVE  /\ k = "asset" /\ h = "rep" /\ s2.header = Header("200", n, 0)
                            /\ s2.buf = c2.body
        BY <1>6 DEF CaptureOf
      <3>2. k = "asset" /\ s.buf = <<>>
        BY <1>6, <2>2, <3>1 DEF CaptureOf
      <3>3. a.status = "200" /\ h = "rep" /\ a.from = 0
        BY <1>6, <1>11, <3>1 DEF AnswerOf
      <3>4. a.clen = n
        <4>1. b = Bytes("rep", n)
          BY <3>2, <3>3, WholeFacts
        <4> QED
          BY <2>4, <3>2, <4>1, BodyOps
      <3> QED
        BY <1>1, <1>6, <1>9, <3>1, <3>2, <3>3, <3>4
    <2>10. ClientOf(n, k, s2, c2)
      BY <1>6, <1>9, <2>6, <2>8, SentClient
    <2> QED
      BY <2>6, <2>7, <2>8, <2>9, <2>10 DEF LiveOf
  <1>12. a2.status # "none"
    BY <1>3 DEF AnswerOf
  <1> QED
    BY <1>1, <1>3, <1>6, <1>9, <1>10, <1>11, <1>12 DEF ConnOf

\* The response header is read.
LEMMA RespondStep ==
  ASSUME FInv, NEW r \in Reqs, Respond(r)
  PROVE  FInv'
  <1>1. /\ pc[r] = "attempt" /\ pc[r] \in Live /\ UNCHANGED <<length, origin, kind>>
        /\ wrote' = [wrote EXCEPT ![r] = OnceMore(wrote[r])]
    BY DEF Respond, Live
  <1>2. PICK a \in Answers(st[r], kind[r]) :
          LET s == [st[r] EXCEPT !.total = TotalOf(r, st[r], a)]
          IN \/ Abort(r) /\ UNCHANGED client
             \/ /\ ~Unspliceable(st[r], a)
                /\ resp' = [resp EXCEPT ![r] = [a EXCEPT !.skip = Skip(st[r], a)]]
                /\ \/ /\ s.headerSent
                      /\ st' = [st EXCEPT ![r] = s]
                      /\ Goto(r, "relay")
                      /\ UNCHANGED client
                   \/ /\ ~s.headerSent
                      /\ st' = [st EXCEPT ![r] = s]
                      /\ Goto(r, "buffer")
                      /\ UNCHANGED client
                   \/ /\ ~s.headerSent /\ s.total >= 0 /\ ~Resuming(s)
                      /\ st' = [st EXCEPT ![r] = WithHeader(s, a)]
                      /\ client' = [client EXCEPT ![r].heads =
                                       Append(@, Header(a.status, a.clen, a.from))]
                      /\ Goto(r, "relay")
                /\ UNCHANGED <<loop, store>>
    BY DEF Respond
  <1>3. PICK s, c, k, w, x, t, s1, a2 :
          /\ s = st[r] /\ c = client[r] /\ k = kind[r] /\ w = OnceMore(wrote[r]) /\ x = resp[r]
          /\ t = TotalFor(k, s, a) /\ s1 = [s EXCEPT !.total = t]
          /\ a2 = [a EXCEPT !.skip = Skip(s, a)]
    OBVIOUS
  <1>4. /\ s \in ForwardStates /\ c \in Clients /\ k \in Kinds /\ length \in Nat
        /\ origin \in Origins
        /\ ConnOf(length, origin, "attempt", k, s, x, c, wrote[r])
    BY <1>1, <1>3, Values
  <1>5. w \in 0 .. 2 /\ (k \in Once => w <= 1)
    BY <1>1, <1>3, Written
  <1>6. a \in Responses /\ AnswerOf(length, origin, s, k, a)
    BY <1>3, <1>4, Answered DEF FInv
  <1>7. TotalOf(r, st[r], a) = t
    BY <1>3 DEF TotalOf, TotalFor
  <1>8. t \in Nat \cup {-1}
    BY <1>3, <1>4, <1>6, TotalTyped
  <1>9. s1.headerSent = s.headerSent /\ s1.total = t /\ Resuming(s1) = Resuming(s)
    BY <1>3, <1>4, <1>8 DEF ForwardStates, Resuming, Offset
  <1>10. /\ wrote' = [wrote EXCEPT ![r] = w] /\ kind' = [kind EXCEPT ![r] = k]
         /\ {"relay", "buffer"} \subseteq Places
    BY <1>1, <1>3, Unmoved DEF Places
  <1>11. CASE Abort(r) /\ UNCHANGED client
    BY <1>1, <1>3, <1>5, <1>10, <1>11, Aborted
  <1>12. ASSUME UNCHANGED <<loop, store>>
         PROVE  /\ attempt' \in [Reqs -> 0 .. MaxAttempts - 1]
                /\ zero' \in [Reqs -> 0 .. ResumeAttempts - 1]
                /\ before' \in [Reqs -> Nat]
                /\ CacheTyped' /\ CacheInv' /\ UNCHANGED <<length, origin>>
    BY <1>1, <1>12, Unmoved, CacheKept DEF loop, store
  <1>13. ASSUME ~Unspliceable(s, a), resp' = [resp EXCEPT ![r] = a2], UNCHANGED <<loop, store>>,
                NEW p, p = IF s.headerSent THEN "relay" ELSE "buffer",
                st' = [st EXCEPT ![r] = s1], Goto(r, p), UNCHANGED client
         PROVE  FInv'
    <2>1. /\ s1 \in ForwardStates /\ a2 \in Responses
          /\ ConnOf(length, origin, p, k, s1, a2, c, w)
      BY <1>3, <1>4, <1>5, <1>6, <1>13, Continues
    <2>2. pc' = [pc EXCEPT ![r] = p] /\ p \in Places
      BY <1>10, <1>13 DEF Goto
    <2>3. client' = [client EXCEPT ![r] = c]
      BY <1>3, <1>13, Unmoved
    <2> QED
      BY <1>4, <1>5, <1>10, <1>12, <1>13, <2>1, <2>2, <2>3, LocalStep
  <1>14. ASSUME ~s.headerSent, t >= 0, ~Resuming(s), resp' = [resp EXCEPT ![r] = a2],
                st' = [st EXCEPT ![r] = WithHeader(s1, a)], Goto(r, "relay"),
                client' = [client EXCEPT ![r].heads = Append(@, Header(a.status, a.clen, a.from))],
                UNCHANGED <<loop, store>>
         PROVE  FInv'
    <2>1. PICK s2, c2, hd : /\ s2 = WithHeader(s1, a) /\ hd = Header(a.status, a.clen, a.from)
                            /\ c2 = [c EXCEPT !.heads = Append(@, hd)]
      OBVIOUS
    <2>2. /\ s2 \in ForwardStates /\ a2 \in Responses /\ c2 \in Clients
          /\ ConnOf(length, origin, "relay", k, s2, a2, c2, w)
      BY <1>3, <1>4, <1>5, <1>6, <1>14, <2>1, HeaderWritten
    <2>3. /\ st' = [st EXCEPT ![r] = s2] /\ pc' = [pc EXCEPT ![r] = "relay"] /\ "relay" \in Places
      BY <1>10, <1>14, <2>1 DEF Goto
    <2>4. client' = [client EXCEPT ![r] = c2]
      BY <1>3, <1>14, <2>1
    <2> QED
      BY <1>4, <1>5, <1>10, <1>12, <1>14, <2>2, <2>3, <2>4, LocalStep
  <1>15. /\ a2 = [a EXCEPT !.skip = Skip(st[r], a)]
         /\ s1 = [st[r] EXCEPT !.total = TotalOf(r, st[r], a)]
    BY <1>3, <1>7
  <1> QED
    BY <1>2, <1>3, <1>9, <1>11, <1>13, <1>14, <1>15

-----------------------------------------------------------------------------
(***************************************************************************)
(* The inductive invariant, and what it implies.                           *)
(***************************************************************************)
\* Every initial state satisfies the invariant.
LEMMA InitF == Init => FInv
  <1> SUFFICES ASSUME Init PROVE FInv
    OBVIOUS
  <1>1. TypeOK
    <2>1. length \in Nat /\ 0 \in 0 .. MaxAttempts - 1 /\ 0 \in 0 .. ResumeAttempts - 1
      BY ForwardAssumption DEF Init
    <2>2. /\ st \in [Reqs -> ForwardStates] /\ resp \in [Reqs -> Responses]
          /\ client \in [Reqs -> Clients]
      BY Constants DEF Init
    <2>3. pc \in [Reqs -> Places]
      BY DEF Init, Places
    <2> QED
      BY <2>1, <2>2, <2>3 DEF Init, TypeOK, Responses, Clients, Places
  <1>2. ASSUME NEW r \in Reqs
        PROVE  ConnOf(length, origin, pc[r], kind[r], st[r], resp[r], client[r], wrote[r])
    <2>1. /\ pc[r] = "idle" /\ client[r] = Silent /\ wrote[r] = 0
      BY DEF Init
    <2>2. Silent.heads = <<>> /\ Len(<<>>) = 0
      BY BodyOps DEF Silent
    <2> QED
      BY <2>1, <2>2 DEF ConnOf, ControlOf, LiveOf, ClientOf, Live, Reading
  <1>3. CacheInv
    BY DEF Init, CacheInv, CacheOf
  <1> QED
    BY <1>1, <1>2, <1>3 DEF FInv, ConnInv

\* Every step preserves the invariant.
LEMMA NextF == FInv /\ [Next]_vars => FInv'
  <1> SUFFICES ASSUME FInv, [Next]_vars PROVE FInv'
    OBVIOUS
  <1>1. ASSUME NEW r \in Reqs, Step(r) PROVE FInv'
    BY <1>1, LookupSteps, FailureSteps, RespondStep, RelayReadStep, RelayDoneStep,
       BufferReadStep, BufferDoneStep, OverflowDoneStep DEF Step
  <1>2. ASSUME NEW r \in Reqs, NEW k \in Kinds, Request(r, k) PROVE FInv'
    BY <1>2, RequestStep
  <1>3. CASE UNCHANGED vars
    <2>1. TypeOK'
      BY <1>3 DEF FInv, TypeOK, vars
    <2>2. ConnInv' /\ CacheInv'
      BY <1>3 DEF FInv, ConnInv, CacheInv, vars
    <2> QED
      BY <2>1, <2>2 DEF FInv
  <1> QED
    BY <1>1, <1>2, <1>3, EvictSteps DEF Next

\* Whatever fails in between, every connection of handleForward is at a place
\* its bookkeeping fits, and, if the origin keeps its mind, every client and
\* the cache hold prefixes of the one body.
THEOREM ForwardInvariant == Spec => []FInv
  BY InitF, NextF, PTL DEF Spec

\* handleForward's counters stay within forwardMaxAttempts and
\* forwardResumeAttempts, and forwardState keeps its types.
THEOREM ForwardTypeCorrect == Spec => []TypeOK
  <1>1. FInv => TypeOK
    BY DEF FInv
  <1> QED
    BY <1>1, ForwardInvariant, PTL

\* No failure after the first header makes handleForward send another.
THEOREM HeaderOnceAlways == Spec => []HeaderOnce
  <1>1. FInv => HeaderOnce
    BY DEF FInv, ConnInv, ConnOf, ControlOf, HeaderOnce
  <1> QED
    BY <1>1, ForwardInvariant, PTL

\* canRetry: a request that is not idempotent, or has a Range of the caller's own,
\* is sent upstream at most once, whatever fails.
THEOREM SentOnceAlways == Spec => []SentOnce
  <1>1. FInv => SentOnce
    BY DEF FInv, ConnInv, ConnOf, ControlOf, SentOnce, Once
  <1> QED
    BY <1>1, ForwardInvariant, PTL

\* Where every attempt gets the same status, resumption is seamless: what a
\* client holds is a prefix of one body, which its header announced unless
\* finishBuffered made the range it asked for a 200, or streamOverflowBuffered
\* passed on the 206 of the remainder.
THEOREM SeamlessBodyAlways ==
  ASSUME StableOrigin PROVE Spec => []SeamlessBody
  <1>1. FInv => SeamlessBody
    <2> SUFFICES ASSUME FInv, NEW r \in Reqs, client[r].heads # <<>>
                 PROVE  \/ IsPrefixOf(client[r].body, Announced(client[r].heads[1]))
                        \/ kind[r] = "range" /\ IsPrefixOf(client[r].body, From(RangeFrom))
                        \/ st[r].closeAfter /\ IsPrefixOf(client[r].body, Representation)
      BY DEF SeamlessBody
    <2>1. ClientOf(length, kind[r], st[r], client[r])
      BY Values DEF ConnOf
    <2>2. client[r].heads[1] \in Headers
      <3>1. client[r].heads \in Seq(Headers)
        BY Values DEF Clients
      <3> QED
        BY <3>1, EmptySeq
    <2>3. SourceOf(length, client[r].heads[1]) = Announced(client[r].heads[1])
      BY <2>2 DEF SourceOf, Announced, RepFrom, From, Statuses, Headers, Representation
    <2>4. RepFrom(length, RangeFrom) = From(RangeFrom) /\ Bytes("rep", length) = Representation
      BY DEF RepFrom, From, Representation
    <2> QED
      BY <2>1, <2>3, <2>4 DEF ClientOf
  <1> QED
    BY <1>1, ForwardInvariant, PTL

\* Then a connection handed back for another request carried exactly the bytes
\* its header declared.
THEOREM KeepAliveFramedAlways ==
  ASSUME StableOrigin PROVE Spec => []KeepAliveFramed
  <1>1. FInv => KeepAliveFramed
    BY DEF FInv, ConnInv, ConnOf, ClientOf, KeepAliveFramed
  <1> QED
    BY <1>1, ForwardInvariant, PTL

\* And commitAssetCache stores the whole representation or nothing.
THEOREM OnlyWhole200CachedAlways ==
  ASSUME StableOrigin PROVE Spec => []OnlyWhole200Cached
  <1>1. FInv => OnlyWhole200Cached
    BY DEF FInv, CacheInv, CacheOf, EntryOf, OnlyWhole200Cached, Representation
  <1> QED
    BY <1>1, ForwardInvariant, PTL

-----------------------------------------------------------------------------
(***************************************************************************)
(* The cache the requests share is one slot of AssetSlots.                 *)
(***************************************************************************)
\* No prefix is kept beside a complete response.
OneForm == cached = None \/ partial = None

\* What a step may do to the cache: complete or evict, keep, or extend.
Moves ==
    \/ partial' = None
    \/ partial' = partial /\ cached' \in {cached, None}
    \/ cached = None /\ cached' = None /\ PrefixLen' > PrefixLen

LEMMA SaveMoves ==
  ASSUME FInv, NEW r \in Reqs, SavePartial(st[r])
  PROVE  Moves
  <1> DEFINE s == st[r]
             pa == [header |-> s.header, body |-> s.buf, total |-> s.total,
                    closeAfter |-> s.closeAfter]
  <1>1. s.buf \in Bodies /\ cached' = cached
    BY DEF FInv, TypeOK, ForwardStates, SavePartial
  <1>2. CASE partial' = partial \/ partial' = None
    BY <1>1, <1>2 DEF Moves
  <1>3. CASE partial' # partial /\ partial' # None
    <2>1. /\ partial' = pa /\ cached = None /\ s.buf # <<>>
          /\ partial # None => ~(Len(partial.body) >= Len(pa.body))
      BY <1>3 DEF SavePartial, PutPartial
    <2>2. Len(s.buf) \in Nat /\ Len(s.buf) > 0 /\ pa.body = s.buf
      BY <1>1, <2>1, BodyOps
    <2>3. PrefixLen' = Len(s.buf)
      BY <1>3, <2>1, <2>2 DEF PrefixLen
    <2>4. partial # None => Len(partial.body) \in Nat
      BY BodyOps DEF FInv, TypeOK
    <2>5. PrefixLen < Len(s.buf)
      BY <2>1, <2>2, <2>4 DEF PrefixLen
    <2> QED
      BY <1>1, <2>1, <2>2, <2>3, <2>5 DEF Moves
  <1> QED
    BY <1>2, <1>3

LEMMA StepMoves ==
  ASSUME FInv, NEW r \in Reqs, Step(r)
  PROVE  Moves
  <1>1. CASE UNCHANGED store
    BY <1>1 DEF store, Moves
  <1>2. ASSUME Retry(r) PROVE Moves
    BY <1>1, <1>2, SaveMoves DEF Retry, TryAgain, GiveUp, store
  <1>3. ASSUME Abort(r) PROVE Moves
    BY <1>3, SaveMoves DEF Abort
  <1>4. ASSUME NEW s, CommitAssetCache(s) PROVE Moves
    BY <1>1, <1>4 DEF CommitAssetCache, Moves
  <1>5. CASE LookupPartial(r) \/ ReplayFails(r)
    BY <1>1, <1>5 DEF LookupPartial, ReplayFails, store
  <1>6. CASE DialFails(r) \/ NoAnswer(r) \/ Stall(r) \/ Fails(r)
    BY <1>2, <1>3, <1>6 DEF DialFails, NoAnswer, Stall, Fails
  <1>7. CASE Respond(r)
    <2>1. Abort(r) \/ UNCHANGED store
      BY <1>7 DEF Respond
    <2> QED
      BY <1>1, <1>3, <2>1
  <1>8. CASE RelayRead(r) \/ BufferRead(r) \/ OverflowDone(r)
    BY <1>1, <1>8 DEF RelayRead, BufferRead, OverflowDone, store
  <1>9. CASE RelayDone(r)
    BY <1>4, <1>9 DEF RelayDone
  <1>10. CASE BufferDone(r)
    <2>1. \E s : CommitAssetCache(s)
      BY <1>10 DEF BufferDone
    <2> QED
      BY <1>4, <2>1
  <1> QED
    BY <1>5, <1>6, <1>7, <1>8, <1>9, <1>10 DEF Step

LEMMA NextMoves == FInv /\ [Next]_vars => Moves
  <1> SUFFICES ASSUME FInv, [Next]_vars PROVE Moves
    OBVIOUS
  <1>1. ASSUME NEW r \in Reqs, NEW k \in Kinds, Request(r, k) PROVE Moves
    BY <1>1 DEF Request, store, Moves
  <1>2. CASE Evict \/ EvictPartial
    BY <1>2 DEF Evict, EvictPartial, Moves
  <1>3. CASE UNCHANGED vars
    BY <1>3 DEF vars, Moves
  <1> QED
    BY <1>1, <1>2, <1>3, StepMoves DEF Next

LEMMA OneFormStep == OneForm /\ Moves => OneForm'
  BY DEF OneForm, Moves

\* However many requests for the URL overlap and wherever they are interrupted,
\* the cache they share behaves as a slot of AssetSlots, which is what AssetCache
\* implements: no prefix shrinks, and none is kept beside a complete response.
THEOREM ForwardSharesSlot == Spec => SharesSlot
  <1> DEFINE whole == {k \in {"url"} : cached # None}
             prefix == [k \in {"url"} |-> PrefixLen]
  <1>1. Init => OneForm /\ Slots!Init
    BY DEF Init, OneForm, Slots!Init, PrefixLen
  <1>2. FInv /\ OneForm /\ [Next]_vars => OneForm'
    BY NextMoves, OneFormStep
  <1>3. FInv /\ OneForm /\ [Next]_vars => [Slots!Next]_<<whole, prefix>>
    <2> SUFFICES ASSUME OneForm, Moves PROVE Slots!Next
      BY NextMoves
    <2>1. /\ "url" \in whole <=> cached # None
          /\ "url" \in whole' <=> cached' # None
          /\ prefix["url"] = PrefixLen /\ prefix'["url"] = PrefixLen'
      OBVIOUS
    <2>2. CASE partial' = None
      <3>1. PrefixLen' = 0
        BY <2>2 DEF PrefixLen
      <3>2. CASE cached' # None
        BY <2>1, <3>1, <3>2 DEF Slots!Next, Slots!Store
      <3>3. CASE cached' = None /\ cached = None
        BY <2>1, <3>1, <3>3 DEF Slots!Next, Slots!ForgetPrefix
      <3>4. CASE cached' = None /\ cached # None
        <4>1. PrefixLen = 0
          BY <3>4 DEF OneForm, PrefixLen
        <4> QED
          BY <2>1, <3>1, <3>4, <4>1 DEF Slots!Next, Slots!ForgetWhole
      <3> QED
        BY <3>2, <3>3, <3>4
    <2>3. CASE partial' = partial /\ cached' \in {cached, None}
      <3>1. PrefixLen' = PrefixLen
        BY <2>3 DEF PrefixLen
      <3> QED
        BY <2>1, <2>3, <3>1 DEF Slots!Next, Slots!ForgetWhole, Slots!Keep
    <2>4. CASE cached = None /\ cached' = None /\ PrefixLen' > PrefixLen
      BY <2>1, <2>4 DEF Slots!Next, Slots!Extend
    <2> QED
      BY <2>2, <2>3, <2>4 DEF Moves
  <1> QED
    BY <1>1, <1>2, <1>3, ForwardInvariant, PTL DEF Spec, SharesSlot, Slots!Spec
=============================================================================
