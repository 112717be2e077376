------------------------- MODULE HttpResponseProofs -------------------------
(***************************************************************************)
(* Proofs about HttpResponse for all lengths, sizes and numbers of calls.  *)
(*                                                                         *)
(* Fits(r, o, n) relates a response r to what its connection has put in    *)
(* the out-buffer, o, after n responses before it: the header block on the *)
(* wire is the one that r would still write, and everything behind a       *)
(* header block is announced by it.  There is one lemma for each thing     *)
(* the calls are made of (a header block, an item behind it, a content),   *)
(* and each action is a sequence of them.                                  *)
(***************************************************************************)
EXTENDS HttpResponse, Recursion, SequenceTheorems

Item ==
  {HeadOf(r) : r \in Response} \cup {DataOf(n) : n \in Nat}
    \cup {ChunkOf(n, Decimal[n]) : n \in Nat} \cup {LastChunk}

Heads(o) == {i \in DOMAIN o : o[i].kind = "head"}

\* The i-th item belongs to the response of header block h.
Under(o, h, i) ==
  h \in Heads(o) /\ i \in DOMAIN o /\ i > h /\ \A j \in (h + 1)..i : j \notin Heads(o)

Announced(o) ==
  \A h, i \in DOMAIN o :
    Under(o, h, i) => IF o[i].kind = "data" THEN o[h].cl # Unset ELSE o[h].te

\* The last header block is h.
LastHead(o, h) == h \in Heads(o) /\ \A j \in (h + 1)..Len(o) : j \notin Heads(o)

Fits(r, o, n) ==
  /\ r \in Response /\ o \in Seq(Item) /\ n \in Nat
  /\ r.contentlength >= 0 => r.cl # Unset
  /\ r.contentlength < 0 /\ HasContent(r) => r.te
  /\ r.frozen => \E h \in DOMAIN o : LastHead(o, h) /\ o[h] = HeadOf(r)
  /\ r.frozen /\ ContentFirst => HasContent(r)
  /\ o # <<>> => o[1].kind = "head"
  /\ IsFiniteSet(Heads(o))
  /\ Cardinality(Heads(o)) = n + (IF r.frozen THEN 1 ELSE 0)
  /\ ContentFirst => Announced(o)

Inv ==
  /\ Fits(resp, out, answered)
  /\ calls \in 0..MaxCalls /\ answered + HeadersDue <= calls

-----------------------------------------------------------------------------
(* What the calls are made of.                                             *)

\* The kinds of the items.
LEMMA KindLemma ==
  /\ \A r \in Response : HeadOf(r) \in Item /\ HeadOf(r).kind = "head"
                         /\ HeadOf(r).cl = r.cl /\ HeadOf(r).te = r.te
  /\ \A n \in Nat : DataOf(n) \in Item /\ DataOf(n).kind = "data"
  /\ \A n \in Nat : ChunkOf(n, Decimal[n]) \in Item /\ ChunkOf(n, Decimal[n]).kind = "chunk"
  /\ LastChunk \in Item /\ LastChunk.kind = "last"
  /\ \A x \in Item : x.kind \in {"head", "data", "chunk", "last"}
<1>1. \A r \in Response : HeadOf(r) \in Item /\ HeadOf(r).kind = "head"
                          /\ HeadOf(r).cl = r.cl /\ HeadOf(r).te = r.te
  BY DEF Item, HeadOf
<1>2. \A n \in Nat : DataOf(n) \in Item /\ DataOf(n).kind = "data"
  BY DEF Item, DataOf
<1>3. \A n \in Nat : ChunkOf(n, Decimal[n]) \in Item /\ ChunkOf(n, Decimal[n]).kind = "chunk"
  BY DEF Item, ChunkOf
<1>4. LastChunk \in Item /\ LastChunk.kind = "last"
  BY DEF Item, LastChunk
<1>5. QED
  BY <1>1, <1>2, <1>3, <1>4, Zenon DEF Item

\* Items put together are put one after the other.
LEMMA PutLemma ==
  ASSUME NEW o \in Seq(Item), NEW s \in Seq(Item)
  PROVE  /\ o \o (s \o <<>>) = o \o s
         /\ \A x \in Item : o \o (s \o <<x>>) = Append(o \o s, x)
<1>1. s \o <<>> = s /\ o \o s \in Seq(Item)
  OBVIOUS
<1>2. ASSUME NEW x \in Item
      PROVE  o \o (s \o <<x>>) = Append(o \o s, x)
  <2>1. <<x>> \in Seq(Item)
    OBVIOUS
  <2>2. (o \o s) \o <<x>> = o \o (s \o <<x>>)
    BY <2>1, ConcatAssociative
  <2>3. QED
    BY <1>1, <2>2, AppendIsConcat, Zenon
<1>3. QED
  BY <1>1, <1>2

\* A header block that nothing has preceded in its response.
LEMMA HeaderLemma ==
  ASSUME NEW r, NEW o, NEW n, Fits(r, o, n), ContentFirst => HasContent(r)
  PROVE  /\ Fits(Froze(r), o \o HeaderOf(r), n)
         /\ Froze(r).frozen /\ Froze(r).cl = r.cl /\ Froze(r).te = r.te
         /\ Froze(r).contentlength = r.contentlength
<1> DEFINE f == Froze(r)
           p == Append(o, HeadOf(r))
<1>1. /\ f \in Response /\ f.frozen /\ f.cl = r.cl /\ f.te = r.te
      /\ f.contentlength = r.contentlength
  BY DEF Fits, Froze, Response
<1>2. CASE r.frozen
  <2>1. f = r
    BY <1>2 DEF Fits, Froze, Response
  <2>2. o \o HeaderOf(r) = o
    BY <1>2 DEF Fits, HeaderOf
  <2>3. QED
    BY <1>1, <2>1, <2>2
<1>3. CASE ~r.frozen
  <2>1. o \o HeaderOf(r) = p
    BY <1>3 DEF HeaderOf, Fits
  <2>2. HeadOf(r) \in Item /\ HeadOf(r).kind = "head" /\ HeadOf(f) = HeadOf(r)
    BY <1>1, KindLemma DEF Fits, HeadOf
  <2>3. /\ p \in Seq(Item) /\ Len(p) = Len(o) + 1 /\ DOMAIN p = 1..(Len(o) + 1)
        /\ DOMAIN o = 1..Len(o) /\ Len(o) \in Nat
        /\ p[Len(o) + 1] = HeadOf(r) /\ \A i \in 1..Len(o) : p[i] = o[i]
    BY <2>2 DEF Fits
  <2> HIDE DEF f, p
  <2>4. Heads(p) = Heads(o) \cup {Len(o) + 1} /\ Len(o) + 1 \notin Heads(o)
    BY <2>2, <2>3 DEF Heads
  <2>5. IsFiniteSet(Heads(p)) /\ Cardinality(Heads(p)) = Cardinality(Heads(o)) + 1
    BY <2>4, FS_AddElement, ZenonT(30) DEF Fits
  <2>6. LastHead(p, Len(o) + 1)
    BY <2>3, <2>4 DEF LastHead
  <2>7. ASSUME NEW h \in DOMAIN p, NEW i \in DOMAIN p, Under(p, h, i)
        PROVE  h \in DOMAIN o /\ i \in DOMAIN o /\ Under(o, h, i)
    <3>1. i # Len(o) + 1
      BY <2>3, <2>4, <2>7 DEF Under
    <3>2. QED
      BY <2>3, <2>4, <2>7, <3>1 DEF Under
  <2>8. ContentFirst => Announced(p)
    BY <2>3, <2>7 DEF Fits, Announced
  <2>9. p # <<>> /\ p[1].kind = "head"
    BY <2>2, <2>3 DEF Fits
  <2>10. Fits(f, p, n)
    BY <1>1, <1>3, <2>2, <2>3, <2>5, <2>6, <2>8, <2>9 DEF Fits, HasContent
  <2>11. QED
    BY <1>1, <2>1, <2>10 DEF f
<1>4. QED
  BY <1>2, <1>3

\* An item behind its header block.
LEMMA ItemLemma ==
  ASSUME NEW r, NEW o, NEW n, Fits(r, o, n), r.frozen,
         NEW x \in Item, x.kind # "head",
         ContentFirst => IF x.kind = "data" THEN r.cl # Unset ELSE r.te
  PROVE  Fits(r, Append(o, x), n)
<1> DEFINE p == Append(o, x)
<1>1. /\ p \in Seq(Item) /\ Len(p) = Len(o) + 1 /\ DOMAIN p = 1..(Len(o) + 1)
      /\ DOMAIN o = 1..Len(o) /\ Len(o) \in Nat
      /\ p[Len(o) + 1] = x /\ \A i \in 1..Len(o) : p[i] = o[i]
  BY DEF Fits
<1>2. PICK last \in DOMAIN o : LastHead(o, last) /\ o[last] = HeadOf(r)
  BY DEF Fits
<1> HIDE DEF p
<1>3. Heads(p) = Heads(o)
  BY <1>1 DEF Heads
<1>4. last \in DOMAIN p /\ LastHead(p, last) /\ p[last] = HeadOf(r)
  BY <1>1, <1>2, <1>3 DEF LastHead, Heads
<1>5. ASSUME NEW h \in DOMAIN p, NEW i \in DOMAIN p, Under(p, h, i), ContentFirst
      PROVE  IF p[i].kind = "data" THEN p[h].cl # Unset ELSE p[h].te
  <2>1. h \in DOMAIN o
    BY <1>3, <1>5 DEF Under, Heads
  <2>2. CASE i = Len(o) + 1
    <3>1. h = last
      BY <1>1, <1>2, <1>3, <1>5, <2>1, <2>2 DEF Under, LastHead
    <3>2. p[h].cl = r.cl /\ p[h].te = r.te
      BY <1>4, <3>1, KindLemma DEF Fits
    <3>3. QED
      BY <1>1, <1>5, <2>2, <3>2
  <2>3. CASE i # Len(o) + 1
    <3>1. i \in DOMAIN o /\ Under(o, h, i)
      BY <1>1, <1>3, <1>5, <2>3 DEF Under
    <3>2. QED
      BY <1>1, <1>5, <2>1, <3>1 DEF Fits, Announced
  <2>4. QED
    BY <2>2, <2>3
<1>6. ContentFirst => Announced(p)
  BY <1>5 DEF Announced
<1>7. p # <<>> /\ p[1].kind = "head"
  BY <1>1, <1>2 DEF Fits
<1>8. QED
  BY <1>1, <1>3, <1>4, <1>6, <1>7 DEF Fits, p

\* The content of a response whose header has not been sent.
LEMMA ContentLemma ==
  ASSUME NEW r, NEW o, NEW n, Fits(r, o, n), ~r.frozen,
         NEW length \in Lengths \cup {Chunked}
  PROVE  /\ Fits(WithContent(r, length), o, n)
         /\ ~WithContent(r, length).frozen /\ HasContent(WithContent(r, length))
<1> DEFINE w == WithContent(r, length)
<1>1. length \in Nat \/ length = -1
  BY ResponseAssumption DEF Chunked
<1>2. /\ w \in Response /\ ~w.frozen
      /\ w.contentlength >= 0 => w.cl # Unset
      /\ w.contentlength < 0 => w.te
      /\ HasContent(w)
  <2>1. CASE length \in Nat
    <3> DEFINE v == [r EXCEPT !.cl = length, !.contentlength = length]
    <3>1. w = v
      BY <2>1 DEF WithContent
    <3>2. v \in Response
      BY <2>1, Zenon DEF Fits, Response
    <3>3. v.frozen = r.frozen /\ v.cl = length /\ v.contentlength = length
      BY ZenonT(30) DEF Fits, Response
    <3> HIDE DEF v
    <3>4. QED
      BY <2>1, <3>1, <3>2, <3>3 DEF HasContent, Unset
  <2>2. CASE length = -1
    <3> DEFINE v == [r EXCEPT !.te = TRUE, !.contentlength = Chunked]
    <3>1. w = v
      BY <2>2 DEF WithContent
    <3>2. v \in Response
      BY Zenon DEF Fits, Response
    <3>3. v.frozen = r.frozen /\ v.te = TRUE /\ v.contentlength = Chunked
      BY ZenonT(30) DEF Fits, Response
    <3> HIDE DEF v
    <3>4. QED
      BY <3>1, <3>2, <3>3 DEF HasContent, Chunked
  <2>3. QED
    BY <1>1, <2>1, <2>2
<1> HIDE DEF w
<1>3. Fits(w, o, n)
  BY <1>2 DEF Fits
<1>4. QED
  BY <1>2, <1>3 DEF w

\* What a call does to its response and to the out-buffer is all it does.
LEMMA CallLemma ==
  ASSUME Inv, NEW r, NEW put, Call(r, put), Fits(r, out \o put, answered)
  PROVE  Inv'
<1>1. calls' \in 0..MaxCalls /\ calls' = calls + 1
  BY ResponseAssumption DEF Inv, Call
<1>2. answered' + HeadersDue' <= calls'
  BY <1>1 DEF Inv, Fits, Call, HeadersDue
<1>3. QED
  BY <1>1, <1>2 DEF Inv, Call

\* A call that is refused.
LEMMA RefusedLemma ==
  ASSUME Inv, NEW r, Call(r, <<>>), Fits(r, out, answered)
  PROVE  Inv'
<1>1. out \o <<>> = out
  BY DEF Fits
<1>2. QED
  BY <1>1, CallLemma

\* The pieces of ad_http_send_data and ad_http_send_chunk.
LEMMA SendsLemma ==
  ASSUME Inv, NEW r, NEW n \in Nat, Sends(r, n), Fits(r, out, answered)
  PROVE  Inv'
<1>1. CASE Refuses(r, n)
  BY <1>1, RefusedLemma DEF Sends
<1>2. CASE ~Refuses(r, n)
  <2> DEFINE f == Froze(r)
             head == out \o HeaderOf(r)
             b == [f EXCEPT !.bodyout = @ + n]
             piece == IF n > 0 THEN <<DataOf(n)>> ELSE <<>>
  <2>1. r.contentlength >= 0 /\ r.cl # Unset
    BY <1>2 DEF Refuses, Fits, Response, Chunked
  <2>2. Fits(f, head, answered) /\ f.frozen /\ f.cl = r.cl
    BY <2>1, HeaderLemma DEF HasContent
  <2>3. Call(b, HeaderOf(r) \o piece)
    BY <1>2, Zenon DEF Sends
  <2> HIDE DEF f
  <2>4. /\ b \in Response /\ b.frozen = f.frozen /\ b.cl = f.cl /\ b.te = f.te
        /\ b.contentlength = f.contentlength
    <3>1. f \in Response /\ f.bodyout + n \in Nat
      BY <2>2 DEF Fits, Response
    <3>2. b \in Response
      BY <3>1, Zenon DEF Response
    <3>3. QED
      BY <3>1, <3>2, ZenonT(30) DEF Response
  <2> HIDE DEF b, head
  <2>5. Fits(b, head, answered) /\ b.frozen
    BY <2>2, <2>4 DEF Fits, HasContent, HeadOf
  <2>6. HeaderOf(r) \in Seq(Item) /\ out \in Seq(Item)
    BY KindLemma DEF Fits, HeaderOf
  <2>7. CASE n > 0
    <3>1. Fits(b, Append(head, DataOf(n)), answered)
      BY <2>1, <2>2, <2>4, <2>5, ItemLemma, KindLemma
    <3>2. Append(head, DataOf(n)) = out \o (HeaderOf(r) \o piece)
      BY <2>6, <2>7, KindLemma, PutLemma DEF head
    <3>3. QED
      BY <2>3, <3>1, <3>2, CallLemma
  <2>8. CASE ~(n > 0)
    <3>1. out \o (HeaderOf(r) \o piece) = head
      BY <2>6, <2>8, PutLemma DEF head
    <3>2. QED
      BY <2>3, <2>5, <3>1, CallLemma
  <2>9. QED
    BY <2>7, <2>8
<1>3. QED
  BY <1>1, <1>2

\* A chunk and a last chunk keep the response and the out-buffer fitting.
LEMMA ChunkLemma ==
  ASSUME Inv, NEW n \in Nat, SendChunk(n)
  PROVE  Inv'
<1> DEFINE r == resp
           x == IF n > 0 THEN ChunkOf(n, Decimal[n]) ELSE LastChunk
           head == out \o HeaderOf(r)
<1>1. Fits(r, out, answered) /\ (ContentFirst => HasContent(r))
  BY DEF Inv, SendChunk
<1>2. CASE r.contentlength >= 0
  BY <1>1, <1>2, RefusedLemma DEF SendChunk
<1>3. CASE ~(r.contentlength >= 0)
  <2>1. ContentFirst => r.te
    BY <1>1, <1>3 DEF Fits, Response, Chunked
  <2>2. Fits(Froze(r), head, answered) /\ Froze(r).frozen /\ Froze(r).te = r.te
    BY <1>1, HeaderLemma
  <2>3. x \in Item /\ x.kind # "head" /\ x.kind # "data"
    BY KindLemma
  <2>4. Call(Froze(r), HeaderOf(r) \o <<x>>)
    BY <1>3 DEF SendChunk
  <2>5. HeaderOf(r) \in Seq(Item) /\ out \in Seq(Item)
    BY <1>1, KindLemma DEF Fits, HeaderOf
  <2> HIDE DEF x
  <2>6. Fits(Froze(r), Append(head, x), answered)
    BY <2>1, <2>2, <2>3, ItemLemma
  <2>7. Append(head, x) = out \o (HeaderOf(r) \o <<x>>)
    BY <2>3, <2>5, PutLemma
  <2>8. QED
    BY <2>4, <2>6, <2>7, CallLemma
<1>4. QED
  BY <1>2, <1>3

-----------------------------------------------------------------------------
(* The theorems.                                                           *)

\* The invariant holds of a new response.
LEMMA InvInit ==
  ASSUME Init
  PROVE  Inv
<1>1. resp \in Response /\ ~resp.frozen /\ ~HasContent(resp) /\ resp.contentlength < 0
  BY DEF Init, NewResponse, Response, HasContent, Chunked, Unset
<1>2. out \in Seq(Item) /\ Heads(out) = {} /\ Announced(out)
  BY DEF Init, Heads, Announced
<1>3. IsFiniteSet(Heads(out)) /\ Cardinality(Heads(out)) = 0
  BY <1>2, FS_EmptySet
<1>4. Fits(resp, out, answered)
  <2>1. out = <<>> /\ answered \in Nat
    BY DEF Init
  <2>2. /\ ~(resp.contentlength >= 0)
        /\ Cardinality(Heads(out)) = answered + (IF resp.frozen THEN 1 ELSE 0)
    BY <1>1, <1>3 DEF Init, Response, Chunked
  <2>3. QED
    BY <1>1, <1>2, <1>3, <2>1, <2>2, Zenon DEF Fits
<1>5. QED
  BY <1>1, <1>4, ResponseAssumption DEF Inv, Init, HeadersDue

\* Every call keeps the invariant.
LEMMA InvNext ==
  ASSUME Inv, [Next]_vars
  PROVE  Inv'
<1>1. CASE UNCHANGED vars
  BY <1>1 DEF Inv, HeadersDue, vars
<1>2. ASSUME NEW length \in Lengths \cup {Chunked}, SetContent(length)
      PROVE  Inv'
  <2>1. CASE resp.frozen
    BY <1>2, <2>1, RefusedLemma DEF SetContent, Inv
  <2>2. CASE ~resp.frozen
    BY <1>2, <2>2, ContentLemma, RefusedLemma DEF SetContent, Inv
  <2>3. QED
    BY <2>1, <2>2
<1>3. ASSUME NEW length \in Lengths \cup {Chunked}, Respond(length)
      PROVE  Inv'
  <2>1. CASE resp.frozen
    BY <1>3, <2>1, RefusedLemma DEF Respond, Inv
  <2>2. CASE ~resp.frozen /\ length \in Lengths
    BY <1>3, <2>2, ContentLemma, SendsLemma, ResponseAssumption DEF Respond, Inv
  <2>3. CASE ~resp.frozen /\ length = Chunked
    <3>1. Refuses(WithContent(resp, length), length)
      BY <2>3 DEF Refuses, WithContent, Inv, Fits, Response, Chunked
    <3>2. QED
      BY <1>3, <2>3, <3>1, ContentLemma, RefusedLemma DEF Respond, Sends, Inv
  <2>4. QED
    BY <2>1, <2>2, <2>3
<1>4. CASE SendHeader
  BY <1>4, HeaderLemma, CallLemma DEF SendHeader, Inv
<1>5. ASSUME NEW n \in Sizes, SendData(n)
      PROVE  Inv'
  BY <1>5, SendsLemma, ResponseAssumption DEF SendData, Inv
<1>6. ASSUME NEW n \in Sizes, SendChunk(n)
      PROVE  Inv'
  BY <1>6, ChunkLemma, ResponseAssumption
<1>7. CASE Renew
  <2>1. NewResponse \in Response /\ ~NewResponse.frozen
        /\ ~HasContent(NewResponse) /\ NewResponse.contentlength < 0
    BY DEF NewResponse, Response, HasContent, Chunked, Unset
  <2>2. answered + HeadersDue \in Nat
        /\ Cardinality(Heads(out)) = answered + HeadersDue
    BY DEF Inv, Fits, HeadersDue
  <2>3. Fits(NewResponse, out, answered + HeadersDue)
    <3>1. /\ ~(NewResponse.contentlength >= 0)
          /\ Cardinality(Heads(out))
               = answered + HeadersDue + (IF NewResponse.frozen THEN 1 ELSE 0)
      BY <2>1, <2>2 DEF Response, Chunked
    <3>2. QED
      BY <2>1, <2>2, <3>1, Zenon DEF Inv, Fits
  <2>4. HeadersDue' = 0
    BY <1>7, <2>1 DEF Renew, HeadersDue
  <2>5. QED
    BY <1>7, <2>2, <2>3, <2>4 DEF Renew, Inv
<1>8. QED
  BY <1>1, <1>2, <1>3, <1>4, <1>5, <1>6, <1>7 DEF Next

\* The invariant of the writer between two calls of a hook: the response and
\* the out-buffer fit.  It is inductive.
THEOREM ResponseInvariant == Spec => []Inv
<1>1. Init => Inv
  BY InvInit
<1>2. Inv /\ [Next]_vars => Inv'
  BY InvNext
<1>3. QED
  BY <1>1, <1>2, PTL DEF Spec

\* The fields of the response keep their ranges, the out-buffer holds nothing
\* but what the calls write.
THEOREM ResponseTypeCorrect == Spec => []TypeOK
<1>1. Inv => TypeOK
  <2> SUFFICES ASSUME Inv PROVE TypeOK
    OBVIOUS
  <2>1. \A i \in DOMAIN out : out[i].kind \in {"head", "data", "chunk", "last"}
    BY KindLemma DEF Inv, Fits
  <2>2. answered \in 0..MaxCalls
    BY ResponseAssumption DEF Inv, Fits, HeadersDue
  <2>3. QED
    BY <2>1, <2>2 DEF Inv, Fits, TypeOK
<1>2. QED
  BY <1>1, ResponseInvariant, PTL

\* Every response puts one header block, before everything else of it, for
\* any order of the calls: ad_http_send_header is guarded by frozen_header,
\* and everybody else calls it first.
THEOREM AlwaysOneHeaderEach == Spec => []OneHeaderEach
<1>1. Inv => OneHeaderEach
  BY DEF Inv, Fits, OneHeaderEach, HeadersDue, Heads, IsHead
<1>2. QED
  BY <1>1, ResponseInvariant, PTL

\* Hooks that say first what the content is get everything they send framed
\* the way the header block on the wire announces it.
THEOREM AlwaysFramedAsAnnounced ==
  ASSUME ContentFirst
  PROVE  Spec => []FramedAsAnnounced
<1>1. Inv => FramedAsAnnounced
  <2> SUFFICES ASSUME Inv, NEW h \in DOMAIN out, IsHead(h), NEW i \in ItemsOf(h)
               PROVE  IF out[i].kind = "data" THEN out[h].cl # Unset ELSE out[h].te
    BY DEF FramedAsAnnounced
  <2>1. Under(out, h, i)
    BY DEF ItemsOf, Under, Heads, IsHead, Inv, Fits
  <2>2. QED
    BY <2>1 DEF Inv, Fits, Announced, ItemsOf
<1>2. QED
  BY <1>1, ResponseInvariant, PTL

\* Once the header block is on the wire, no call changes what it has said of
\* the content.
THEOREM HeaderAlwaysBinds == Spec => []HeaderBinds
<1>1. Inv => HeaderBinds
  <2> SUFFICES ASSUME Inv, resp.frozen
               PROVE  LET h == HeadBefore(Len(out))
                      IN  resp.cl = out[h].cl /\ resp.te = out[h].te
    BY DEF HeaderBinds
  <2> DEFINE n == Len(out)
  <2>1. PICK h \in DOMAIN out : LastHead(out, h) /\ out[h] = HeadOf(resp)
    BY DEF Inv, Fits
  <2>2. DOMAIN out = 1..n /\ n \in Nat
    BY DEF Inv, Fits
  <2> HIDE DEF n
  <2>3. h \in 1..n /\ IsHead(h) /\ \A j \in (h + 1)..n : ~IsHead(j)
    BY <2>1, <2>2 DEF LastHead, Heads, IsHead, n
  <2>4. \A g \in 1..n : IsHead(g) /\ (\A j \in (g + 1)..n : ~IsHead(j)) => g = h
    BY <2>2, <2>3
  <2>5. HeadBefore(n) = h
    BY <2>3, <2>4 DEF HeadBefore
  <2>6. out[h].cl = resp.cl /\ out[h].te = resp.te
    BY <2>1, KindLemma DEF Inv, Fits
  <2>7. QED
    BY <2>5, <2>6 DEF n
<1>2. QED
  BY <1>1, ResponseInvariant, PTL

-----------------------------------------------------------------------------
(* The content that was sent.                                              *)

\* The sum in WithinLength, of the items in D.
Total(o, D) == MapThenSumSet(LAMBDA i : o[i].size, D)

\* The data under header block h, and how much it is.
DataUnder(o, h) == {i \in DOMAIN o : Under(o, h, i) /\ o[i].kind = "data"}
Sent(o, h)      == Total(o, DataUnder(o, h))

\* bodyout counts what lies behind the last header block, and no response has
\* sent more than its header block says.
Counted(r, o) ==
  /\ ~r.frozen => r.bodyout = 0
  /\ r.contentlength >= 0 => r.cl = r.contentlength
  /\ r.cl # Unset => r.bodyout <= r.cl
  /\ \A h \in Heads(o) : o[h].cl # Unset => Sent(o, h) <= o[h].cl
  /\ r.frozen => \A h \in Heads(o) : LastHead(o, h) => Sent(o, h) = r.bodyout

CountInv == Inv /\ Counted(resp, out)

\* Total is the sum of the sizes at the positions in D.
LEMMA TotalSumsUp ==
  ASSUME NEW o, NEW D, IsFiniteSet(D), \A i \in D : o[i].size \in Nat
  PROVE  \E f : SumsUp(f, [i \in D |-> o[i].size], D) /\ Total(o, D) = f[D]
<1> DEFINE w == [i \in D |-> o[i].size]
           Next1(g) == [s \in SUBSET D |->
                          IF s = {} THEN 0
                          ELSE o[CHOOSE x \in s : TRUE].size + g[s \ {CHOOSE x \in s : TRUE}]]
           Next2(g) == [s \in SUBSET D |->
                          IF s = {} THEN 0
                          ELSE w[CHOOSE x \in s : TRUE] + g[s \ {CHOOSE x \in s : TRUE}]]
           f == CHOOSE g : g = Next2(g)
<1>1. Total(o, D) = (CHOOSE g : g = Next1(g))[D]
  BY DEF Total, MapThenSumSet, MapThenFoldSet
<1>2. ASSUME NEW g PROVE Next1(g) = Next2(g)
  <2>1. ASSUME NEW s \in SUBSET D, s # {}
        PROVE  o[CHOOSE x \in s : TRUE].size = w[CHOOSE x \in s : TRUE]
    <3>1. (CHOOSE x \in s : TRUE) \in D
      BY <2>1
    <3>2. QED
      BY <3>1
  <2>2. QED
    BY <2>1
<1>3. (CHOOSE g : g = Next1(g)) = f
  <2> HIDE DEF Next1, Next2
  <2>1. QED
    BY <1>2, Zenon DEF f
<1>4. w \in [D -> Nat]
  OBVIOUS
<1>5. SumsUp(f, w, D)
  <2> HIDE DEF w
  <2>1. QED
    BY <1>4, SumExists
<1>6. QED
  BY <1>1, <1>3, <1>5

\* No items, one more item, and the same items of another buffer.
LEMMA TotalLemma ==
  ASSUME NEW o, NEW D, IsFiniteSet(D), \A i \in D : o[i].size \in Nat
  PROVE  /\ Total(o, D) \in Nat
         /\ D = {} => Total(o, D) = 0
         /\ \A x \in D : Total(o, D) = o[x].size + Total(o, D \ {x})
         /\ \A p : (\A i \in D : p[i] = o[i]) => Total(p, D) = Total(o, D)
<1> DEFINE w == [i \in D |-> o[i].size]
<1>1. PICK f : SumsUp(f, w, D) /\ Total(o, D) = f[D]
  BY TotalSumsUp
<1>2. Total(o, D) \in Nat /\ (D = {} => Total(o, D) = 0)
  BY <1>1 DEF SumsUp
<1>3. ASSUME NEW x \in D
      PROVE  Total(o, D) = o[x].size + Total(o, D \ {x})
  <2> DEFINE E == D \ {x}
             v == [i \in E |-> o[i].size]
  <2>1. IsFiniteSet(E) /\ \A i \in E : o[i].size \in Nat
    BY FS_Subset
  <2>2. PICK g : SumsUp(g, v, E) /\ Total(o, E) = g[E]
    BY <2>1, TotalSumsUp
  <2>3. f[E] = g[E]
    <3>1. E \in SUBSET (D \cap E) /\ \A i \in E : w[i] = v[i]
      OBVIOUS
    <3> HIDE DEF w, v, E
    <3>2. QED
      BY ONLY <1>1, <2>1, <2>2, <3>1, SumUnique
  <2>4. f[D] = w[x] + f[D \ {x}]
    BY <1>1 DEF SumsUp
  <2>5. QED
    BY <1>1, <2>2, <2>3, <2>4
<1>4. ASSUME NEW p, \A i \in D : p[i] = o[i]
      PROVE  Total(p, D) = Total(o, D)
  <2>1. \A i \in D : p[i].size \in Nat
    BY <1>4
  <2>2. PICK g : SumsUp(g, [i \in D |-> p[i].size], D) /\ Total(p, D) = g[D]
    BY <2>1, TotalSumsUp
  <2>3. [i \in D |-> p[i].size] = w
    BY <1>4
  <2>4. QED
    BY <1>1, <2>2, <2>3, SumUnique
<1>5. QED
  BY <1>2, <1>3, <1>4

\* The sizes of the data are numbers.
LEMMA DataLemma ==
  ASSUME NEW o \in Seq(Item), NEW h
  PROVE  /\ IsFiniteSet(DataUnder(o, h)) /\ \A i \in DataUnder(o, h) : o[i].size \in Nat
         /\ Sent(o, h) \in Nat
<1>1. IsFiniteSet(DataUnder(o, h))
  <2>1. IsFiniteSet(1..Len(o)) /\ DataUnder(o, h) \subseteq 1..Len(o)
    BY FS_Interval DEF DataUnder
  <2>2. QED
    BY <2>1, FS_Subset
<1>2. ASSUME NEW i \in DataUnder(o, h) PROVE o[i].size \in Nat
  <2>1. o[i] \in Item /\ o[i].kind = "data"
    BY DEF DataUnder
  <2>2. PICK n \in Nat : o[i] = DataOf(n)
    <3>1. \A r \in Response : HeadOf(r).kind # "data"
      BY DEF HeadOf
    <3>2. \A n \in Nat : ChunkOf(n, Decimal[n]).kind # "data"
      BY DEF ChunkOf
    <3>3. LastChunk.kind # "data"
      BY DEF LastChunk
    <3>4. QED
      BY <2>1, <3>1, <3>2, <3>3, Zenon DEF Item
  <2>3. QED
    BY <2>2 DEF DataOf
<1>3. QED
  BY <1>1, <1>2, TotalLemma DEF Sent

\* The header block puts no data.
LEMMA CountHeader ==
  ASSUME NEW r, NEW o, NEW n, Fits(r, o, n), Counted(r, o)
  PROVE  Counted(Froze(r), o \o HeaderOf(r))
<1> DEFINE f == Froze(r)
           p == Append(o, HeadOf(r))
<1>1. /\ f \in Response /\ f.frozen /\ f.cl = r.cl /\ f.bodyout = r.bodyout
      /\ f.contentlength = r.contentlength
  BY DEF Fits, Froze, Response
<1>2. CASE r.frozen
  <2>1. f = r /\ o \o HeaderOf(r) = o
    BY <1>2 DEF Fits, Froze, Response, HeaderOf
  <2>2. QED
    BY <2>1
<1>3. CASE ~r.frozen
  <2>1. o \o HeaderOf(r) = p
    BY <1>3 DEF HeaderOf, Fits
  <2>2. HeadOf(r) \in Item /\ HeadOf(r).kind = "head" /\ HeadOf(r).cl = r.cl
    BY KindLemma DEF Fits
  <2>3. /\ p \in Seq(Item) /\ Len(p) = Len(o) + 1 /\ DOMAIN p = 1..(Len(o) + 1)
        /\ DOMAIN o = 1..Len(o) /\ Len(o) \in Nat
        /\ p[Len(o) + 1] = HeadOf(r) /\ \A i \in 1..Len(o) : p[i] = o[i]
    BY <2>2 DEF Fits
  <2> HIDE DEF f, p
  <2>4. Heads(p) = Heads(o) \cup {Len(o) + 1} /\ Len(o) + 1 \notin Heads(o)
    BY <2>2, <2>3 DEF Heads
  <2>5. ASSUME NEW h \in Heads(o) PROVE Sent(p, h) = Sent(o, h)
    <3>1. DataUnder(p, h) = DataUnder(o, h)
      BY <2>2, <2>3, <2>4 DEF DataUnder, Under
    <3>2. \A i \in DataUnder(o, h) : p[i] = o[i]
      BY <2>3 DEF DataUnder
    <3>3. IsFiniteSet(DataUnder(o, h)) /\ \A i \in DataUnder(o, h) : o[i].size \in Nat
      BY DataLemma DEF Fits
    <3>4. QED
      BY <3>1, <3>2, <3>3, TotalLemma DEF Sent
  <2>6. Sent(p, Len(o) + 1) = 0
    <3>1. DataUnder(p, Len(o) + 1) = {}
      BY <2>3 DEF DataUnder, Under
    <3>2. QED
      BY <3>1, <2>3, DataLemma, TotalLemma DEF Sent
  <2>7. \A h \in Heads(p) : LastHead(p, h) => h = Len(o) + 1
    BY <2>3, <2>4 DEF LastHead, Heads
  <2>8. r.cl # Unset => r.cl \in Nat
    BY DEF Fits, Response
  <2>9. ASSUME NEW h \in Heads(p), p[h].cl # Unset PROVE Sent(p, h) <= p[h].cl
    <3>1. CASE h \in Heads(o)
      BY <2>3, <2>5, <2>9, <3>1 DEF Counted, Heads
    <3>2. CASE h = Len(o) + 1
      BY <2>2, <2>3, <2>6, <2>8, <2>9, <3>2
    <3>3. QED
      BY <2>4, <3>1, <3>2
  <2>10. Counted(f, p)
    BY <1>1, <1>3, <2>6, <2>7, <2>9 DEF Counted
  <2>11. QED
    BY <2>1, <2>10 DEF f
<1>4. QED
  BY <1>2, <1>3

\* An item behind its header block adds its data to the last response.  The
\* response that has put it is b.
LEMMA CountItem ==
  ASSUME NEW r, NEW o, NEW n, Fits(r, o, n), Counted(r, o), r.frozen,
         NEW x \in Item, x.kind # "head", NEW b \in Response,
         b.frozen, b.cl = r.cl, b.contentlength = r.contentlength,
         x.kind = "data" =>
           x.size \in Nat /\ b.bodyout = r.bodyout + x.size
           /\ r.cl # Unset /\ b.bodyout <= r.cl,
         x.kind # "data" => b.bodyout = r.bodyout
  PROVE  Counted(b, Append(o, x))
<1> DEFINE p == Append(o, x)
           m == Len(o) + 1
<1>1. /\ p \in Seq(Item) /\ DOMAIN p = 1..m /\ m \in Nat \ {0} /\ Len(p) = m
      /\ DOMAIN o = 1..(m - 1) /\ Len(o) = m - 1
      /\ p[m] = x /\ \A i \in 1..(m - 1) : p[i] = o[i]
  BY DEF Fits
<1>2. PICK last \in DOMAIN o : LastHead(o, last) /\ o[last] = HeadOf(r)
  BY DEF Fits
<1> HIDE DEF p, m
<1>3. Heads(p) = Heads(o)
  BY <1>1 DEF Heads
<1>4. o[last].cl = r.cl /\ last \in Heads(o)
  BY <1>2, KindLemma DEF Fits, LastHead
<1>5. ASSUME NEW h \in Heads(o)
      PROVE  /\ LastHead(o, h) <=> h = last
             /\ LastHead(p, h) <=> h = last
  BY <1>1, <1>2, <1>3, <1>4 DEF LastHead, Heads
<1>6. ASSUME NEW h \in Heads(o)
      PROVE  /\ IsFiniteSet(DataUnder(p, h)) /\ \A i \in DataUnder(p, h) : p[i].size \in Nat
             /\ IsFiniteSet(DataUnder(o, h)) /\ \A i \in DataUnder(o, h) : o[i].size \in Nat
             /\ DataUnder(o, h) \subseteq 1..(m - 1)
             /\ Sent(p, h) \in Nat
  <2>1. DataUnder(o, h) \subseteq 1..(m - 1)
    BY <1>1 DEF DataUnder
  <2>2. o \in Seq(Item)
    BY DEF Fits
  <2>3. QED
    BY <1>1, <2>1, <2>2, DataLemma
<1>7. ASSUME NEW h \in Heads(o)
      PROVE  DataUnder(p, h)
               = DataUnder(o, h) \cup (IF h = last /\ x.kind = "data" THEN {m} ELSE {})
  <2>1. Under(p, h, m) <=> h = last
    <3>1. Under(p, h, m) <=> LastHead(p, h)
      BY <1>1, <1>3 DEF Under, LastHead, Heads
    <3>2. QED
      BY <3>1, <1>5
  <2>2. ASSUME NEW i \in 1..(m - 1) PROVE Under(p, h, i) <=> Under(o, h, i)
    BY <1>1, <1>3 DEF Under
  <2>3. \A i \in DataUnder(p, h) : i = m \/ i \in 1..(m - 1)
    BY <1>1 DEF DataUnder
  <2>4. \A i \in 1..(m - 1) : i \in DataUnder(p, h) <=> i \in DataUnder(o, h)
    BY <1>1, <2>2 DEF DataUnder
  <2>5. m \in DataUnder(p, h) <=> h = last /\ x.kind = "data"
    BY <1>1, <2>1 DEF DataUnder
  <2>6. QED
    BY <1>6, <2>3, <2>4, <2>5
<1>8. ASSUME NEW h \in Heads(o), ~(h = last /\ x.kind = "data")
      PROVE  Sent(p, h) = Sent(o, h)
  <2>1. DataUnder(p, h) = DataUnder(o, h)
    BY <1>7, <1>8
  <2>2. \A i \in DataUnder(o, h) : p[i] = o[i]
    BY <1>1, <1>6
  <2>3. QED
    BY <2>1, <2>2, <1>6, TotalLemma DEF Sent
<1>9. ASSUME x.kind = "data"
      PROVE  Sent(p, last) = Sent(o, last) + x.size
  <2> DEFINE D == DataUnder(o, last)
             E == DataUnder(p, last)
  <2>1. E = D \cup {m} /\ m \notin D
    BY <1>4, <1>6, <1>7, <1>9
  <2>2. E \ {m} = D /\ m \in E
    BY <2>1
  <2>3. Total(p, E) = p[m].size + Total(p, D)
    <3>1. IsFiniteSet(E) /\ \A i \in E : p[i].size \in Nat
      BY <1>4, <1>6
    <3> HIDE DEF D, E
    <3>2. QED
      BY <2>2, <3>1, TotalLemma, SMTT(30)
  <2>4. Total(p, D) = Total(o, D)
    <3>1. \A i \in D : p[i] = o[i]
      BY <1>1, <1>4, <1>6
    <3>2. IsFiniteSet(D) /\ \A i \in D : o[i].size \in Nat
      BY <1>4, <1>6
    <3> HIDE DEF D
    <3>3. QED
      BY <3>1, <3>2, TotalLemma
  <2>5. Total(o, D) \in Nat
    BY <1>4, <1>6, TotalLemma
  <2>6. QED
    BY <1>1, <1>9, <2>3, <2>4, <2>5 DEF Sent
<1>10. r.bodyout \in Nat /\ (r.cl # Unset => r.cl \in Nat)
  BY DEF Fits, Response
<1>11. Sent(o, last) = r.bodyout
  BY <1>2, <1>4 DEF Counted
<1>12. Sent(p, last) = b.bodyout
  BY <1>4, <1>8, <1>9, <1>10, <1>11
<1>13. b.cl # Unset => b.bodyout <= b.cl
  BY DEF Counted
<1>14. ASSUME NEW h \in Heads(p), p[h].cl # Unset PROVE Sent(p, h) <= p[h].cl
  <2>1. h \in Heads(o) /\ p[h] = o[h]
    BY <1>1, <1>3 DEF Heads
  <2>2. CASE h = last
    BY <1>4, <1>12, <1>13, <1>14, <2>1, <2>2
  <2>3. CASE h # last
    BY <1>8, <1>14, <2>1, <2>3 DEF Counted
  <2>4. QED
    BY <2>2, <2>3
<1>15. Counted(b, p)
  BY <1>3, <1>5, <1>12, <1>13, <1>14 DEF Counted
<1>16. QED
  BY <1>15 DEF p

\* Nothing has been sent when the content is set.
LEMMA CountContent ==
  ASSUME NEW r, NEW o, NEW n, Fits(r, o, n), Counted(r, o), ~r.frozen,
         NEW length \in Lengths \cup {Chunked}
  PROVE  Counted(WithContent(r, length), o)
<1> DEFINE w == WithContent(r, length)
<1>1. length \in Nat \/ length = -1
  BY ResponseAssumption DEF Chunked
<1>2. r.bodyout = 0 /\ (r.cl # Unset => r.cl \in Nat)
  BY DEF Counted, Fits, Response
<1>3. /\ ~w.frozen /\ w.bodyout = 0
      /\ w.contentlength >= 0 => w.cl = w.contentlength
      /\ w.cl # Unset => w.cl \in Nat
  <2>1. CASE length \in Nat
    <3> DEFINE v == [r EXCEPT !.cl = length, !.contentlength = length]
    <3>1. w = v
      BY <2>1 DEF WithContent
    <3>2. /\ v.frozen = r.frozen /\ v.cl = length /\ v.contentlength = length
          /\ v.bodyout = r.bodyout
      BY ZenonT(30) DEF Fits, Response
    <3> HIDE DEF v
    <3>3. QED
      BY <1>2, <2>1, <3>1, <3>2
  <2>2. CASE length = -1
    <3> DEFINE v == [r EXCEPT !.te = TRUE, !.contentlength = Chunked]
    <3>1. w = v
      BY <2>2 DEF WithContent
    <3>2. /\ v.frozen = r.frozen /\ v.cl = r.cl /\ v.contentlength = Chunked
          /\ v.bodyout = r.bodyout
      BY ZenonT(30) DEF Fits, Response
    <3> HIDE DEF v
    <3>3. QED
      BY <1>2, <3>1, <3>2 DEF Chunked
  <2>3. QED
    BY <1>1, <2>1, <2>2
<1> HIDE DEF w
<1>4. Counted(w, o)
  BY <1>2, <1>3 DEF Counted
<1>5. QED
  BY <1>4 DEF w

\* Sending data keeps bodyout the size of what is behind the header.
LEMMA CountSends ==
  ASSUME CountInv, NEW r, NEW n \in Nat, Sends(r, n),
         Fits(r, out, answered), Counted(r, out)
  PROVE  Counted(resp, out)'
<1>1. CASE Refuses(r, n)
  <2>1. out' = out /\ resp' = r
    BY <1>1 DEF Sends, Call, Fits
  <2>2. QED
    BY <2>1
<1>2. CASE ~Refuses(r, n)
  <2> DEFINE f == Froze(r)
             head == out \o HeaderOf(r)
             b == [f EXCEPT !.bodyout = @ + n]
             piece == IF n > 0 THEN <<DataOf(n)>> ELSE <<>>
  <2>1. /\ r.contentlength >= 0 /\ r.cl # Unset /\ r.cl = r.contentlength
        /\ r.bodyout + n <= r.cl
    BY <1>2 DEF Refuses, Fits, Counted, Response, Chunked, Unset
  <2>2. Fits(f, head, answered) /\ f.frozen /\ f.cl = r.cl /\ f.contentlength = r.contentlength
    BY <2>1, HeaderLemma DEF HasContent
  <2>3. Counted(f, head) /\ f.bodyout = r.bodyout
    BY CountHeader DEF Froze, Fits, Response
  <2>4. resp' = b /\ out' = out \o (HeaderOf(r) \o piece)
    BY <1>2, Zenon DEF Sends, Call
  <2> HIDE DEF f
  <2>5. /\ b \in Response /\ b.frozen = f.frozen /\ b.cl = f.cl /\ b.te = f.te
        /\ b.contentlength = f.contentlength /\ b.bodyout = f.bodyout + n
    <3>1. f \in Response /\ f.bodyout + n \in Nat
      BY <2>2 DEF Fits, Response
    <3>2. b \in Response
      BY <3>1, Zenon DEF Response
    <3>3. QED
      BY <3>1, <3>2, ZenonT(30) DEF Response
  <2> HIDE DEF b, head
  <2>6. HeaderOf(r) \in Seq(Item) /\ out \in Seq(Item)
    BY KindLemma DEF Fits, HeaderOf
  <2>7. CASE n > 0
    <3>1. DataOf(n) \in Item /\ DataOf(n).kind = "data" /\ DataOf(n).size = n
      BY KindLemma DEF DataOf
    <3>2. Counted(b, Append(head, DataOf(n)))
      <4>1. b.bodyout = f.bodyout + DataOf(n).size /\ f.cl # Unset /\ b.bodyout <= f.cl
        BY <2>1, <2>2, <2>3, <2>5, <3>1
      <4>2. QED
        BY <2>2, <2>3, <2>5, <3>1, <4>1, CountItem
    <3>3. Append(head, DataOf(n)) = out \o (HeaderOf(r) \o piece)
      BY <2>6, <2>7, KindLemma, PutLemma DEF head
    <3>4. QED
      BY <2>4, <3>2, <3>3
  <2>8. CASE ~(n > 0)
    <3>1. out \o (HeaderOf(r) \o piece) = head
      BY <2>6, <2>8, PutLemma DEF head
    <3>2. b.bodyout = f.bodyout
      BY <2>2, <2>5, <2>8 DEF Fits, Response
    <3>3. Counted(b, head)
      BY <2>3, <2>5, <3>2 DEF Counted
    <3>4. QED
      BY <2>4, <3>1, <3>3
  <2>9. QED
    BY <2>7, <2>8
<1>3. QED
  BY <1>1, <1>2

\* So does a chunk.
LEMMA CountChunk ==
  ASSUME CountInv, NEW n \in Nat, SendChunk(n)
  PROVE  Counted(resp, out)'
<1> DEFINE r == resp
           x == IF n > 0 THEN ChunkOf(n, Decimal[n]) ELSE LastChunk
           head == out \o HeaderOf(r)
<1>1. Fits(r, out, answered) /\ Counted(r, out) /\ (ContentFirst => HasContent(r))
  BY DEF CountInv, Inv, SendChunk
<1>2. CASE r.contentlength >= 0
  <2>1. out' = out /\ resp' = r
    BY <1>1, <1>2 DEF SendChunk, Call, Fits
  <2>2. QED
    BY <1>1, <2>1
<1>3. CASE ~(r.contentlength >= 0)
  <2>1. Fits(Froze(r), head, answered) /\ Froze(r).frozen
    BY <1>1, HeaderLemma
  <2>2. Counted(Froze(r), head)
    BY <1>1, CountHeader
  <2>3. x \in Item /\ x.kind # "head" /\ x.kind # "data"
    BY KindLemma
  <2>4. resp' = Froze(r) /\ out' = out \o (HeaderOf(r) \o <<x>>)
    BY <1>3 DEF SendChunk, Call
  <2>5. HeaderOf(r) \in Seq(Item) /\ out \in Seq(Item) /\ Froze(r) \in Response
    BY <1>1, <2>1, KindLemma DEF Fits, HeaderOf
  <2> HIDE DEF x
  <2>6. Counted(Froze(r), Append(head, x))
    <3> DEFINE f == Froze(r)
    <3>1. Fits(f, head, answered) /\ Counted(f, head) /\ f.frozen /\ f \in Response
      BY <2>1, <2>2, <2>5
    <3> HIDE DEF f, head
    <3>2. Counted(f, Append(head, x))
      BY <2>3, <3>1, CountItem
    <3>3. QED
      BY <3>2 DEF f
  <2>7. Append(head, x) = out \o (HeaderOf(r) \o <<x>>)
    BY <2>3, <2>5, PutLemma
  <2>8. QED
    BY <2>4, <2>6, <2>7
<1>4. QED
  BY <1>2, <1>3

\* So does every call.
LEMMA CountNext ==
  ASSUME CountInv, [Next]_vars
  PROVE  Counted(resp, out)'
<1>1. CASE UNCHANGED vars
  BY <1>1 DEF CountInv, vars
<1>2. ASSUME NEW length \in Lengths \cup {Chunked}, SetContent(length)
      PROVE  Counted(resp, out)'
  <2>1. out' = out /\ resp' = (IF resp.frozen THEN resp ELSE WithContent(resp, length))
    BY <1>2 DEF SetContent, Call, CountInv, Inv, Fits
  <2>2. QED
    BY <2>1, CountContent DEF CountInv, Inv
<1>3. ASSUME NEW length \in Lengths \cup {Chunked}, Respond(length)
      PROVE  Counted(resp, out)'
  <2>1. CASE resp.frozen
    <3>1. out' = out /\ resp' = resp
      BY <1>3, <2>1 DEF Respond, Call, CountInv, Inv, Fits
    <3>2. QED
      BY <3>1 DEF CountInv
  <2>2. CASE ~resp.frozen
    <3> DEFINE w == WithContent(resp, length)
    <3>1. Sends(w, length)
      BY <1>3, <2>2 DEF Respond
    <3>2. Fits(w, out, answered) /\ Counted(w, out)
      BY <2>2, ContentLemma, CountContent DEF CountInv, Inv
    <3>3. CASE length \in Lengths
      BY <3>1, <3>2, <3>3, CountSends, ResponseAssumption
    <3>4. CASE length = Chunked
      <4>1. Refuses(w, length)
        BY <2>2, <3>4 DEF Refuses, WithContent, CountInv, Inv, Fits, Response, Chunked
      <4>2. out' = out /\ resp' = w
        BY <3>1, <4>1 DEF Sends, Call, CountInv, Inv, Fits
      <4>3. QED
        BY <3>2, <4>2
    <3>5. QED
      BY <3>3, <3>4
  <2>3. QED
    BY <2>1, <2>2
<1>4. CASE SendHeader
  <2>1. resp' = Froze(resp) /\ out' = out \o HeaderOf(resp)
    BY <1>4 DEF SendHeader, Call
  <2>2. QED
    BY <2>1, CountHeader DEF CountInv, Inv
<1>5. ASSUME NEW n \in Sizes, SendData(n)
      PROVE  Counted(resp, out)'
  BY <1>5, CountSends, ResponseAssumption DEF SendData, CountInv, Inv
<1>6. ASSUME NEW n \in Sizes, SendChunk(n)
      PROVE  Counted(resp, out)'
  BY <1>6, CountChunk, ResponseAssumption
<1>7. CASE Renew
  <2>1. /\ ~NewResponse.frozen /\ NewResponse.bodyout = 0 /\ NewResponse.cl = Unset
        /\ ~(NewResponse.contentlength >= 0)
    BY DEF NewResponse, Chunked
  <2>2. Counted(NewResponse, out)
    BY <2>1 DEF CountInv, Counted
  <2>3. QED
    BY <1>7, <2>2 DEF Renew
<1>8. QED
  BY <1>1, <1>2, <1>3, <1>4, <1>5, <1>6, <1>7 DEF Next

\* The content sent under a Content-Length never exceeds it, for any lengths,
\* sizes and order of the calls: ad_http_send_data refuses what would, and
\* bodyout, which it asks, counts what lies behind the header block that the
\* client reads.
THEOREM AlwaysWithinLength == Spec => []WithinLength
<1>1. Init => CountInv
  <2> SUFFICES ASSUME Init PROVE CountInv
    OBVIOUS
  <2>1. /\ ~resp.frozen /\ resp.bodyout = 0 /\ resp.cl = Unset
        /\ ~(resp.contentlength >= 0) /\ Heads(out) = {}
    BY DEF Init, NewResponse, Chunked, Heads
  <2>2. QED
    BY <2>1, InvInit DEF CountInv, Counted
<1>2. CountInv /\ [Next]_vars => CountInv'
  BY InvNext, CountNext DEF CountInv
<1>3. CountInv => WithinLength
  <2> SUFFICES ASSUME CountInv, NEW h \in DOMAIN out, IsHead(h), out[h].cl # Unset
               PROVE  MapThenSumSet(LAMBDA i : out[i].size,
                        {i \in ItemsOf(h) : out[i].kind = "data"}) <= out[h].cl
    BY DEF WithinLength
  <2>1. h \in Heads(out)
    BY DEF Heads, IsHead
  <2>2. {i \in ItemsOf(h) : out[i].kind = "data"} = DataUnder(out, h)
    <3>1. ASSUME NEW i \in DOMAIN out PROVE i \in ItemsOf(h) <=> Under(out, h, i)
      <4>1. ASSUME NEW j \in (h + 1)..i PROVE IsHead(j) <=> j \in Heads(out)
        BY DEF Heads, IsHead, CountInv, Inv, Fits
      <4>2. QED
        BY <2>1, <4>1 DEF ItemsOf, Under
    <3>2. QED
      BY <3>1 DEF DataUnder, ItemsOf
  <2>3. Sent(out, h) <= out[h].cl
    BY <2>1 DEF CountInv, Counted
  <2>4. QED
    BY <2>2, <2>3, Zenon DEF Sent, Total
<1>4. QED
  BY <1>1, <1>2, <1>3, PTL DEF Spec
=============================================================================
