---------------------------- MODULE AdConnProofs ----------------------------
(***************************************************************************)
(* Proofs about AdConn for any number of connections and hooks, any        *)
(* methods, options and hook behaviour.                                    *)
(*                                                                         *)
(* The argument follows conn_cb.  Sound(k) is what every callback may rely *)
(* on when it enters conn_cb with an open connection k, and what survives  *)
(* a walk of the hook chain; ConnInv(k) is what holds between callbacks.   *)
(* ConnCbLemma says that conn_cb leads from a sound connection to a        *)
(* connection with ConnInv, and each action is an instance of it.          *)
(*                                                                         *)
(* For what single steps do, Outcome is all that a callback can do to a    *)
(* connection, as seen from the hooks: OutcomeLemma reads it off conn_cb,  *)
(* StepLemma says that every step of the loop leaves all connections       *)
(* alone, opens one, or has an outcome for one.                            *)
(***************************************************************************)
EXTENDS AdConn, SequenceTheorems, TLAPS

MethodNames == Methods \cup {NoMethod}

\* The events conn_cb is entered with.
CbEvents == {EvRead, EvWrite, EvClose, EvTimeout}

\* Hooks that write no output once they hear CLOSE, and hooks that attach
\* userdata on INIT only: the assumptions of NothingUnsent and NothingLost.
SilentOnClose == \A ev \in Writes : "CLOSE" \notin ev
AttachOnce    == \A ev \in Attaches : "INIT" \in ev
NoWriteError  == "WRITE_ERROR" \notin Failures

\* Hooks that let INIT and CLOSE pass on to the rest of the chain, and the
\* hooks that then hear every INIT and CLOSE; without it only the top hook.
Polite ==
  \A ev \in Events : "INIT" \in ev \/ "CLOSE" \in ev => Replies[ev] \subseteq {AD_OK}

Attentive ==
  {1} \cup {h \in Hooks : Polite /\ HookMethod[h] = NoMethod}

\* Output has a write event behind it, a connection that is not closing is
\* read, and the attentive hooks are inside a session.
Sound(k) ==
  /\ k \in ConnType
  /\ k.live = "open"
  /\ \A h \in Attentive : k.told[h] = "init"
  /\ k.out => k.wr # "idle"
  /\ k.status # AD_CLOSE => k.rd
  /\ NoWriteError => k.wr # "failed"
  /\ AttachOnce => ~k.lost

ConnInv(k) ==
  /\ k \in ConnType
  /\ k.live = "open" => Sound(k)
  /\ k.live = "open" /\ k.status = AD_CLOSE /\ NoWriteError => k.wr = "armed"
  /\ k.live # "open" => k.slot = {} /\ (AttachOnce => ~k.lost)
  /\ k.live = "freed" => /\ \A h \in Attentive : k.told[h] = "close"
                         /\ SilentOnClose => ~k.out

Inv == TypeOK /\ \A c \in Conns : ConnInv(conn[c])

-----------------------------------------------------------------------------
(* The operators the callbacks are built from.                             *)

\* Every walk of the chain starts with the top hook and answers a status; one
\* for INIT or CLOSE reaches all the attentive hooks.
LEMMA WalksLemma ==
  ASSUME NEW ev \in Events, NEW m \in MethodNames, NEW w \in Walks(ev, m)
  PROVE  /\ w.status \in Status
         /\ w.hooks \in SUBSET Hooks
         /\ 1 \in w.hooks
         /\ w.method \in MethodNames
         /\ "INIT" \in ev \/ "CLOSE" \in ev => Attentive \subseteq w.hooks
<1>1. PICK n \in MethodAfter(ev, m) : w \in WalksTo(ev, m, n)
  BY DEF Walks
<1>2. 1 \in Chain(m, n) /\ Attentive \subseteq Chain(m, n)
  BY HookAssumption DEF Chain, Matches, Hooks, Attentive
<1>3. n \in MethodNames
  BY DEF MethodAfter, MethodNames
<1>4. CASE w = [status |-> AD_OK, hooks |-> Chain(m, n), method |-> n]
  <2>1. Chain(m, n) \in SUBSET Hooks
    BY DEF Chain
  <2>2. QED
    BY <1>2, <1>3, <1>4, <2>1 DEF Status
<1>5. CASE w \in {[status |-> s, hooks |-> {g \in Chain(m, n) : g <= h}, method |-> n] :
                    h \in Chain(m, n), s \in Replies[ev] \ {AD_OK}}
  <2>1. PICK h \in Chain(m, n), s \in Replies[ev] \ {AD_OK} :
          w = [status |-> s, hooks |-> {g \in Chain(m, n) : g <= h}, method |-> n]
    BY <1>5
  <2>2. s \in Status
    BY OptionAssumption
  <2>3. /\ {g \in Chain(m, n) : g <= h} \in SUBSET Hooks
        /\ 1 \in {g \in Chain(m, n) : g <= h}
    BY <1>2, HookAssumption DEF Chain, Hooks
  <2>4. "INIT" \in ev \/ "CLOSE" \in ev => Attentive = {1}
    BY <2>1 DEF Attentive, Polite
  <2>5. QED
    BY <1>3, <2>1, <2>2, <2>3, <2>4
<1>6. QED
  BY <1>1, <1>4, <1>5 DEF WalksTo

\* An event whose answer call_hooks drops reaches the same hooks.
LEMMA AudiencesLemma ==
  ASSUME NEW ev \in Events, NEW m \in MethodNames, NEW hs \in Audiences(ev, m)
  PROVE  /\ hs \in SUBSET Hooks /\ 1 \in hs
         /\ "INIT" \in ev \/ "CLOSE" \in ev => Attentive \subseteq hs
  BY WalksLemma DEF Audiences

\* The attentive hooks are hooks of the chain.
LEMMA AttentiveLemma == Attentive \subseteq Hooks /\ 1 \in Attentive
  BY HookAssumption DEF Attentive, Hooks

\* What hooks do during an event respects what is assumed of them: no output
\* on CLOSE, userdata on INIT only.
LEMMA DeedsLemma ==
  ASSUME NEW ev \in Events, NEW d \in Deeds(ev)
  PROVE  /\ d.wrote \in BOOLEAN /\ d.ate \in BOOLEAN
         /\ d.attach \in SUBSET Slots
         /\ SilentOnClose /\ "CLOSE" \in ev => ~d.wrote
         /\ AttachOnce /\ "INIT" \notin ev => d.attach = {}
  BY DEF Deeds, SilentOnClose, AttachOnce

\* A dispatch keeps the type of the connection and touches only its buffers,
\* its userdata and the history of the hooks.
LEMMA HeardLemma ==
  ASSUME NEW k \in ConnType, NEW ev \in Events,
         NEW hs \in SUBSET Hooks, NEW d \in Deeds(ev)
  PROVE  LET j == Heard(k, ev, hs, d) IN
         /\ j \in ConnType
         /\ j.live = k.live /\ j.status = k.status /\ j.rd = k.rd
         /\ j.method = k.method
         /\ (k.out => k.wr # "idle") => (j.out => j.wr # "idle")
         /\ k.wr # "failed" => j.wr # "failed"
         /\ k.wr = "armed" => j.wr = "armed"
         /\ SilentOnClose /\ "CLOSE" \in ev /\ ~k.out => ~j.out
         /\ AttachOnce /\ "INIT" \notin ev /\ ~k.lost => ~j.lost
         /\ k.slot = {} /\ ~k.lost => ~j.lost
<1> DEFINE o == k.out \/ d.wrote
           w == IF d.wrote /\ k.wr # "failed" THEN "armed" ELSE k.wr
           i == k.in /\ ~d.ate
           l == k.lost \/ PushedOut(k.slot, d.attach)
           s == k.slot \cup d.attach
           t == [h \in Hooks |-> IF h \in hs THEN Told(ev, k.told[h]) ELSE k.told[h]]
           j == [k EXCEPT !.out = o, !.wr = w, !.in = i, !.lost = l, !.slot = s, !.told = t]
<1>1. \A was \in {"none", "init", "close"} : Told(ev, was) \in {"none", "init", "close"}
  BY DEF Told
<1>2. d.wrote \in BOOLEAN /\ d.ate \in BOOLEAN /\ d.attach \in SUBSET Slots
  BY DeedsLemma
<1>3. t \in [Hooks -> {"none", "init", "close"}]
  BY <1>1 DEF ConnType
<1>4. o \in BOOLEAN /\ i \in BOOLEAN /\ l \in BOOLEAN
  BY Zenon
<1>5. w \in {"idle", "armed", "failed"} /\ s \in SUBSET Slots
  BY <1>2 DEF ConnType
<1>6. Heard(k, ev, hs, d) = j
  BY Zenon DEF Heard
<1> HIDE DEF o, w, i, l, s, t
<1>7. j \in ConnType
  BY <1>3, <1>4, <1>5, Zenon DEF ConnType
<1>8. /\ j.live = k.live /\ j.status = k.status /\ j.rd = k.rd
      /\ j.method = k.method
      /\ j.out = o /\ j.wr = w /\ j.lost = l /\ j.told = t
  BY SMT DEF ConnType
<1>9. (k.out => k.wr # "idle") => (j.out => j.wr # "idle")
  <2>1. o => k.out \/ d.wrote
    BY DEF o
  <2>2. (d.wrote => w # "idle") /\ (k.wr # "idle" => w # "idle")
    BY SMT DEF w
  <2>3. QED
    BY <1>8, <2>1, <2>2, Zenon
<1>10. /\ k.wr # "failed" => j.wr # "failed"
       /\ k.wr = "armed" => j.wr = "armed"
  BY <1>8, SMT DEF w
<1>11. SilentOnClose /\ "CLOSE" \in ev /\ ~k.out => ~j.out
  BY <1>8, DeedsLemma, Zenon DEF o
<1>12. /\ AttachOnce /\ "INIT" \notin ev /\ ~k.lost => ~j.lost
       /\ k.slot = {} /\ ~k.lost => ~j.lost
  <2>1. PushedOut(k.slot, d.attach) => k.slot # {} /\ d.attach # {}
    BY DEF PushedOut
  <2>2. QED
    BY <1>8, <2>1, DeedsLemma, Zenon DEF l
<1>13. QED
  BY <1>3, <1>6, <1>7, <1>8, <1>9, <1>10, <1>11, <1>12, Zenon

\* A dispatch tells the hooks that hear it, and changes no other hook's history.
LEMMA ToldLemma ==
  ASSUME NEW k \in ConnType, NEW ev, NEW hs, NEW d, NEW h \in Attentive
  PROVE  Heard(k, ev, hs, d).told[h]
           = IF h \in hs THEN Told(ev, k.told[h]) ELSE k.told[h]
<1>1. Heard(k, ev, hs, d).told
        = [g \in Hooks |-> IF g \in hs THEN Told(ev, k.told[g]) ELSE k.told[g]]
  BY DEF Heard, ConnType
<1>2. QED
  BY <1>1, AttentiveLemma

\* conn_reset releases the userdata and forgets method and status, and
\* leaves the buffers and what the hooks were told alone.
LEMMA ResetLemma ==
  ASSUME NEW k \in ConnType
  PROVE  LET j == Reset(k) IN
         /\ j \in ConnType
         /\ j.live = k.live /\ j.out = k.out /\ j.rd = k.rd /\ j.wr = k.wr
         /\ j.lost = k.lost /\ j.told = k.told
         /\ j.status = AD_OK /\ j.slot = {} /\ j.method = NoMethod
<1>1. Reset(k) \in ConnType
  <2>1. AD_OK \in Status /\ {} \in SUBSET Slots /\ NoMethod \in Methods \cup {NoMethod}
    BY DEF Status
  <2>2. QED
    BY <2>1, Zenon DEF Reset, ConnType
<1>2. QED
  BY <1>1 DEF Reset, ConnType

\* conn_free marks the connection freed with nothing attached; what was in
\* the out-buffer is what bufferevent_free discards.
LEMMA FreeLemma ==
  ASSUME NEW k \in ConnType
  PROVE  LET j == Free(k) IN
         /\ j \in ConnType
         /\ j.live = "freed" /\ j.slot = {}
         /\ j.out = k.out /\ j.lost = k.lost /\ j.told = k.told
<1> DEFINE r == Reset(k)
<1>1. r \in ConnType /\ r.out = k.out /\ r.lost = k.lost /\ r.told = k.told /\ r.slot = {}
  BY ResetLemma
<1> HIDE DEF r
<1>2. [r EXCEPT !.live = "freed", !.rd = FALSE, !.wr = "idle"] \in ConnType
  BY <1>1, Zenon DEF ConnType
<1>3. QED
  BY <1>1, <1>2 DEF Free, ConnType, r

\* The end of a callback keeps the invariant if it leaves its connection in
\* order.
LEMMA LeaveLemma ==
  ASSUME Inv, NEW c \in Conns, NEW k, ConnInv(k), NEW b \in Seq(CallType),
         Leave(c, k, b)
  PROVE  Inv'
<1>1. conn' \in [Conns -> ConnType]
  BY DEF Inv, TypeOK, Leave, ConnInv
<1>2. calls' \in [Conns -> Seq(CallType)]
  <2>1. <<>> \in Seq(CallType)
    OBVIOUS
  <2>2. QED
    BY <2>1, Zenon DEF Leave
<1>3. ASSUME NEW x \in Conns
      PROVE  ConnInv(conn'[x])
  BY DEF Inv, TypeOK, Leave
<1>4. TypeOK'
  BY <1>1, <1>2 DEF Inv, TypeOK, Leave
<1>5. QED
  BY <1>3, <1>4 DEF Inv, ConnInv, Sound

-----------------------------------------------------------------------------
(* The branches of conn_cb, entered with a sound connection.               *)

\* CLOSE and then INIT on a reset connection: the session is the next one.
LEMMA RenewLemma ==
  ASSUME Inv, NEW c \in Conns, NEW k, Sound(k), NEW b \in Seq(CallType),
         Renew(c, k, b)
  PROVE  Inv'
<1>1. PICK hs1 \in Audiences(EvClose, k.method), d1 \in Deeds(EvClose),
           hs2 \in Audiences(EvRenew, NoMethod), d2 \in Deeds(EvRenew) :
        Leave(c, Heard(Reset(Heard(k, EvClose, hs1, d1)), EvRenew, hs2, d2),
              b \o <<Call(EvClose, hs1), Call(EvRenew, hs2)>>)
  BY Zenon DEF Renew
<1> DEFINE k1 == Heard(k, EvClose, hs1, d1)
           k2 == Reset(k1)
           k3 == Heard(k2, EvRenew, hs2, d2)
<1>2. EvClose \in Events /\ EvRenew \in Events
  BY DEF Events
<1>3. k.method \in MethodNames /\ NoMethod \in MethodNames
  BY DEF Sound, ConnType, MethodNames
<1>4. /\ hs1 \in SUBSET Hooks /\ 1 \in hs1
      /\ hs2 \in SUBSET Hooks /\ 1 \in hs2
  BY <1>2, <1>3, AudiencesLemma
<1>5. /\ k1 \in ConnType
      /\ k1.live = "open" /\ k1.rd = k.rd
      /\ k1.out => k1.wr # "idle"
      /\ NoWriteError => k1.wr # "failed"
      /\ AttachOnce => ~k1.lost
  BY <1>2, <1>4, HeardLemma DEF Sound, EvClose
<1>6. /\ k2 \in ConnType
      /\ k2.live = "open" /\ k2.rd = k.rd /\ k2.status = AD_OK /\ k2.slot = {}
      /\ k2.out => k2.wr # "idle"
      /\ NoWriteError => k2.wr # "failed"
      /\ AttachOnce => ~k2.lost
  BY <1>5, ResetLemma
<1> HIDE DEF k2
<1>7. /\ k3 \in ConnType
      /\ k3.live = "open" /\ k3.rd = k.rd /\ k3.status = AD_OK
      /\ k3.out => k3.wr # "idle"
      /\ NoWriteError => k3.wr # "failed"
      /\ AttachOnce => ~k3.lost
  BY <1>2, <1>4, <1>6, HeardLemma
<1>8. \A h \in Attentive : k3.told[h] = "init"
  <2>1. \A was : Told(EvRenew, was) = "init"
    BY DEF Told, EvRenew
  <2>2. Attentive \subseteq hs2
    BY <1>2, <1>3, AudiencesLemma DEF EvRenew
  <2>3. QED
    BY <1>6, <2>1, <2>2, ToldLemma
<1> HIDE DEF k3
<1>9. ConnInv(k3)
  BY <1>7, <1>8 DEF ConnInv, Sound, Renew, AD_OK, AD_DONE, AD_CLOSE
<1>10. b \o <<Call(EvClose, hs1), Call(EvRenew, hs2)>> \in Seq(CallType)
  BY <1>2, <1>4 DEF Call, CallType
<1>11. QED
  BY <1>1, <1>9, <1>10, LeaveLemma DEF k3, k2

\* AD_DONE without pipelining drains the input and nothing else.
LEMMA ParkLemma ==
  ASSUME Inv, NEW c \in Conns, NEW ev, NEW k, Sound(k), NEW b \in Seq(CallType),
         Park(c, ev, k, b)
  PROVE  Inv'
<1> DEFINE i == k.in /\ ev # EvRead
           j == [k EXCEPT !.in = i]
<1>1. i \in BOOLEAN
  BY Zenon
<1>2. Leave(c, j, b)
  BY Zenon DEF Park
<1> HIDE DEF i
<1>3. j \in ConnType
  BY <1>1, Zenon DEF Sound, ConnType
<1>4. /\ j.live = k.live /\ j.status = k.status /\ j.rd = k.rd /\ j.out = k.out
      /\ j.wr = k.wr /\ j.lost = k.lost /\ j.told = k.told
  BY SMT DEF Sound, ConnType
<1> HIDE DEF j
<1>5. ConnInv(j)
  BY <1>3, <1>4 DEF ConnInv, Sound, Park, AD_DONE, AD_CLOSE
<1>6. QED
  BY <1>2, <1>5, LeaveLemma

\* The last event is a CLOSE of some kind, and conn_free leaves nothing.
LEMMA ReleaseLemma ==
  ASSUME Inv, NEW c \in Conns, NEW ev \in CbEvents, NEW k, Sound(k),
         NEW b \in Seq(CallType), Release(c, ev, k, b)
  PROVE  Inv'
<1> DEFINE last == IF "CLOSE" \in ev THEN ev ELSE EvClose
<1>1. PICK hs \in Audiences(last, k.method), d \in Deeds(last) :
        Leave(c, Free(Heard(k, last, hs, d)), b \o <<Call(last, hs)>>)
  BY Zenon DEF Release
<1>2. last \in {EvClose, EvTimeout}
  BY DEF CbEvents, EvRead, EvWrite, EvClose, EvTimeout
<1> HIDE DEF last
<1>3. last \in Events /\ "CLOSE" \in last /\ "INIT" \notin last
  BY <1>2 DEF Events, EvClose, EvTimeout
<1>4. k.method \in MethodNames
  BY DEF Sound, ConnType, MethodNames
<1>5. hs \in SUBSET Hooks /\ 1 \in hs
  BY <1>3, <1>4, AudiencesLemma
<1> DEFINE k1 == Heard(k, last, hs, d)
           k2 == Free(k1)
<1>6. /\ k1 \in ConnType
      /\ \A h \in Attentive : k1.told[h] = "close"
      /\ SilentOnClose => ~k1.out
      /\ AttachOnce => ~k1.lost
  <2>1. \A was : Told(last, was) = "close"
    BY <1>3 DEF Told
  <2>2. ~k.out
    BY DEF Release
  <2>3. Attentive \subseteq hs
    BY <1>3, <1>4, AudiencesLemma
  <2>4. \A h \in Attentive : k1.told[h] = "close"
    BY <2>1, <2>3, ToldLemma DEF Sound
  <2>5. QED
    BY <1>3, <1>5, <2>2, <2>4, HeardLemma DEF Sound
<1> HIDE DEF k1
<1>7. /\ k2 \in ConnType
      /\ k2.live = "freed" /\ k2.slot = {}
      /\ \A h \in Attentive : k2.told[h] = "close"
      /\ SilentOnClose => ~k2.out
      /\ AttachOnce => ~k2.lost
  BY <1>6, FreeLemma
<1> HIDE DEF k2
<1>8. ConnInv(k2)
  BY <1>7 DEF ConnInv
<1>9. b \o <<Call(last, hs)>> \in Seq(CallType)
  BY <1>3, <1>5 DEF Call, CallType
<1>10. QED
  BY <1>1, <1>8, <1>9, LeaveLemma DEF k1, k2

\* A connection that conn_cb leaves as it is stays in order: if it is
\* closing, the output it waits for has a write event pending.
LEMMA KeepLemma ==
  ASSUME Inv, NEW c \in Conns, NEW k, Sound(k), NEW b \in Seq(CallType),
         Keep(c, k, b)
  PROVE  Inv'
<1>1. ConnInv(k)
  BY DEF ConnInv, Sound, Keep, ConnType, AD_OK, AD_TAKEOVER, AD_CLOSE
<1>2. QED
  BY <1>1, LeaveLemma DEF Keep

\* The four ways conn_cb ends, by the status the hooks left.
LEMMA SettleLemma ==
  ASSUME Inv, NEW c \in Conns, NEW ev \in CbEvents, NEW k, Sound(k),
         NEW b \in Seq(CallType), Settle(c, ev, k, b)
  PROVE  Inv'
<1>1. CASE Renew(c, k, b)
  BY <1>1, RenewLemma
<1>2. CASE Park(c, ev, k, b)
  BY <1>2, ParkLemma
<1>3. CASE Release(c, ev, k, b)
  BY <1>3, ReleaseLemma
<1>4. CASE Keep(c, k, b)
  BY <1>4, KeepLemma
<1>5. QED
  BY <1>1, <1>2, <1>3, <1>4 DEF Settle

\* The connection after conn_cb has asked its hooks: the walk w, the deeds d.
Asked(ev, k, w, d) ==
  [Heard(k, ev, w.hooks, d) EXCEPT !.status = Raised(@, w.status), !.method = w.method]

\* Asking leaves a sound connection sound: hooks are asked about reads and
\* writes only, so the session goes on, and the connection is still read.
LEMMA AskedLemma ==
  ASSUME NEW ev \in CbEvents, NEW k, Sound(k),
         "CLOSE" \in ev => k.status = AD_CLOSE, k.status \in {AD_OK, AD_TAKEOVER},
         NEW w \in Walks(ev, k.method), NEW d \in Deeds(ev)
  PROVE  /\ Sound(Asked(ev, k, w, d))
         /\ ev \in Events /\ ev \in {EvRead, EvWrite}
         /\ w.hooks \in SUBSET Hooks /\ 1 \in w.hooks
<1> DEFINE k1 == Heard(k, ev, w.hooks, d)
           s == Raised(k1.status, w.status)
           k2 == [k1 EXCEPT !.status = s, !.method = w.method]
<1>1. ev \in Events /\ ev \in {EvRead, EvWrite}
  BY DEF CbEvents, Events, EvClose, EvTimeout, AD_OK, AD_TAKEOVER, AD_CLOSE
<1>2. k.method \in MethodNames
  BY DEF Sound, ConnType, MethodNames
<1>3. /\ w.status \in Status /\ w.method \in Methods \cup {NoMethod}
      /\ w.hooks \in SUBSET Hooks /\ 1 \in w.hooks
  BY <1>1, <1>2, WalksLemma DEF MethodNames
<1>4. /\ k1 \in ConnType
      /\ k1.live = "open" /\ k1.rd /\ k1.status = k.status
      /\ \A h \in Attentive : k1.told[h] = "init"
      /\ k1.out => k1.wr # "idle"
      /\ NoWriteError => k1.wr # "failed"
      /\ AttachOnce => ~k1.lost
  <2>1. \A was : Told(ev, was) = was
    BY <1>1 DEF Told, EvRead, EvWrite
  <2>2. "INIT" \notin ev
    BY <1>1 DEF EvRead, EvWrite
  <2>3. k.rd
    BY DEF Sound, AD_OK, AD_TAKEOVER, AD_CLOSE
  <2>4. \A h \in Attentive : k1.told[h] = "init"
    BY <2>1, ToldLemma DEF Sound
  <2>5. QED
    BY <1>1, <1>3, <2>2, <2>3, <2>4, HeardLemma DEF Sound
<1>5. s \in Status
  BY <1>3, <1>4 DEF Raised, ConnType
<1>6. Asked(ev, k, w, d) = k2
  BY Zenon DEF Asked
<1> HIDE DEF k1, s
<1>7. k2 \in ConnType
  BY <1>3, <1>4, <1>5, Zenon DEF ConnType
<1>8. /\ k2.live = k1.live /\ k2.rd = k1.rd /\ k2.told = k1.told
      /\ k2.out = k1.out /\ k2.wr = k1.wr /\ k2.lost = k1.lost
  BY <1>4, ZenonT(30) DEF ConnType
<1> HIDE DEF k2
<1>9. Sound(k2)
  BY <1>4, <1>7, <1>8, Zenon DEF Sound
<1>10. QED
  BY <1>1, <1>3, <1>6, <1>9

\* conn_cb as a whole.  A CLOSE event finds the status at AD_CLOSE already,
\* because conn_event_cb sets it.
LEMMA ConnCbLemma ==
  ASSUME Inv, NEW c \in Conns, NEW ev \in CbEvents, NEW k, Sound(k),
         "CLOSE" \in ev => k.status = AD_CLOSE,
         ConnCb(c, ev, k)
  PROVE  Inv'
<1>1. CASE k.status \notin {AD_OK, AD_TAKEOVER}
  <2>1. Settle(c, ev, k, <<>>)
    BY <1>1 DEF ConnCb
  <2>2. <<>> \in Seq(CallType)
    OBVIOUS
  <2>3. QED
    BY <2>1, <2>2, SettleLemma
<1>2. CASE k.status \in {AD_OK, AD_TAKEOVER}
  <2>1. PICK w \in Walks(ev, k.method), d \in Deeds(ev) :
          Settle(c, ev, Asked(ev, k, w, d), <<Call(ev, w.hooks)>>)
    BY <1>2, Zenon DEF ConnCb, Asked
  <2>2. /\ Sound(Asked(ev, k, w, d)) /\ ev \in Events
        /\ w.hooks \in SUBSET Hooks
    BY <1>2, AskedLemma
  <2>3. <<Call(ev, w.hooks)>> \in Seq(CallType)
    BY <2>2 DEF Call, CallType
  <2>4. QED
    BY <2>1, <2>2, <2>3, SettleLemma
<1>3. QED
  BY <1>1, <1>2

-----------------------------------------------------------------------------
(* The invariant.                                                          *)

\* A server without connections is in order.
LEMMA InvInit ==
  ASSUME Init
  PROVE  Inv
<1>1. NoConn \in ConnType
  BY DEF NoConn, ConnType, Status
<1>2. NoConn.live = "none" /\ NoConn.slot = {} /\ NoConn.lost = FALSE
  BY DEF NoConn
<1>3. ConnInv(NoConn)
  BY <1>1, <1>2 DEF ConnInv
<1>4. TypeOK
  <2>1. <<>> \in Seq(CallType)
    OBVIOUS
  <2>2. QED
    BY <1>1, <2>1, Zenon DEF Init, TypeOK
<1>5. QED
  BY <1>3, <1>4 DEF Inv, Init

\* conn_new, before the hooks hear of the connection.
LEMMA NewConnLemma ==
  /\ NewConn \in ConnType
  /\ NewConn.live = "open" /\ NewConn.rd = TRUE /\ NewConn.out = FALSE
  /\ NewConn.wr = "armed" /\ NewConn.slot = {} /\ NewConn.lost = FALSE
<1>1. NoConn \in ConnType /\ NoConn.out = FALSE /\ NoConn.slot = {} /\ NoConn.lost = FALSE
  BY DEF NoConn, ConnType, Status
<1>2. QED
  BY <1>1, ZenonT(30) DEF NewConn, ConnType

\* listener_cb: the first dispatch of a connection is INIT|WRITE.
LEMMA ListenerLemma ==
  ASSUME Inv, NEW c \in Conns, ListenerCb(c)
  PROVE  Inv'
<1>1. PICK w \in Walks(EvNew, NoMethod), d \in Deeds(EvNew) :
        Leave(c, [Heard(NewConn, EvNew, w.hooks, d) EXCEPT !.status = w.status],
              <<Call(EvNew, w.hooks)>>)
  BY Zenon DEF ListenerCb
<1> DEFINE k1 == Heard(NewConn, EvNew, w.hooks, d)
           k2 == [k1 EXCEPT !.status = w.status]
<1>2. EvNew \in Events /\ NoMethod \in MethodNames
  BY DEF Events, MethodNames
<1>3. /\ w.status \in Status
      /\ w.hooks \in SUBSET Hooks /\ 1 \in w.hooks
  BY <1>2, WalksLemma
<1>4. /\ k1 \in ConnType
      /\ k1.live = "open" /\ k1.rd
      /\ \A h \in Attentive : k1.told[h] = "init"
      /\ k1.wr = "armed"
      /\ ~k1.lost
  <2>1. \A was : Told(EvNew, was) = "init"
    BY DEF Told, EvNew
  <2>2. Attentive \subseteq w.hooks
    BY <1>2, WalksLemma DEF EvNew
  <2>3. \A h \in Attentive : k1.told[h] = "init"
    BY <1>2, <1>3, <2>1, <2>2, NewConnLemma, ToldLemma
  <2>4. QED
    BY <1>2, <1>3, <2>3, NewConnLemma, HeardLemma
<1> HIDE DEF k1
<1>5. k2 \in ConnType
  BY <1>3, <1>4, Zenon DEF ConnType
<1>6. /\ k2.live = k1.live /\ k2.rd = k1.rd /\ k2.told = k1.told
      /\ k2.out = k1.out /\ k2.wr = k1.wr /\ k2.lost = k1.lost
  BY <1>4, ZenonT(30) DEF ConnType
<1> HIDE DEF k2
<1>7. ConnInv(k2)
  BY <1>4, <1>5, <1>6 DEF ConnInv, Sound
<1>8. <<Call(EvNew, w.hooks)>> \in Seq(CallType)
  BY <1>2, <1>3 DEF Call, CallType
<1>9. QED
  BY <1>1, <1>7, <1>8, LeaveLemma DEF k1, k2

\* How conn_cb may be entered for connection c: with an event that fits and a
\* connection in order, which conn_event_cb has marked AD_CLOSE.
Entered(c, ev, k) ==
  /\ Sound(k)
  /\ "CLOSE" \in ev => k.status = AD_CLOSE
  /\ k.status \in {conn[c].status, AD_CLOSE}
  /\ ConnCb(c, ev, k)

\* conn_read_cb, conn_write_cb, which finds the out-buffer empty, and
\* conn_event_cb, after which nothing is read or nothing is written any more:
\* all three enter conn_cb with a connection in order.
LEMMA EntryLemma ==
  ASSUME Inv, NEW c \in Conns, ReadCb(c) \/ WriteCb(c) \/ EventCb(c)
  PROVE  conn[c].live = "open" /\ \E ev \in CbEvents : \E k : Entered(c, ev, k)
<1>1. conn[c].live = "open" /\ Sound(conn[c])
  BY DEF Inv, ConnInv, ReadCb, WriteCb, EventCb, ReadEnds, WriteFails, Serving
<1>2. /\ {EvRead, EvWrite, EvClose, EvTimeout} \subseteq CbEvents
      /\ "CLOSE" \notin EvRead /\ "CLOSE" \notin EvWrite
      /\ AD_CLOSE \in Status
  BY DEF CbEvents, EvRead, EvWrite, Status
<1>3. CASE ReadCb(c)
  <2> DEFINE k == [conn[c] EXCEPT !.in = TRUE]
  <2>1. k \in ConnType
    BY <1>1, Zenon DEF Sound, ConnType
  <2>2. /\ k.live = conn[c].live /\ k.status = conn[c].status /\ k.rd = conn[c].rd
        /\ k.out = conn[c].out /\ k.wr = conn[c].wr /\ k.lost = conn[c].lost
        /\ k.told = conn[c].told
    BY <1>1, ZenonT(30) DEF Sound, ConnType
  <2>3. ConnCb(c, EvRead, k)
    BY <1>3, Zenon DEF ReadCb
  <2> HIDE DEF k
  <2>4. Sound(k)
    BY <1>1, <2>1, <2>2, Zenon DEF Sound
  <2>5. QED
    BY <1>1, <1>2, <2>2, <2>3, <2>4, Zenon DEF Entered
<1>4. CASE WriteCb(c)
  <2> DEFINE k == [conn[c] EXCEPT !.out = FALSE, !.wr = "idle"]
  <2>1. k \in ConnType
    BY <1>1, Zenon DEF Sound, ConnType
  <2>2. /\ k.live = conn[c].live /\ k.status = conn[c].status /\ k.rd = conn[c].rd
        /\ k.lost = conn[c].lost /\ k.told = conn[c].told
        /\ k.out = FALSE /\ k.wr = "idle"
    BY <1>1, ZenonT(30) DEF Sound, ConnType
  <2>3. ConnCb(c, EvWrite, k)
    BY <1>4, Zenon DEF WriteCb
  <2> HIDE DEF k
  <2>4. Sound(k)
    BY <1>1, <2>1, <2>2 DEF Sound
  <2>5. QED
    BY <1>1, <1>2, <2>2, <2>3, <2>4, Zenon DEF Entered
<1>5. ASSUME NEW what, ReadEnds(c, what)
      PROVE  \E ev \in CbEvents : \E k : Entered(c, ev, k)
  <2> DEFINE x == (what = "TIMEOUT")
             k == [conn[c] EXCEPT !.status = AD_CLOSE, !.rd = FALSE, !.expired = x]
             ev == IF what = "TIMEOUT" THEN EvTimeout ELSE EvClose
  <2>1. ConnCb(c, ev, k)
    BY <1>5, Zenon DEF ReadEnds
  <2>2. ev \in CbEvents /\ x \in BOOLEAN
    BY <1>2
  <2> HIDE DEF x, ev
  <2>3. k \in ConnType
    BY <1>1, <1>2, <2>2, Zenon DEF Sound, ConnType
  <2>4. /\ k.live = conn[c].live /\ k.out = conn[c].out /\ k.wr = conn[c].wr
        /\ k.lost = conn[c].lost /\ k.told = conn[c].told /\ k.status = AD_CLOSE
    BY <1>1, ZenonT(30) DEF Sound, ConnType
  <2> HIDE DEF k
  <2>5. Sound(k)
    BY <1>1, <2>3, <2>4 DEF Sound
  <2>6. QED
    BY <2>1, <2>2, <2>4, <2>5, Zenon DEF Entered
<1>6. CASE WriteFails(c) /\ "WRITE_ERROR" \in Failures
  <2> DEFINE k == [conn[c] EXCEPT !.status = AD_CLOSE, !.wr = "failed"]
  <2>1. ConnCb(c, EvClose, k)
    BY <1>6, Zenon DEF WriteFails
  <2>2. k \in ConnType
    BY <1>1, <1>2, Zenon DEF Sound, ConnType
  <2>3. /\ k.live = conn[c].live /\ k.lost = conn[c].lost /\ k.told = conn[c].told
        /\ k.status = AD_CLOSE /\ k.wr = "failed"
    BY <1>1, ZenonT(30) DEF Sound, ConnType
  <2> HIDE DEF k
  <2>4. Sound(k)
    BY <1>1, <1>6, <2>2, <2>3 DEF Sound, NoWriteError
  <2>5. QED
    BY <1>1, <1>2, <2>1, <2>3, <2>4, Zenon DEF Entered
<1>7. QED
  BY <1>1, <1>3, <1>4, <1>5, <1>6, Zenon DEF EventCb

\* The steps that touch no connection.
LEMMA IdleLemma ==
  ASSUME Inv, UNCHANGED conn, calls' = [c \in Conns |-> <<>>],
         loop' \in {"run", "exit", "break", "gone"}
  PROVE  Inv'
<1>1. <<>> \in Seq(CallType)
  OBVIOUS
<1>2. calls' \in [Conns -> Seq(CallType)]
  BY <1>1, Zenon
<1>3. QED
  BY <1>2, Zenon DEF Inv, TypeOK, ConnInv, Sound

\* Every step of the event loop keeps the invariant.
LEMMA InvNext ==
  ASSUME Inv, [Next]_vars
  PROVE  Inv'
<1>1. CASE UNCHANGED vars
  BY <1>1, Zenon DEF Inv, TypeOK, ConnInv, Sound, vars
<1>2. ASSUME NEW c \in Conns, ListenerCb(c) PROVE Inv'
  BY <1>2, ListenerLemma
<1>3. ASSUME NEW c \in Conns, ListenerFails(c) PROVE Inv'
  BY <1>3, IdleLemma DEF ListenerFails
<1>4. ASSUME NEW c \in Conns, ReadCb(c) \/ WriteCb(c) \/ EventCb(c) PROVE Inv'
  <2>1. PICK ev, k : ev \in CbEvents /\ Entered(c, ev, k)
    BY <1>4, EntryLemma, Zenon
  <2>2. QED
    BY <2>1, ConnCbLemma, Zenon DEF Entered
<1>5. CASE NotifyCb
  BY <1>5, IdleLemma DEF NotifyCb
<1>6. CASE FreeServer
  BY <1>6, IdleLemma DEF FreeServer
<1>7. QED
  BY <1>1, <1>2, <1>3, <1>4, <1>5, <1>6, Zenon DEF Next

\* The invariant of the connections between two callbacks of the loop: it is
\* inductive, and every safety property below is one of its consequences.
THEOREM InvAlways == Spec => []Inv
<1>1. Init => Inv
  BY InvInit
<1>2. Inv /\ [Next]_vars => Inv'
  BY InvNext
<1>3. QED
  BY <1>1, <1>2, PTL DEF Spec

-----------------------------------------------------------------------------
(* What follows from it.                                                   *)

\* Every field of every ad_conn_t keeps its range, whatever the hooks answer.
THEOREM TypeCorrect == Spec => []TypeOK
<1>1. Inv => TypeOK
  BY DEF Inv
<1>2. QED
  BY <1>1, InvAlways, PTL

\* The hook at the top of the chain (ad_http_handler) is inside a session
\* exactly while the connection is open: conn_cb tells it CLOSE before every
\* renewal's INIT and before conn_free, for all replies of all hooks.
THEOREM TopHookAlwaysPaired == Spec => []TopHookPaired
<1>1. Inv => TopHookPaired
  BY AttentiveLemma DEF Inv, ConnInv, Sound, TopHookPaired
<1>2. QED
  BY <1>1, InvAlways, PTL

\* If hooks let INIT and CLOSE pass on, every hook that is on no method, at
\* any place of the chain, is told CLOSE once for every INIT: what it allocated
\* at the start of a session it can release at the end.
THEOREM EveryHookAlwaysPaired ==
  ASSUME Polite
  PROVE  Spec => []EveryHookPaired
<1>1. \A h \in Hooks : HookMethod[h] = NoMethod => h \in Attentive
  BY DEF Attentive
<1>2. Inv => EveryHookPaired
  BY <1>1 DEF Inv, ConnInv, Sound, EveryHookPaired
<1>3. QED
  BY <1>2, InvAlways, PTL

\* If writing never fails, conn_cb always comes back to an open connection:
\* it is read, or it is closing with its write event pending.
THEOREM NeverStrandedWithoutWriteErrors ==
  ASSUME NoWriteError
  PROVE  Spec => []NeverStranded
<1>1. Inv => NeverStranded
  BY DEF Inv, ConnInv, Sound, NeverStranded
<1>2. QED
  BY <1>1, InvAlways, PTL

\* If no hook writes on CLOSE, conn_free discards no output: conn_cb calls it
\* only with an empty out-buffer.
THEOREM NothingUnsentBySilentHooks ==
  ASSUME SilentOnClose
  PROVE  Spec => []NothingUnsent
<1>1. Inv => NothingUnsent
  BY DEF Inv, ConnInv, NothingUnsent
<1>2. QED
  BY <1>1, InvAlways, PTL

\* If hooks attach userdata on INIT only, set_userdata overwrites nothing and
\* conn_reset leaves nothing attached to a freed connection.
THEOREM NothingLostWhenAttachedOnce ==
  ASSUME AttachOnce
  PROVE  Spec => []NothingLost
<1>1. Inv => NothingLost
  BY DEF Inv, ConnInv, Sound, NothingLost
<1>2. QED
  BY <1>1, InvAlways, PTL

-----------------------------------------------------------------------------
(* Single steps, and that AdConn implements HookProtocol.                  *)


\* What the hooks hear before conn_cb looks at the status they left.
Batch(ev, k, b) ==
  IF k.status \in {AD_OK, AD_TAKEOVER}
    THEN \E hs \in SUBSET Hooks : 1 \in hs /\ b = <<Call(ev, hs)>>
    ELSE b = <<>>

Renewed(c, b) ==
  /\ conn'[c].live = "open" /\ conn'[c].status = AD_OK /\ conn'[c].method = NoMethod
  /\ \E hs1, hs2 \in SUBSET Hooks :
       /\ 1 \in hs1 /\ 1 \in hs2
       /\ calls'[c] = b \o <<Call(EvClose, hs1), Call(EvRenew, hs2)>>

Released(c, b) ==
  /\ conn'[c].live = "freed"
  /\ \E last \in {EvClose, EvTimeout}, hs \in SUBSET Hooks :
       1 \in hs /\ calls'[c] = b \o <<Call(last, hs)>>

Kept(c, k, b) ==
  /\ conn'[c].live = "open"
  /\ k.status \notin {AD_OK, AD_TAKEOVER} => conn'[c].status = k.status
  /\ calls'[c] = b

Outcome(c, ev, k) ==
  \E b : /\ Batch(ev, k, b)
         /\ \/ Pipelining /\ k.status # AD_CLOSE /\ Renewed(c, b)
            \/ Released(c, b)
            \/ Kept(c, k, b)

\* Only the connection of the callback changes, and only its hooks are called.
OnlyHere(c) ==
  \A x \in Conns \ {c} : conn'[x] = conn[x] /\ calls'[x] = <<>>

-----------------------------------------------------------------------------
(* What conn_cb does.                                                      *)

\* The end of a callback, for its own connection and for the others.
LEMMA LeaveView ==
  ASSUME Inv, NEW c \in Conns, NEW k, NEW b, Leave(c, k, b)
  PROVE  conn'[c] = k /\ calls'[c] = b /\ OnlyHere(c)
  BY DEF Inv, TypeOK, Leave, OnlyHere

\* The four branches at the end of conn_cb, for a sound connection.
LEMMA SettleView ==
  ASSUME Inv, NEW c \in Conns, NEW ev \in CbEvents, NEW k, Sound(k),
         NEW b, Settle(c, ev, k, b)
  PROVE  /\ OnlyHere(c)
         /\ \/ Pipelining /\ k.status = AD_DONE /\ Renewed(c, b)
            \/ k.status = AD_CLOSE /\ Released(c, b)
            \/ conn'[c].live = "open" /\ conn'[c].status = k.status /\ calls'[c] = b
<1>1. k \in ConnType /\ k.method \in MethodNames /\ NoMethod \in MethodNames
  BY DEF Sound, ConnType, MethodNames
<1>2. EvClose \in Events /\ EvRenew \in Events /\ EvTimeout \in Events
  BY DEF Events
<1>3. CASE Renew(c, k, b)
  <2>1. PICK hs1 \in Audiences(EvClose, k.method), d1 \in Deeds(EvClose),
             hs2 \in Audiences(EvRenew, NoMethod), d2 \in Deeds(EvRenew) :
          Leave(c, Heard(Reset(Heard(k, EvClose, hs1, d1)), EvRenew, hs2, d2),
                b \o <<Call(EvClose, hs1), Call(EvRenew, hs2)>>)
    BY <1>3, Zenon DEF Renew
  <2> DEFINE k1 == Heard(k, EvClose, hs1, d1)
             k2 == Reset(k1)
             k3 == Heard(k2, EvRenew, hs2, d2)
  <2>2. /\ hs1 \in SUBSET Hooks /\ 1 \in hs1
        /\ hs2 \in SUBSET Hooks /\ 1 \in hs2
    BY <1>1, <1>2, AudiencesLemma
  <2>3. k1 \in ConnType /\ k1.live = "open"
    BY <1>1, <1>2, <2>2, HeardLemma DEF Sound
  <2>4. k2 \in ConnType /\ k2.live = "open" /\ k2.status = AD_OK /\ k2.method = NoMethod
    BY <2>3, ResetLemma
  <2> HIDE DEF k2
  <2>5. k3.live = "open" /\ k3.status = AD_OK /\ k3.method = NoMethod
    BY <1>2, <2>2, <2>4, HeardLemma
  <2> HIDE DEF k3
  <2>6. /\ conn'[c] = k3 /\ OnlyHere(c)
        /\ calls'[c] = b \o <<Call(EvClose, hs1), Call(EvRenew, hs2)>>
    BY <2>1, LeaveView DEF k3, k2
  <2>7. Renewed(c, b)
    BY <2>2, <2>5, <2>6, Zenon DEF Renewed
  <2>8. QED
    BY <1>3, <2>6, <2>7 DEF Renew
<1>4. CASE Park(c, ev, k, b)
  <2> DEFINE i == k.in /\ ev # EvRead
             j == [k EXCEPT !.in = i]
  <2>1. Leave(c, j, b)
    BY <1>4, Zenon DEF Park
  <2>2. j.live = k.live /\ j.status = k.status
    BY <1>1 DEF ConnType
  <2> HIDE DEF j
  <2>3. QED
    BY <2>1, <2>2, LeaveView DEF Sound
<1>5. CASE Release(c, ev, k, b)
  <2> DEFINE last == IF "CLOSE" \in ev THEN ev ELSE EvClose
  <2>1. PICK hs \in Audiences(last, k.method), d \in Deeds(last) :
          Leave(c, Free(Heard(k, last, hs, d)), b \o <<Call(last, hs)>>)
    BY <1>5, Zenon DEF Release
  <2>2. last \in {EvClose, EvTimeout}
    BY DEF CbEvents, EvRead, EvWrite, EvClose, EvTimeout
  <2> HIDE DEF last
  <2>3. hs \in SUBSET Hooks /\ 1 \in hs
    BY <1>1, <1>2, <2>2, AudiencesLemma
  <2> DEFINE j == Free(Heard(k, last, hs, d))
  <2>4. j.live = "freed"
    BY <1>1, <1>2, <2>2, <2>3, HeardLemma, FreeLemma
  <2> HIDE DEF j
  <2>5. conn'[c] = j /\ calls'[c] = b \o <<Call(last, hs)>> /\ OnlyHere(c)
    BY <2>1, LeaveView DEF j
  <2>6. Released(c, b)
    BY <2>2, <2>3, <2>4, <2>5, Zenon DEF Released
  <2>7. QED
    BY <1>5, <2>5, <2>6 DEF Release
<1>6. CASE Keep(c, k, b)
  BY <1>6, LeaveView DEF Keep, Sound
<1>7. QED
  BY <1>3, <1>4, <1>5, <1>6 DEF Settle

\* conn_cb has one of the three outcomes, behind one dispatch of its event or
\* none.
LEMMA OutcomeLemma ==
  ASSUME Inv, NEW c \in Conns, NEW ev \in CbEvents, NEW k, Sound(k),
         "CLOSE" \in ev => k.status = AD_CLOSE,
         ConnCb(c, ev, k)
  PROVE  OnlyHere(c) /\ Outcome(c, ev, k)
<1>1. CASE k.status \notin {AD_OK, AD_TAKEOVER}
  <2>1. Settle(c, ev, k, <<>>)
    BY <1>1 DEF ConnCb
  <2>2. Batch(ev, k, <<>>)
    BY <1>1 DEF Batch
  <2>3. /\ OnlyHere(c)
        /\ \/ Pipelining /\ k.status # AD_CLOSE /\ Renewed(c, <<>>)
           \/ Released(c, <<>>)
           \/ Kept(c, k, <<>>)
    BY <2>1, SettleView DEF Kept, AD_DONE, AD_CLOSE
  <2>4. QED
    BY <2>2, <2>3, Zenon DEF Outcome
<1>2. CASE k.status \in {AD_OK, AD_TAKEOVER}
  <2>1. PICK w \in Walks(ev, k.method), d \in Deeds(ev) :
          Settle(c, ev, Asked(ev, k, w, d), <<Call(ev, w.hooks)>>)
    BY <1>2, Zenon DEF ConnCb, Asked
  <2>2. /\ Sound(Asked(ev, k, w, d))
        /\ w.hooks \in SUBSET Hooks /\ 1 \in w.hooks
    BY <1>2, AskedLemma
  <2>3. Batch(ev, k, <<Call(ev, w.hooks)>>)
    BY <1>2, <2>2 DEF Batch
  <2> DEFINE b == <<Call(ev, w.hooks)>>
  <2>4. /\ OnlyHere(c)
        /\ \/ Pipelining /\ k.status # AD_CLOSE /\ Renewed(c, b)
           \/ Released(c, b)
           \/ Kept(c, k, b)
    BY <1>2, <2>1, <2>2, SettleView DEF Kept, AD_OK, AD_TAKEOVER, AD_CLOSE
  <2>5. QED
    BY <2>3, <2>4, Zenon DEF Outcome
<1>3. QED
  BY <1>1, <1>2

-----------------------------------------------------------------------------
(* What a step of the loop does.                                           *)

\* listener_cb made the connection, and its hooks heard of it.
Opened(c) ==
  /\ conn[c].live = "none" /\ conn'[c].live = "open"
  /\ \E hs \in SUBSET Hooks : 1 \in hs /\ calls'[c] = <<Call(EvNew, hs)>>

\* A callback of an open connection, which enters conn_cb with k.
Served(c, ev, k) ==
  /\ conn[c].live = "open"
  /\ "CLOSE" \in ev => k.status = AD_CLOSE
  /\ k.status \in {conn[c].status, AD_CLOSE}
  /\ Outcome(c, ev, k)

\* Neither conn_new nor notify_cb and the end of the loop are seen elsewhere.
Nowhere == UNCHANGED conn /\ \A x \in Conns : calls'[x] = <<>>

\* Every step is of one of the three kinds.
LEMMA StepLemma ==
  ASSUME Inv, Next
  PROVE  \/ Nowhere
         \/ \E c \in Conns :
              /\ OnlyHere(c)
              /\ Opened(c) \/ \E ev \in CbEvents : \E k : Served(c, ev, k)
<1>1. ASSUME NEW c \in Conns, ListenerCb(c)
      PROVE  OnlyHere(c) /\ Opened(c)
  <2>1. PICK w \in Walks(EvNew, NoMethod), d \in Deeds(EvNew) :
          Leave(c, [Heard(NewConn, EvNew, w.hooks, d) EXCEPT !.status = w.status],
                <<Call(EvNew, w.hooks)>>)
    BY <1>1, Zenon DEF ListenerCb
  <2>2. EvNew \in Events /\ NoMethod \in MethodNames
    BY DEF Events, MethodNames
  <2>3. w.hooks \in SUBSET Hooks /\ 1 \in w.hooks
    BY <2>2, WalksLemma
  <2>4. NewConn \in ConnType /\ NewConn.live = "open"
    BY NewConnLemma
  <2> DEFINE k == Heard(NewConn, EvNew, w.hooks, d)
             j == [k EXCEPT !.status = w.status]
  <2>5. k \in ConnType /\ k.live = "open"
    BY <2>2, <2>3, <2>4, HeardLemma
  <2> HIDE DEF k
  <2>6. j.live = "open"
    BY <2>5 DEF ConnType
  <2> HIDE DEF j
  <2>7. conn'[c] = j /\ calls'[c] = <<Call(EvNew, w.hooks)>> /\ OnlyHere(c)
    BY <2>1, LeaveView DEF j, k
  <2>8. QED
    BY <1>1, <2>3, <2>6, <2>7, Zenon DEF Opened, ListenerCb
<1>2. ASSUME NEW c \in Conns, ReadCb(c) \/ WriteCb(c) \/ EventCb(c)
      PROVE  OnlyHere(c) /\ \E ev \in CbEvents : \E k : Served(c, ev, k)
  <2>1. PICK ev, k : ev \in CbEvents /\ conn[c].live = "open" /\ Entered(c, ev, k)
    BY <1>2, EntryLemma, Zenon
  <2>2. OnlyHere(c) /\ Outcome(c, ev, k)
    BY <2>1, OutcomeLemma, Zenon DEF Entered
  <2>3. QED
    BY <2>1, <2>2, Zenon DEF Entered, Served
<1>3. ASSUME (\E c \in Conns : ListenerFails(c)) \/ NotifyCb \/ FreeServer
      PROVE  Nowhere
  BY <1>3 DEF ListenerFails, NotifyCb, FreeServer, Nowhere
<1>4. QED
  BY <1>1, <1>2, <1>3, Zenon DEF Next

-----------------------------------------------------------------------------
(* What a step may never do.                                               *)

\* AD_CLOSE is final: a connection that is to be closed hears nothing until
\* the one CLOSE with which it is freed.
LEMMA ClosingStep ==
  ASSUME NEW c \in Conns, conn[c].status = AD_CLOSE, NEW ev, NEW k, Served(c, ev, k)
  PROVE  \/ /\ conn'[c].live = "open" /\ conn'[c].status = AD_CLOSE
            /\ calls'[c] = <<>>
         \/ /\ conn'[c].live = "freed"
            /\ Len(calls'[c]) = 1 /\ "CLOSE" \in calls'[c][1].event
<1>1. k.status = AD_CLOSE
  BY DEF Served
<1>2. Batch(ev, k, <<>>) /\ \A b : Batch(ev, k, b) => b = <<>>
  BY <1>1 DEF Batch, AD_OK, AD_TAKEOVER, AD_CLOSE
<1>3. Released(c, <<>>) \/ Kept(c, k, <<>>)
  BY <1>1, <1>2, Zenon DEF Served, Outcome
<1>4. CASE Kept(c, k, <<>>)
  BY <1>1, <1>4 DEF Kept, AD_OK, AD_TAKEOVER, AD_CLOSE
<1>5. CASE Released(c, <<>>)
  <2>1. PICK last \in {EvClose, EvTimeout}, hs \in SUBSET Hooks :
          calls'[c] = <<>> \o <<Call(last, hs)>>
    BY <1>5, Zenon DEF Released
  <2>2. "CLOSE" \in last
    BY DEF EvClose, EvTimeout
  <2>3. Len(calls'[c]) = 1 /\ calls'[c][1].event = last
    BY <2>1 DEF Call
  <2>4. QED
    BY <1>5, <2>2, <2>3 DEF Released
<1>6. QED
  BY <1>3, <1>4, <1>5

\* A connection with status AD_CLOSE is never revived by conn_cb: its hooks
\* hear nothing until the one CLOSE with which it is freed.
THEOREM ClosingAlwaysFinal == Spec => ClosingIsFinal
<1>1. ASSUME Inv, Next, NEW c \in Conns, conn[c].live = "open", conn[c].status = AD_CLOSE
      PROVE  \/ /\ conn'[c].live = "open" /\ conn'[c].status = AD_CLOSE
                /\ calls'[c] = <<>>
             \/ /\ conn'[c].live = "freed"
                /\ Len(calls'[c]) = 1 /\ "CLOSE" \in calls'[c][1].event
  <2>1. CASE calls'[c] = <<>> /\ conn'[c] = conn[c]
    BY <1>1, <2>1
  <2>2. ASSUME NEW ev, NEW k, Served(c, ev, k)
        PROVE  \/ /\ conn'[c].live = "open" /\ conn'[c].status = AD_CLOSE
                  /\ calls'[c] = <<>>
               \/ /\ conn'[c].live = "freed"
                  /\ Len(calls'[c]) = 1 /\ "CLOSE" \in calls'[c][1].event
    BY <1>1, <2>2, ClosingStep
  <2>3. QED
    BY <1>1, <2>1, <2>2, StepLemma, Zenon DEF Nowhere, OnlyHere, Opened
<1>2. Inv /\ [Next]_vars =>
        [\A c \in Conns :
           conn[c].live = "open" /\ conn[c].status = AD_CLOSE =>
             \/ /\ conn'[c].live = "open" /\ conn'[c].status = AD_CLOSE
                /\ calls'[c] = <<>>
             \/ /\ conn'[c].live = "freed"
                /\ Len(calls'[c]) = 1 /\ "CLOSE" \in calls'[c][1].event]_vars
  BY <1>1
<1>3. QED
  BY <1>2, InvAlways, PTL DEF Spec, ClosingIsFinal

\* What comes before the end of a session in one callback: a read or a write
\* that the top hook hears, or nothing.
Traffic(b) ==
  b = <<>> \/ \E e \in {EvRead, EvWrite}, hs \in SUBSET Hooks :
                1 \in hs /\ b = <<Call(e, hs)>>

\* A batch is traffic.
LEMMA BatchLemma ==
  ASSUME NEW c \in Conns, NEW ev \in CbEvents, NEW k, Served(c, ev, k),
         NEW b, Batch(ev, k, b)
  PROVE  Traffic(b)
<1>1. ev \in {EvRead, EvWrite} \/ k.status = AD_CLOSE
  BY DEF Served, CbEvents, EvClose, EvTimeout
<1>2. AD_CLOSE \notin {AD_OK, AD_TAKEOVER}
  BY DEF AD_CLOSE, AD_OK, AD_TAKEOVER
<1>3. QED
  BY <1>1, <1>2, Zenon DEF Batch, Traffic

\* With request_pipelining off AD_DONE parks the connection: its hooks hear
\* one CLOSE at most, and conn_cb never takes the verdict back.
THEOREM ParkedAlwaysSilent == Spec => ParkedIsSilent
<1> DEFINE Silent(c) ==
             /\ \A i \in DOMAIN calls'[c] : "CLOSE" \in calls'[c][i].event
             /\ conn'[c].live = "open" => conn'[c].status \in {AD_DONE, AD_CLOSE}
<1>1. ASSUME NEW c \in Conns, ~Pipelining, conn[c].status = AD_DONE,
             NEW ev \in CbEvents, NEW k, Served(c, ev, k)
      PROVE  Silent(c)
  <2>1. k.status \in {AD_DONE, AD_CLOSE} /\ k.status \notin {AD_OK, AD_TAKEOVER}
    BY <1>1 DEF Served, AD_OK, AD_TAKEOVER, AD_DONE, AD_CLOSE
  <2>2. \A b : Batch(ev, k, b) => b = <<>>
    BY <2>1 DEF Batch
  <2>3. Released(c, <<>>) \/ Kept(c, k, <<>>)
    BY <1>1, <2>2, Zenon DEF Served, Outcome
  <2>4. CASE Kept(c, k, <<>>)
    BY <2>1, <2>4 DEF Kept
  <2>5. CASE Released(c, <<>>)
    <3>1. PICK last \in {EvClose, EvTimeout}, hs \in SUBSET Hooks :
            calls'[c] = <<>> \o <<Call(last, hs)>>
      BY <2>5, Zenon DEF Released
    <3>2. "CLOSE" \in last
      BY DEF EvClose, EvTimeout
    <3>3. DOMAIN calls'[c] = {1} /\ calls'[c][1].event = last
      BY <3>1 DEF Call
    <3>4. QED
      BY <2>5, <3>2, <3>3 DEF Released
  <2>6. QED
    BY <2>3, <2>4, <2>5
<1>2. ASSUME Inv, Next, NEW c \in Conns,
             ~Pipelining, conn[c].live = "open", conn[c].status = AD_DONE
      PROVE  Silent(c)
  <2>1. CASE calls'[c] = <<>> /\ conn'[c] = conn[c]
    BY <1>2, <2>1
  <2>2. ASSUME NEW ev \in CbEvents, NEW k, Served(c, ev, k) PROVE Silent(c)
    BY <1>1, <1>2, <2>2, Zenon
  <2> HIDE DEF Silent
  <2>3. QED
    BY <1>2, <2>1, <2>2, StepLemma, Zenon DEF Nowhere, OnlyHere, Opened
<1>3. Inv /\ [Next]_vars =>
        [\A c \in Conns :
           ~Pipelining /\ conn[c].live = "open" /\ conn[c].status = AD_DONE =>
             /\ \A i \in DOMAIN calls'[c] : "CLOSE" \in calls'[c][i].event
             /\ conn'[c].live = "open" => conn'[c].status \in {AD_DONE, AD_CLOSE}]_vars
  BY <1>2
<1>4. QED
  BY <1>3, InvAlways, PTL DEF Spec, ParkedIsSilent

\* A session that conn_cb renews starts like a new connection, without the
\* method and the verdict of the last one.
THEOREM SessionAlwaysStartsClean == Spec => SessionStartsClean
<1>1. EvRenew \notin {EvNew, EvRead, EvWrite, EvClose, EvTimeout}
  BY DEF EvRenew, EvNew, EvRead, EvWrite, EvClose, EvTimeout
<1> DEFINE Begins(c) == \E i \in DOMAIN calls'[c] : calls'[c][i].event = EvRenew
<1>2. ASSUME NEW c \in Conns, Opened(c) PROVE ~Begins(c)
  <2>1. PICK hs \in SUBSET Hooks : calls'[c] = <<Call(EvNew, hs)>>
    BY <1>2, Zenon DEF Opened
  <2>2. DOMAIN calls'[c] = {1} /\ calls'[c][1].event = EvNew
    BY <2>1 DEF Call
  <2>3. QED
    BY <1>1, <2>2
<1>3. ASSUME NEW c \in Conns, NEW ev \in CbEvents, NEW k, Served(c, ev, k), Begins(c)
      PROVE  conn'[c].method = NoMethod /\ conn'[c].status = AD_OK
  <2>1. PICK b : /\ Batch(ev, k, b)
                 /\ Renewed(c, b) \/ Released(c, b) \/ Kept(c, k, b)
    BY <1>3, Zenon DEF Served, Outcome
  <2>2. b = <<>> \/ \E e \in {EvRead, EvWrite}, hs \in SUBSET Hooks : b = <<Call(e, hs)>>
    BY <1>3, <2>1, BatchLemma, Zenon DEF Traffic
  <2>3. CASE Renewed(c, b)
    BY <2>3, Zenon DEF Renewed
  <2>4. CASE Released(c, b)
    <3>1. PICK last \in {EvClose, EvTimeout}, hs \in SUBSET Hooks :
            calls'[c] = b \o <<Call(last, hs)>>
      BY <2>4, Zenon DEF Released
    <3>2. \A i \in DOMAIN calls'[c] :
            calls'[c][i].event \in {EvRead, EvWrite, EvClose, EvTimeout}
      <4>1. CASE b = <<>>
        BY <3>1, <4>1 DEF Call
      <4>2. CASE b # <<>>
        BY <2>2, <3>1, <4>2 DEF Call
      <4>3. QED
        BY <4>1, <4>2
    <3>3. QED
      BY <1>1, <1>3, <3>2
  <2>5. CASE Kept(c, k, b)
    BY <1>1, <1>3, <2>2, <2>5 DEF Kept, Call
  <2>6. QED
    BY <2>1, <2>3, <2>4, <2>5
<1>4. ASSUME Inv, Next, NEW c \in Conns, Begins(c)
      PROVE  conn'[c].method = NoMethod /\ conn'[c].status = AD_OK
  <2>1. calls'[c] # <<>>
    BY <1>4
  <2> HIDE DEF Begins
  <2>2. QED
    BY <1>2, <1>3, <1>4, <2>1, StepLemma, Zenon DEF Nowhere, OnlyHere
<1>5. Inv /\ [Next]_vars =>
        [\A c \in Conns :
           (\E i \in DOMAIN calls'[c] : calls'[c][i].event = EvRenew) =>
             conn'[c].method = NoMethod /\ conn'[c].status = AD_OK]_vars
  BY <1>4
<1>6. QED
  BY <1>5, InvAlways, PTL DEF Spec, SessionStartsClean

-----------------------------------------------------------------------------
(* AdConn implements HookProtocol.                                         *)

\* What the top hook hears of a sequence of dispatches, and the two variables
\* of the protocol as AdConn sees them.
Hears(s) == [i \in DOMAIN s |-> IF 1 \in s[i].hooks THEN s[i].event ELSE {}]
Phases   == [c \in Conns |-> conn[c].live]
Heards   == [c \in Conns |-> Hears(calls[c])]

\* Short sequences of anything.
LEMMA ShortSequences ==
  ASSUME NEW x, NEW y, NEW z
  PROVE  /\ <<>> \o <<x>> = <<x>> /\ <<>> \o <<x, y>> = <<x, y>>
         /\ <<x>> \o <<y>> = <<x, y>> /\ <<x>> \o <<y, z>> = <<x, y, z>>
<1>1. <<>> \o <<x>> = <<x>>
  OBVIOUS
<1>2. <<>> \o <<x, y>> = <<x, y>>
  OBVIOUS
<1>3. <<x>> \o <<y>> = <<x, y>>
  <2> DEFINE s == <<x>>
             t == <<y>>
             u == <<x, y>>
             S == {x, y}
  <2>1. s \in Seq(S) /\ t \in Seq(S) /\ u \in Seq(S)
    OBVIOUS
  <2>2. s \o t \in Seq(S)
    BY <2>1
  <2>3. Len(s \o t) = 2 /\ (s \o t)[1] = x /\ (s \o t)[2] = y
    OBVIOUS
  <2>4. Len(u) = 2 /\ u[1] = x /\ u[2] = y
    OBVIOUS
  <2> HIDE DEF s, t, u, S
  <2>5. \A i \in 1..2 : (s \o t)[i] = u[i]
    BY <2>3, <2>4
  <2>6. s \o t = u
    BY <2>1, <2>2, <2>3, <2>4, <2>5, SeqEqual
  <2>7. QED
    BY <2>6 DEF s, t, u
<1>4. <<x>> \o <<y, z>> = <<x, y, z>>
  <2> DEFINE s == <<x>>
             t == <<y, z>>
             u == <<x, y, z>>
             S == {x, y, z}
  <2>1. s \in Seq(S) /\ t \in Seq(S) /\ u \in Seq(S)
    OBVIOUS
  <2>2. s \o t \in Seq(S)
    BY <2>1
  <2>3. Len(s \o t) = 3 /\ (s \o t)[1] = x /\ (s \o t)[2] = y /\ (s \o t)[3] = z
    OBVIOUS
  <2>4. Len(u) = 3 /\ u[1] = x /\ u[2] = y /\ u[3] = z
    OBVIOUS
  <2> HIDE DEF s, t, u, S
  <2>5. \A i \in 1..3 : (s \o t)[i] = u[i]
    BY <2>3, <2>4
  <2>6. s \o t = u
    BY <2>1, <2>2, <2>3, <2>4, <2>5, SeqEqual
  <2>7. QED
    BY <2>6 DEF s, t, u
<1>5. QED
  BY <1>1, <1>2, <1>3, <1>4, Zenon

\* No dispatch, one and two that reach the top hook.
LEMMA HearsOne ==
  ASSUME NEW e, NEW hs, 1 \in hs
  PROVE  Hears(<<Call(e, hs)>>) = <<e>>
  BY DEF Hears, Call

LEMMA HearsTwo ==
  ASSUME NEW e1, NEW e2, NEW h1, NEW h2, 1 \in h1, 1 \in h2
  PROVE  Hears(<<Call(e1, h1), Call(e2, h2)>>) = <<e1, e2>>
  BY DEF Hears, Call

LEMMA HearsNothing == Hears(<<>>) = <<>>
  BY DEF Hears

\* A step for one connection, as the protocol sees it.
LEMMA HeardsLemma ==
  ASSUME NEW c \in Conns, OnlyHere(c), NEW batch, Hears(calls'[c]) = batch
  PROVE  /\ Heards' = [x \in Conns |-> IF x = c THEN batch ELSE <<>>]
         /\ Phases' = [Phases EXCEPT ![c] = conn'[c].live]
<1>1. Hears(<<>>) = <<>>
  BY DEF Hears
<1>2. \A x \in Conns : Heards'[x] = IF x = c THEN batch ELSE <<>>
  BY <1>1 DEF Heards, OnlyHere
<1>3. \A x \in Conns : Phases'[x] = IF x = c THEN conn'[c].live ELSE Phases[x]
  BY DEF Phases, OnlyHere
<1>4. QED
  BY <1>2, <1>3 DEF Heards, Phases

\* The top hook hears one event of traffic, or none.
LEMMA TrafficHeard ==
  ASSUME NEW b, Traffic(b)
  PROVE  /\ Hears(b) \in Protocol!Before
         /\ \/ b = <<>> /\ Hears(b) = <<>>
            \/ \E e, hs : 1 \in hs /\ b = <<Call(e, hs)>> /\ Hears(b) = <<e>>
<1>1. CASE b = <<>>
  BY <1>1, HearsNothing, Zenon DEF Protocol!Before
<1>2. ASSUME NEW e \in {EvRead, EvWrite}, NEW hs, 1 \in hs, b = <<Call(e, hs)>>
      PROVE  Hears(b) \in Protocol!Before /\ Hears(b) = <<e>>
  <2>1. Hears(b) = <<e>>
    BY <1>2, HearsOne, Zenon
  <2>2. e \in Protocol!Traffic
    BY <1>2 DEF Protocol!Traffic, EvRead, EvWrite
  <2>3. QED
    BY <2>1, <2>2, Zenon DEF Protocol!Before
<1>3. QED
  BY <1>1, <1>2, Zenon DEF Traffic

\* Traffic, and then the event that ends the session.
LEMMA OneMoreHeard ==
  ASSUME NEW b, Traffic(b), NEW e1, NEW h1, 1 \in h1
  PROVE  Hears(b \o <<Call(e1, h1)>>) = Hears(b) \o <<e1>>
<1>1. CASE b = <<>> /\ Hears(b) = <<>>
  BY <1>1, HearsOne, ShortSequences, Zenon
<1>2. ASSUME NEW e, NEW hs, 1 \in hs, b = <<Call(e, hs)>>, Hears(b) = <<e>>
      PROVE  Hears(b \o <<Call(e1, h1)>>) = Hears(b) \o <<e1>>
  <2>1. b \o <<Call(e1, h1)>> = <<Call(e, hs), Call(e1, h1)>>
    BY <1>2, ShortSequences, Zenon
  <2>2. <<e>> \o <<e1>> = <<e, e1>>
    BY ShortSequences, Zenon
  <2>3. Hears(<<Call(e, hs), Call(e1, h1)>>) = <<e, e1>>
    BY <1>2, HearsTwo, Zenon
  <2>4. QED
    BY <1>2, <2>1, <2>2, <2>3
<1>3. QED
  BY <1>1, <1>2, TrafficHeard, Zenon

\* Traffic, the end of the session and the start of the next one.
LEMMA TwoMoreHeard ==
  ASSUME NEW b, Traffic(b), NEW h1, NEW h2, 1 \in h1 \cap h2
  PROVE  Hears(b \o <<Call(EvClose, h1), Call(EvRenew, h2)>>)
         = Hears(b) \o <<EvClose, EvRenew>>
<1>1. CASE b = <<>> /\ Hears(b) = <<>>
  <2>1. b \o <<Call(EvClose, h1), Call(EvRenew, h2)>> = <<Call(EvClose, h1), Call(EvRenew, h2)>>
    BY <1>1, ShortSequences, Zenon
  <2>2. <<>> \o <<EvClose, EvRenew>> = <<EvClose, EvRenew>>
    BY ShortSequences, Zenon
  <2>3. Hears(<<Call(EvClose, h1), Call(EvRenew, h2)>>) = <<EvClose, EvRenew>>
    BY HearsTwo, Zenon
  <2>4. QED
    BY <1>1, <2>1, <2>2, <2>3
<1>2. ASSUME NEW e, NEW hs, 1 \in hs, b = <<Call(e, hs)>>, Hears(b) = <<e>>
      PROVE  Hears(b \o <<Call(EvClose, h1), Call(EvRenew, h2)>>)
             = Hears(b) \o <<EvClose, EvRenew>>
  <2>1. b \o <<Call(EvClose, h1), Call(EvRenew, h2)>>
        = <<Call(e, hs), Call(EvClose, h1), Call(EvRenew, h2)>>
    BY <1>2, ShortSequences, Zenon
  <2>2. <<e>> \o <<EvClose, EvRenew>> = <<e, EvClose, EvRenew>>
    BY ShortSequences, Zenon
  <2>3. Hears(<<Call(e, hs), Call(EvClose, h1), Call(EvRenew, h2)>>) = <<e, EvClose, EvRenew>>
    BY <1>2 DEF Hears, Call
  <2>4. QED
    BY <1>2, <2>1, <2>2, <2>3
<1>3. QED
  BY <1>1, <1>2, TrafficHeard, Zenon

\* A callback of an open connection is a step of the protocol.
LEMMA ServedIsProtocol ==
  ASSUME Inv, NEW c \in Conns, OnlyHere(c),
         NEW ev \in CbEvents, NEW k, Served(c, ev, k)
  PROVE  Protocol!Next
<1>1. PICK b : /\ Batch(ev, k, b)
               /\ Renewed(c, b) \/ Released(c, b) \/ Kept(c, k, b)
  BY Zenon DEF Served, Outcome
<1>2. Traffic(b)
  BY <1>1, BatchLemma, Zenon
<1>3. Phases[c] = "open" /\ Phases = [c2 \in Conns |-> conn[c2].live]
  BY DEF Served, Phases
<1>4. CASE Renewed(c, b)
  <2>1. PICK h1 \in SUBSET Hooks, h2 \in SUBSET Hooks :
          /\ 1 \in h1 /\ 1 \in h2
          /\ calls'[c] = b \o <<Call(EvClose, h1), Call(EvRenew, h2)>>
    BY <1>4, Zenon DEF Renewed
  <2>2. /\ Hears(b) \in Protocol!Before
        /\ Hears(calls'[c]) = Hears(b) \o <<EvClose, EvRenew>>
    <3>1. Hears(b) \in Protocol!Before
      BY <1>2, TrafficHeard, Zenon
    <3>2. Hears(b \o <<Call(EvClose, h1), Call(EvRenew, h2)>>) = Hears(b) \o <<EvClose, EvRenew>>
      BY <1>2, <2>1, TwoMoreHeard, ZenonT(30)
    <3>3. QED
      BY <2>1, <3>1, <3>2
  <2>3. Phases' = Phases
    BY <1>3, <1>4, HeardsLemma DEF Renewed, Phases
  <2>4. Heards' = [x \in Conns |->
                     IF x = c THEN Hears(b) \o <<{"CLOSE"}, {"INIT"}>> ELSE <<>>]
    BY <2>2, HeardsLemma, Zenon DEF EvClose, EvRenew
  <2>5. Protocol!Renew(c)
    BY <1>3, <2>2, <2>3, <2>4, Zenon
       DEF Protocol!Renew, Protocol!Tell, Phases, Heards, Hears
  <2>6. QED
    BY <2>5, Zenon DEF Protocol!Next
<1>5. CASE Released(c, b)
  <2>1. PICK last \in {EvClose, EvTimeout}, h1 \in SUBSET Hooks :
          1 \in h1 /\ calls'[c] = b \o <<Call(last, h1)>>
    BY <1>5, Zenon DEF Released
  <2>2. /\ Hears(b) \in Protocol!Before
        /\ Hears(calls'[c]) = Hears(b) \o <<last>>
    <3>1. Hears(b) \in Protocol!Before
      BY <1>2, TrafficHeard, Zenon
    <3>2. Hears(b \o <<Call(last, h1)>>) = Hears(b) \o <<last>>
      BY <1>2, <2>1, OneMoreHeard, Zenon
    <3>3. QED
      BY <2>1, <3>1, <3>2
  <2>3. last \in Protocol!Closing
    BY <2>1 DEF EvClose, EvTimeout, Protocol!Closing
  <2>4. Phases' = [Phases EXCEPT ![c] = "freed"]
    BY <1>5, HeardsLemma DEF Released
  <2>5. Heards' = [x \in Conns |-> IF x = c THEN Hears(b) \o <<last>> ELSE <<>>]
    BY <2>2, HeardsLemma, Zenon
  <2>6. Protocol!End(c)
    BY <1>3, <2>2, <2>3, <2>4, <2>5, Zenon
       DEF Protocol!End, Protocol!Tell, Phases, Heards, Hears
  <2>7. QED
    BY <2>6, Zenon DEF Protocol!Next
<1>6. CASE Kept(c, k, b)
  <2>1. Hears(b) \in Protocol!Before /\ Hears(calls'[c]) = Hears(b)
    BY <1>2, <1>6, TrafficHeard, Zenon DEF Kept
  <2>2. Phases' = Phases
    BY <1>3, <1>6, HeardsLemma DEF Kept, Phases
  <2>3. Heards' = [x \in Conns |-> IF x = c THEN Hears(b) ELSE <<>>]
    BY <2>1, HeardsLemma, Zenon
  <2>4. Protocol!Serve(c)
    BY <1>3, <2>1, <2>2, <2>3, Zenon
       DEF Protocol!Serve, Protocol!Tell, Phases, Heards, Hears
  <2>5. QED
    BY <2>4, Zenon DEF Protocol!Next
<1>7. QED
  BY <1>1, <1>4, <1>5, <1>6

\* The connections of the server, seen by the top hook, behave as HookProtocol
\* says: sessions from INIT to CLOSE, traffic only inside a session, a renewed
\* session right behind the old one, silence once the connection is freed.
THEOREM ConnectionsImplementProtocol == Spec => ImplementsProtocol
<1>1. Init => Protocol!Init
  <2>1. Hears(<<>>) = <<>>
    BY HearsNothing
  <2>2. QED
    BY <2>1 DEF Init, NoConn, Protocol!Init, Hears
<1>2. ASSUME Inv, Next PROVE Protocol!Next
  <2>1. CASE Nowhere
    <3>1. Phases' = Phases
      BY <2>1 DEF Nowhere, Phases
    <3>2. Heards' = [c \in Conns |-> <<>>]
      BY <2>1, HearsNothing, Zenon DEF Nowhere, Heards
    <3>3. Protocol!Elsewhere
      BY <3>1, <3>2, Zenon DEF Protocol!Elsewhere, Phases, Heards, Hears
    <3>4. QED
      BY <3>3, Zenon DEF Protocol!Next
  <2>2. ASSUME NEW c \in Conns, OnlyHere(c), Opened(c)
        PROVE  Protocol!Next
    <3>1. PICK hs : 1 \in hs /\ calls'[c] = <<Call(EvNew, hs)>>
      BY <2>2, Zenon DEF Opened
    <3>2. Hears(calls'[c]) = <<EvNew>>
      BY <3>1, HearsOne
    <3>3. /\ Heards' = [x \in Conns |-> IF x = c THEN <<EvNew>> ELSE <<>>]
          /\ Phases' = [Phases EXCEPT ![c] = "open"]
      BY <2>2, <3>2, HeardsLemma, Zenon DEF Opened
    <3>4. Phases[c] = "none" /\ EvNew = Protocol!Opening
      BY <2>2 DEF Opened, Phases, EvNew, Protocol!Opening
    <3>5. Protocol!Begin(c)
      BY <3>3, <3>4, Zenon DEF Protocol!Begin, Protocol!Tell, Phases, Heards, Hears
    <3>6. QED
      BY <3>5, Zenon DEF Protocol!Next
  <2>3. ASSUME NEW c \in Conns, OnlyHere(c), NEW ev \in CbEvents, NEW k, Served(c, ev, k)
        PROVE  Protocol!Next
    BY <1>2, <2>3, ServedIsProtocol
  <2>4. QED
    BY <1>2, <2>1, <2>2, <2>3, StepLemma, Zenon
<1>3. ASSUME UNCHANGED vars
      PROVE  UNCHANGED <<[c \in Conns |-> conn[c].live],
                         [c \in Conns |->
                            [i \in DOMAIN calls[c] |->
                               IF 1 \in calls[c][i].hooks
                                 THEN calls[c][i].event ELSE {}]]>>
  BY <1>3 DEF vars
<1>4. QED
  BY <1>1, <1>2, <1>3, InvAlways, PTL
     DEF Spec, ImplementsProtocol, Protocol!Spec

=============================================================================
