---------------------------- MODULE WindowProofs ----------------------------
(***************************************************************************)
(* Proofs about Window: the stream of events, for every size of the queue, *)
(* of the history and of the socket, and any number of runs and edits.     *)
(***************************************************************************)
EXTENDS Window, TLAPS

-----------------------------------------------------------------------------
(* Runs of events that follow one another. *)

Items == [number : Nat, kind : Kinds \union {"none"}]

\* The events of s are number g + 1, g + 2 and so on.
Counted(s, g) == \A i \in 1..Len(s) : s[i].number = g + i

LEMMA CountedNothing == ASSUME NEW g PROVE <<>> \in Seq(Items) /\ Len(<<>>) = 0 /\ Counted(<<>>, g)
BY DEF Counted

LEMMA CountedAppend ==
    ASSUME NEW s \in Seq(Items), NEW g \in Nat, Counted(s, g),
           NEW e \in Items, e.number = g + Len(s) + 1
    PROVE  /\ Append(s, e) \in Seq(Items) /\ Len(Append(s, e)) = Len(s) + 1
           /\ Counted(Append(s, e), g)
<1>. DEFINE t == Append(s, e)
<1>1. t \in Seq(Items) /\ Len(t) = Len(s) + 1 /\ Len(s) \in Nat
  OBVIOUS
<1>2. t[Len(s) + 1] = e /\ \A i \in 1..Len(s) : t[i] = s[i]
  OBVIOUS
<1>. HIDE DEF t
<1>3. ASSUME NEW i \in 1..Len(t) PROVE t[i].number = g + i
  <2>1. CASE i = Len(s) + 1
    BY <1>1, <1>2, <2>1
  <2>2. CASE i \in 1..Len(s)
    BY <1>2, <2>2 DEF Counted
  <2>3. QED
    BY <1>1, <2>1, <2>2
<1>4. QED
  BY <1>1, <1>3 DEF Counted, t

LEMMA CountedTail ==
    ASSUME NEW s \in Seq(Items), NEW g \in Nat, Counted(s, g), s # <<>>
    PROVE  /\ Head(s) \in Items /\ Head(s).number = g + 1
           /\ Tail(s) \in Seq(Items) /\ Len(Tail(s)) = Len(s) - 1 /\ Len(s) >= 1
           /\ Counted(Tail(s), g + 1)
<1>. DEFINE t == Tail(s)
<1>1. /\ t \in Seq(Items) /\ Len(t) = Len(s) - 1 /\ Len(s) \in Nat /\ Len(s) >= 1
      /\ s[1] \in Items /\ Head(s) = s[1]
  OBVIOUS
<1>2. \A i \in 1..(Len(s) - 1) : t[i] = s[i + 1]
  OBVIOUS
<1>. HIDE DEF t
<1>3. s[1].number = g + 1
  BY <1>1 DEF Counted
<1>4. ASSUME NEW i \in 1..Len(t) PROVE t[i].number = g + 1 + i
  <2>1. i \in 1..(Len(s) - 1) /\ i + 1 \in 1..Len(s)
    BY <1>1
  <2>2. t[i] = s[i + 1] /\ s[i + 1].number = g + (i + 1)
    BY <1>2, <2>1 DEF Counted
  <2>3. QED
    BY <2>1, <2>2
<1>5. QED
  BY <1>1, <1>3, <1>4 DEF Counted, t

LEMMA CountedConcat ==
    ASSUME NEW w \in Seq(Items), NEW q \in Seq(Items), NEW g \in Nat,
           Counted(w, g), Counted(q, g + Len(w))
    PROVE  /\ Len(w \o q) = Len(w) + Len(q)
           /\ \A i \in DOMAIN (w \o q) : (w \o q)[i].number = g + i
<1>. DEFINE unread == w \o q
<1>1. /\ Len(unread) = Len(w) + Len(q) /\ DOMAIN unread = 1..(Len(w) + Len(q))
      /\ \A i \in 1..(Len(w) + Len(q)) :
            unread[i] = IF i <= Len(w) THEN w[i] ELSE q[i - Len(w)]
      /\ Len(w) \in Nat /\ Len(q) \in Nat
  OBVIOUS
<1>. HIDE DEF unread
<1>2. ASSUME NEW i \in DOMAIN unread PROVE unread[i].number = g + i
  <2>1. i \in 1..(Len(w) + Len(q))
    BY <1>1
  <2>2. CASE i <= Len(w)
    BY <1>1, <2>1, <2>2 DEF Counted
  <2>3. CASE ~ (i <= Len(w))
    <3>1. i - Len(w) \in 1..Len(q) /\ unread[i] = q[i - Len(w)]
      BY <1>1, <2>1, <2>3
    <3>2. q[i - Len(w)].number = g + Len(w) + (i - Len(w))
      BY <3>1 DEF Counted
    <3>3. QED
      BY <1>1, <2>1, <3>1, <3>2
  <2>4. QED
    BY <2>2, <2>3
<1>3. QED
  BY <1>1, <1>2 DEF unread

-----------------------------------------------------------------------------
(* The invariant. *)

Streams == [phase : {"none", "asked", "live", "dropped", "ended"},
            queue : Seq(Items), wire : Seq(Items), got : Nat]

StreamTyped ==
    /\ bus \in [count : Nat, history : Seq(Items)]
    /\ stream \in Streams
    /\ run \in [id : Nat, phase : {"down", "up", "stopping"}]
    /\ worker \in [at : {"connect", "open", "read"}, bridge : Nat, since : Nat]

\* The history is the end of what was published.
HistoryIsTail ==
    /\ Len(bus.history) <= bus.count
    /\ Counted(bus.history, bus.count - Len(bus.history))

\* No stream of a run that is gone is written to, and none is asked of the store.
StreamOfARun ==
    /\ run.phase = "down" => stream.phase \in {"none", "ended"}
    /\ worker.at = "open" => worker.bridge # Local

\* StreamIsGapless, socket and queue apart.
Gapless ==
    stream.phase = "live" =>
        /\ stream.got + Len(stream.wire) + Len(stream.queue) = bus.count
        /\ Counted(stream.wire, stream.got)
        /\ Counted(stream.queue, stream.got + Len(stream.wire))

StreamInv ==
    /\ StreamTyped
    /\ HistoryIsTail
    /\ StreamOfARun
    /\ Gapless

LEMMA GaplessIsEnough == StreamInv => StreamIsGapless
<1>. SUFFICES ASSUME StreamInv, stream.phase = "live"
              PROVE  LET unread == stream.wire \o stream.queue
                     IN  /\ stream.got + Len(unread) = bus.count
                         /\ \A i \in DOMAIN unread : unread[i].number = stream.got + i
  BY DEF StreamIsGapless
<1>. DEFINE w == stream.wire
            q == stream.queue
            g == stream.got
<1>1. /\ w \in Seq(Items) /\ q \in Seq(Items) /\ g \in Nat
      /\ g + Len(w) + Len(q) = bus.count
      /\ Counted(w, g) /\ Counted(q, g + Len(w))
  BY DEF StreamInv, StreamTyped, Streams, Gapless
<1>. HIDE DEF w, q, g
<1>2. /\ Len(w \o q) = Len(w) + Len(q)
      /\ \A i \in DOMAIN (w \o q) : (w \o q)[i].number = g + i
  BY <1>1, CountedConcat
<1>3. g + Len(w \o q) = bus.count
  BY <1>1, <1>2
<1>4. QED
  BY <1>2, <1>3 DEF w, q, g

\* A stream that is not live is of no concern.
LEMMA NotLive ==
    ASSUME StreamInv, stream' \in Streams, stream'.phase # "live",
           run'.phase = "down" => stream'.phase \in {"none", "ended"},
           worker'.at = "open" => worker'.bridge # Local,
           bus' = bus,
           run' \in [id : Nat, phase : {"down", "up", "stopping"}],
           worker' \in [at : {"connect", "open", "read"}, bridge : Nat, since : Nat]
    PROVE  StreamInv'
BY DEF StreamInv, StreamTyped, HistoryIsTail, StreamOfARun, Gapless

LEMMA AbsentRunIsSilent ==
    ASSUME NEW bridge, bridge # Local, run.phase = "down"
    PROVE  Answered(bridge) = {FALSE}
BY Zenon DEF Answered

LEMMA StreamInit == Init => StreamInv
<1>. SUFFICES ASSUME Init PROVE StreamInv
  OBVIOUS
<1>1. StreamTyped /\ StreamOfARun
  BY CountedNothing, WindowAssumption DEF Init, StreamTyped, Streams, StreamOfARun, NoStream, Local
<1>2. HistoryIsTail
  BY CountedNothing DEF Init, HistoryIsTail
<1>3. Gapless
  BY DEF Init, Gapless, NoStream
<1>4. QED
  BY <1>1, <1>2, <1>3 DEF StreamInv

-----------------------------------------------------------------------------
(* The steps. *)

LEMMA LastOfIs ==
    ASSUME NEW hh \in Seq(Items), NEW n \in Nat, Len(hh) <= n, Counted(hh, n - Len(hh))
    PROVE  LET l == LastOf(hh)
           IN  l \in Seq(Items) /\ Len(l) <= n /\ Counted(l, n - Len(l))
<1>. DEFINE l == LastOf(hh)
<1>0. Len(hh) \in Nat /\ n - Len(hh) \in Nat
  OBVIOUS
<1>1. CASE Len(hh) > HistorySize
  <2>1. l = Tail(hh) /\ hh # <<>>
    BY <1>1, WindowAssumption DEF LastOf
  <2>2. /\ Tail(hh) \in Seq(Items) /\ Len(Tail(hh)) = Len(hh) - 1
        /\ Counted(Tail(hh), n - Len(hh) + 1)
    BY <1>0, <2>1, CountedTail
  <2>3. n - (Len(hh) - 1) = n - Len(hh) + 1
    BY <1>0
  <2>. HIDE DEF l
  <2>4. l \in Seq(Items) /\ Len(l) = Len(hh) - 1 /\ Counted(l, n - (Len(hh) - 1))
    BY <2>1, <2>2, <2>3
  <2>5. QED
    BY <1>0, <2>4 DEF l
<1>2. CASE ~ (Len(hh) > HistorySize)
  BY <1>2 DEF LastOf
<1>3. QED
  BY <1>1, <1>2

\* An event joins the history and the queue, or finds the queue full and ends the stream.
LEMMA PublishKeeps ==
    ASSUME StreamInv, NEW kind \in Kinds, publish(kind), run' = run, worker' = worker
    PROVE  StreamInv'
<1>. DEFINE event == Event(bus.count + 1, kind)
            n == bus.count
            h == bus.history
            hh == Append(h, event)
<1>1. n \in Nat /\ h \in Seq(Items) /\ Len(h) \in Nat /\ Len(h) <= n /\ Counted(h, n - Len(h))
  BY DEF StreamInv, StreamTyped, HistoryIsTail
<1>2. event \in Items /\ event.number = n + 1 /\ Closing \in Items
  BY <1>1 DEF Items, Event, Closing, Kinds
<1>3. bus' = [count |-> n + 1, history |-> LastOf(hh)] /\ stream' = Enqueue(stream, event)
  BY DEF publish
<1>. HIDE DEF n, h, event
<1>4. hh \in Seq(Items) /\ Len(hh) = Len(h) + 1 /\ Counted(hh, n - Len(h))
  BY <1>1, <1>2, CountedAppend
<1>5. Len(hh) <= n + 1 /\ n - Len(h) = (n + 1) - Len(hh)
  BY <1>1, <1>4
<1>. HIDE DEF hh
<1>. DEFINE l == LastOf(hh)
            m == n + 1
<1>6. l \in Seq(Items) /\ Len(l) <= m /\ Counted(l, m - Len(l))
  <2>1. m \in Nat /\ Len(hh) <= m /\ Counted(hh, m - Len(hh))
    BY <1>1, <1>4, <1>5
  <2>. HIDE DEF m
  <2>2. QED
    BY <1>4, <2>1, LastOfIs
<1>7. HistoryIsTail'
  <2>1. bus'.count = m /\ bus'.history = l
    BY <1>3
  <2>. HIDE DEF l, m
  <2>2. Len(bus'.history) <= bus'.count /\ Counted(bus'.history, bus'.count - Len(bus'.history))
    BY <1>6, <2>1
  <2>3. QED
    BY <2>2 DEF HistoryIsTail, Counted
<1>8. /\ stream' \in Streams
      /\ stream'.phase # stream.phase => stream.phase = "live" /\ stream'.phase = "dropped"
      /\ stream'.phase = "live" =>
            stream'.queue = Append(stream.queue, event) /\ stream'.wire = stream.wire
            /\ stream'.got = stream.got
  <2>1. CASE stream.phase # "live"
    BY <1>3, <2>1 DEF Enqueue, StreamInv, StreamTyped
  <2>2. CASE stream.phase = "live" /\ Len(stream.queue) < QueueSize
    <3>1. stream' = [stream EXCEPT !.queue = Append(@, event)]
      BY <1>3, <2>2 DEF Enqueue
    <3>2. Append(stream.queue, event) \in Seq(Items)
      BY <1>2 DEF StreamInv, StreamTyped, Streams
    <3>3. QED
      BY <2>2, <3>1, <3>2 DEF StreamInv, StreamTyped, Streams
  <2>3. CASE stream.phase = "live" /\ ~ (Len(stream.queue) < QueueSize)
    <3>1. stream' = [stream EXCEPT !.queue = Append(Tail(@), Closing), !.phase = "dropped"]
      BY <1>3, <2>3 DEF Enqueue
    <3>2. stream.queue \in Seq(Items) /\ stream.queue # <<>>
      BY <2>3, WindowAssumption DEF StreamInv, StreamTyped, Streams
    <3>3. Append(Tail(stream.queue), Closing) \in Seq(Items)
      BY <1>2, <3>2
    <3>4. QED
      BY <2>3, <3>1, <3>3 DEF StreamInv, StreamTyped, Streams
  <2>4. QED
    BY <2>1, <2>2, <2>3
<1>9. StreamTyped'
  BY <1>1, <1>3, <1>6, <1>8 DEF StreamInv, StreamTyped, Streams
<1>10. StreamOfARun'
  BY <1>8 DEF StreamInv, StreamOfARun
<1>11. Gapless'
  <2>. SUFFICES ASSUME stream'.phase = "live"
                PROVE  /\ stream'.got + Len(stream'.wire) + Len(stream'.queue) = bus'.count
                       /\ Counted(stream'.wire, stream'.got)
                       /\ Counted(stream'.queue, stream'.got + Len(stream'.wire))
    BY DEF Gapless, Counted
  <2>. DEFINE q == stream.queue
              w == stream.wire
              g == stream.got
  <2>1. /\ q \in Seq(Items) /\ w \in Seq(Items) /\ g \in Nat
        /\ g + Len(w) + Len(q) = n
        /\ Counted(w, g) /\ Counted(q, g + Len(w))
    BY <1>8 DEF StreamInv, StreamTyped, Streams, Gapless, n
  <2>2. stream'.queue = Append(q, event) /\ stream'.wire = w /\ stream'.got = g
    BY <1>8
  <2>. HIDE DEF q, w, g
  <2>3. Len(w) \in Nat /\ Len(q) \in Nat /\ g + Len(w) \in Nat
        /\ event.number = (g + Len(w)) + Len(q) + 1
    BY <1>1, <1>2, <2>1
  <2>4. Len(Append(q, event)) = Len(q) + 1 /\ Counted(Append(q, event), g + Len(w))
    BY <1>2, <2>1, <2>3, CountedAppend
  <2>5. bus'.count = n + 1
    BY <1>3
  <2>6. g + Len(w) + (Len(q) + 1) = n + 1
    <3>1. n \in Nat
      BY <1>1
    <3>2. g \in Nat /\ g + Len(w) + Len(q) = n
      BY <2>1
    <3>3. Len(w) \in Nat /\ Len(q) \in Nat
      BY <2>3
    <3>4. QED
      BY <3>1, <3>2, <3>3
  <2>7. QED
    BY <2>1, <2>2, <2>4, <2>5, <2>6
<1>12. QED
  BY <1>7, <1>9, <1>10, <1>11 DEF StreamInv

\* The replay is the history, and what follows it comes through the queue.
LEMMA AttachKeeps == StreamInv /\ Attach => StreamInv'
<1>. SUFFICES ASSUME StreamInv, Attach PROVE StreamInv'
  OBVIOUS
<1>. DEFINE h == bus.history
            n == bus.count
<1>1. n \in Nat /\ h \in Seq(Items) /\ Len(h) \in Nat /\ Len(h) <= n /\ Counted(h, n - Len(h))
  BY DEF StreamInv, StreamTyped, HistoryIsTail
<1>2. /\ stream' = [phase |-> "live", queue |-> <<>>, wire |-> h, got |-> n - Len(h)]
      /\ worker' = [worker EXCEPT !.since = 0] /\ bus' = bus /\ run' = run
      /\ run.phase # "down"
  BY DEF Attach, StreamInv, StreamTyped
<1>3. n - Len(h) \in Nat
  BY <1>1
<1>4. stream' \in Streams
  BY <1>1, <1>2, <1>3, CountedNothing DEF Streams
<1>5. StreamTyped'
  BY <1>2, <1>4 DEF StreamInv, StreamTyped
<1>6. Gapless'
  <2>1. bus'.count = n
    BY <1>2
  <2>. HIDE DEF h, n
  <2>2. /\ stream'.got = n - Len(h) /\ stream'.wire = h /\ stream'.queue = <<>>
    BY <1>2
  <2>3. (n - Len(h)) + Len(h) + Len(<<>>) = n
    BY <1>1, CountedNothing
  <2>4. /\ stream'.got + Len(stream'.wire) + Len(stream'.queue) = bus'.count
        /\ Counted(stream'.wire, stream'.got)
        /\ Counted(stream'.queue, stream'.got + Len(stream'.wire))
    BY <1>1, <2>1, <2>2, <2>3, CountedNothing
  <2>5. QED
    BY <2>4 DEF Gapless, Counted
<1>7. HistoryIsTail' /\ StreamOfARun'
  BY <1>2 DEF StreamInv, StreamTyped, HistoryIsTail, StreamOfARun
<1>8. QED
  BY <1>5, <1>6, <1>7 DEF StreamInv

\* One event moves from the queue to the socket, or the stream ends.
LEMMA ForwardKeeps == StreamInv /\ Forward => StreamInv'
<1>. SUFFICES ASSUME StreamInv, Forward PROVE StreamInv'
  OBVIOUS
<1>. DEFINE q == stream.queue
            w == stream.wire
            g == stream.got
<1>0. /\ q \in Seq(Items) /\ w \in Seq(Items) /\ g \in Nat /\ q # <<>>
      /\ bus' = bus /\ run' = run /\ worker' = worker
      /\ stream.phase \in {"live", "dropped"}
  BY DEF Forward, StreamInv, StreamTyped, Streams
<1>1. CASE stream' = [stream EXCEPT !.phase = "ended", !.queue = <<>>, !.got = 0]
  <2>1. stream' \in Streams /\ stream'.phase = "ended"
    BY <1>1, CountedNothing DEF StreamInv, StreamTyped, Streams
  <2>2. QED
    BY <1>0, <2>1, NotLive DEF StreamInv, StreamTyped, StreamOfARun
<1>2. CASE stream' = [stream EXCEPT !.wire = Append(@, Head(q)), !.queue = Tail(@)]
  <2>. DEFINE ww == Append(w, Head(q))
              qq == Tail(q)
  <2>1. /\ ww \in Seq(Items) /\ qq \in Seq(Items)
    <3>. HIDE DEF q, w
    <3>1. QED
      BY <1>0
  <2>2. /\ stream'.phase = stream.phase /\ stream'.wire = ww /\ stream'.queue = qq
        /\ stream'.got = g /\ stream' \in Streams
    BY <1>2, <2>1 DEF StreamInv, StreamTyped, Streams
  <2>3. StreamTyped' /\ HistoryIsTail' /\ StreamOfARun'
    BY <1>0, <2>2 DEF StreamInv, StreamTyped, HistoryIsTail, StreamOfARun
  <2>4. Gapless'
    <3>. SUFFICES ASSUME stream.phase = "live"
                  PROVE  /\ g + Len(ww) + Len(qq) = bus.count
                         /\ Counted(ww, g) /\ Counted(qq, g + Len(ww))
      BY <1>0, <2>2 DEF Gapless, Counted
    <3>1. g + Len(w) + Len(q) = bus.count /\ Counted(w, g) /\ Counted(q, g + Len(w))
      BY DEF StreamInv, Gapless
    <3>. HIDE DEF q, w, g
    <3>2. Len(w) \in Nat /\ Len(q) \in Nat /\ g + Len(w) \in Nat
      BY <1>0
    <3>3. /\ Head(q) \in Items /\ Head(q).number = (g + Len(w)) + 1
          /\ Len(qq) = Len(q) - 1 /\ Counted(qq, (g + Len(w)) + 1)
      BY <1>0, <3>1, <3>2, CountedTail
    <3>4. Len(ww) = Len(w) + 1 /\ Counted(ww, g)
      BY <1>0, <3>1, <3>3, CountedAppend
    <3>. HIDE DEF ww, qq
    <3>5. g + Len(ww) = (g + Len(w)) + 1 /\ g + Len(ww) + Len(qq) = g + Len(w) + Len(q)
      BY <1>0, <3>2, <3>3, <3>4
    <3>6. QED
      BY <3>1, <3>3, <3>4, <3>5
  <2>5. QED
    BY <2>3, <2>4 DEF StreamInv
<1>3. QED
  BY <1>1, <1>2 DEF Forward

\* The window reads on.
LEMMA ReadKeeps == StreamInv /\ ReadEvent => StreamInv'
<1>. SUFFICES ASSUME StreamInv, ReadEvent PROVE StreamInv'
  OBVIOUS
<1>. DEFINE q == stream.queue
            w == stream.wire
            g == stream.got
            gg == IF stream.phase = "ended" THEN 0 ELSE Head(w).number
<1>0. /\ q \in Seq(Items) /\ w \in Seq(Items) /\ g \in Nat /\ w # <<>>
      /\ bus' = bus /\ run' = run /\ worker' = worker
      /\ stream' = [stream EXCEPT !.wire = Tail(w), !.got = gg]
  BY DEF ReadEvent, StreamInv, StreamTyped, Streams
<1>1. Tail(w) \in Seq(Items) /\ Head(w) \in Items
  <2>. HIDE DEF w
  <2>1. QED
    BY <1>0
<1>2. gg \in Nat
  BY <1>1 DEF Items
<1>3. /\ stream'.phase = stream.phase /\ stream'.wire = Tail(w) /\ stream'.queue = q
      /\ stream'.got = gg /\ stream' \in Streams
  <2>. HIDE DEF gg
  <2>1. QED
    BY <1>0, <1>1, <1>2 DEF StreamInv, StreamTyped, Streams
<1>4. StreamTyped' /\ HistoryIsTail' /\ StreamOfARun'
  BY <1>0, <1>3 DEF StreamInv, StreamTyped, HistoryIsTail, StreamOfARun
<1>5. Gapless'
  <2>. SUFFICES ASSUME stream.phase = "live"
                PROVE  /\ gg + Len(Tail(w)) + Len(q) = bus.count
                       /\ Counted(Tail(w), gg) /\ Counted(q, gg + Len(Tail(w)))
    BY <1>0, <1>3 DEF Gapless, Counted
  <2>1. g + Len(w) + Len(q) = bus.count /\ Counted(w, g) /\ Counted(q, g + Len(w))
    BY DEF StreamInv, Gapless
  <2>2. gg = Head(w).number
    OBVIOUS
  <2>. HIDE DEF q, w, g, gg
  <2>3. /\ Head(w).number = g + 1 /\ Len(Tail(w)) = Len(w) - 1
        /\ Counted(Tail(w), g + 1)
    BY <1>0, <2>1, CountedTail
  <2>4. gg + Len(Tail(w)) = g + Len(w) /\ gg + Len(Tail(w)) + Len(q) = g + Len(w) + Len(q)
    <3>1. Len(w) \in Nat /\ Len(q) \in Nat
      BY <1>0
    <3>2. QED
      BY <1>0, <2>2, <2>3, <3>1
  <2>5. QED
    BY <2>1, <2>2, <2>3, <2>4
<1>6. QED
  BY <1>4, <1>5 DEF StreamInv

\* What brings no event and takes none leaves a stream as it is, or ends it, or asks for one
\* of a run that is there.
LEMMA OthersKeep ==
    ASSUME StreamInv, DaemonStarts \/ DaemonStops \/ DaemonEnds \/ Connect \/ OpenStream \/ ReadEnd
    PROVE  StreamInv'
<1>. USE CountedNothing
<1>0. NoStream \in Streams /\ NoStream.phase = "none" /\ \A phase \in {"asked", "ended"} :
          [NoStream EXCEPT !.phase = phase] \in Streams
          /\ [NoStream EXCEPT !.phase = phase].phase = phase
  BY DEF NoStream, Streams
<1>1. CASE DaemonStarts
  <2>1. /\ run' = [id |-> run.id + 1, phase |-> "up"] /\ bus' = [count |-> 0, history |-> <<>>]
        /\ stream' = stream /\ worker' = worker /\ stream.phase # "live"
    BY <1>1 DEF DaemonStarts, StreamInv, StreamOfARun
  <2>2. StreamTyped' /\ StreamOfARun' /\ Gapless'
    BY <2>1 DEF StreamInv, StreamTyped, StreamOfARun, Gapless
  <2>3. HistoryIsTail'
    <3>1. bus'.history = <<>> /\ bus'.count = 0
      BY <2>1
    <3>2. QED
      BY <3>1 DEF HistoryIsTail
  <2>4. QED
    BY <2>2, <2>3 DEF StreamInv
<1>2. CASE DaemonStops
  <2>1. /\ run' = [run EXCEPT !.phase = "stopping"] /\ bus' = bus /\ worker' = worker
        /\ stream' \in Streams /\ stream'.phase # "live"
    BY <1>2 DEF DaemonStops, StreamInv, StreamTyped, Streams
  <2>2. QED
    BY <2>1, NotLive DEF StreamInv, StreamTyped, StreamOfARun
<1>3. CASE DaemonEnds
  <2>1. PICK unread \in {stream.wire, <<>>} :
            stream' = IF stream.phase \in {"asked", "live", "dropped"}
                      THEN [NoStream EXCEPT !.phase = "ended", !.wire = unread]
                      ELSE stream
    BY <1>3 DEF DaemonEnds
  <2>2. unread \in Seq(Items)
    BY DEF StreamInv, StreamTyped, Streams
  <2>3. [NoStream EXCEPT !.phase = "ended", !.wire = unread] \in Streams
        /\ [NoStream EXCEPT !.phase = "ended", !.wire = unread].phase = "ended"
    BY <2>2 DEF NoStream, Streams
  <2>4. stream' \in Streams /\ stream'.phase \in {"none", "ended"}
    BY <2>1, <2>3 DEF StreamInv, StreamTyped, Streams
  <2>5. run' = [run EXCEPT !.phase = "down"] /\ bus' = bus /\ worker' = worker
    BY <1>3 DEF DaemonEnds
  <2>6. QED
    BY <2>4, <2>5, NotLive DEF StreamInv, StreamTyped, StreamOfARun
<1>4. CASE Connect
  <2>1. PICK bridge \in Found :
            worker' = [at |-> IF bridge = Local THEN "connect" ELSE "open",
                       bridge |-> bridge,
                       since |-> IF bridge = Local THEN 0 ELSE bus.count]
    BY <1>4 DEF Connect
  <2>2. bridge \in Nat
    <3>1. bridge = run.id \/ bridge = Local
      BY DEF Found
    <3>2. QED
      BY <3>1 DEF Local, StreamInv, StreamTyped
  <2>3. bus' = bus /\ run' = run /\ stream' = stream
    BY <1>4 DEF Connect
  <2>4. QED
    BY <2>1, <2>2, <2>3 DEF StreamInv, StreamTyped, HistoryIsTail, StreamOfARun, Gapless
<1>5. CASE OpenStream
  <2>1. worker.at = "open" /\ bus' = bus /\ run' = run
    BY <1>5 DEF OpenStream
  <2>2. PICK answered \in Answered(worker.bridge) :
            \/ /\ answered
               /\ stream' = [NoStream EXCEPT !.phase = "asked"]
               /\ worker' = [worker EXCEPT !.at = "read"]
            \/ /\ ~ answered
               /\ worker' = [worker EXCEPT !.at = "connect", !.since = 0]
               /\ stream' = stream
    BY <1>5 DEF OpenStream
  <2>3. CASE /\ answered
             /\ stream' = [NoStream EXCEPT !.phase = "asked"]
             /\ worker' = [worker EXCEPT !.at = "read"]
    <3>1. worker.bridge # Local
      BY <2>1 DEF StreamInv, StreamOfARun
    <3>2. run.phase # "down"
      BY <2>3, <3>1, AbsentRunIsSilent
    <3>3. stream' \in Streams /\ stream'.phase = "asked"
      BY <1>0, <2>3
    <3>4. QED
      BY <2>1, <2>3, <3>2, <3>3, NotLive DEF StreamInv, StreamTyped
  <2>4. CASE stream' = stream /\ worker' = [worker EXCEPT !.at = "connect", !.since = 0]
    BY <2>1, <2>4 DEF StreamInv, StreamTyped, HistoryIsTail, StreamOfARun, Gapless
  <2>5. QED
    BY <2>2, <2>3, <2>4
<1>6. CASE ReadEnd
  <2>1. /\ stream' = NoStream /\ worker' = [worker EXCEPT !.at = "connect"]
        /\ bus' = bus /\ run' = run
    BY <1>6 DEF ReadEnd
  <2>2. QED
    BY <1>0, <2>1, NotLive DEF StreamInv, StreamTyped
<1>7. QED
  BY <1>1, <1>2, <1>3, <1>4, <1>5, <1>6

LEMMA StreamStep == StreamInv /\ [Next]_vars => StreamInv'
<1>. SUFFICES ASSUME StreamInv, [Next]_vars PROVE StreamInv'
  OBVIOUS
<1>1. CASE Attach
  BY <1>1, AttachKeeps
<1>2. CASE Forward
  BY <1>2, ForwardKeeps
<1>3. CASE PublishLog \/ EditElsewhere
  BY <1>3, PublishKeeps DEF PublishLog, EditElsewhere, Kinds
<1>4. CASE DaemonStarts \/ DaemonStops \/ DaemonEnds \/ Connect \/ OpenStream \/ ReadEnd
  BY <1>4, OthersKeep
<1>5. CASE ReadEvent
  BY <1>5, ReadKeeps
<1>6. CASE bus' = bus /\ stream' = stream /\ run' = run /\ worker' = worker
  BY <1>6 DEF StreamInv, StreamTyped, HistoryIsTail, StreamOfARun, Gapless
<1>7. CASE EditHere
  <2>1. CASE publish("domains")
    BY <1>7, <2>1, PublishKeeps DEF EditHere, Kinds
  <2>2. QED
    BY <1>6, <1>7, <2>1 DEF EditHere
<1>8. QED
  BY <1>1, <1>2, <1>3, <1>4, <1>5, <1>6, <1>7
     DEF Next, Daemon, Follower, Slot, vars, Deliver, Ready, PressStart, PollEnds, Dismiss

\* As long as the bus holds the window's subscription, the window gets every event after the
\* replay once and in order, whatever the sizes of the queue, the history and the socket, and
\* whatever connections broke before.
THEOREM StreamIsAlwaysGapless == Spec => []StreamIsGapless
<1>1. Spec => []StreamInv
  BY StreamInit, StreamStep, PTL DEF Spec
<1>2. QED
  BY <1>1, GaplessIsEnough, PTL

-----------------------------------------------------------------------------
(* Every queue within its bound. *)

Windows == [bridge : Bridges, shown : 0..MaxEdits, starting : BOOLEAN,
            notices : SUBSET {"offline", "resolver"}, ready : BOOLEAN]

BusBounded ==
    /\ bus.count \in 0..MaxEvents
    /\ bus.history \in Seq(Events) /\ Len(bus.history) <= HistorySize

StreamBounded ==
    /\ stream.phase \in {"none", "asked", "live", "dropped", "ended"}
    /\ stream.queue \in Seq(Events \union {Closing}) /\ Len(stream.queue) <= QueueSize
    /\ stream.wire \in Seq(Events)
    /\ Len(stream.wire) <= WireSize \/ Len(stream.wire) <= HistorySize
    /\ stream.got \in 0..MaxEvents

WorkerTyped ==
    worker \in [at : {"connect", "open", "read"}, bridge : Bridges, since : 0..MaxEvents]

RunTyped == run \in [id : Bridges, phase : {"down", "up", "stopping"}]

SignalsBounded ==
    signals \in Seq({"online", "offline", "domains"}) /\ Len(signals) <= MaxSignals

LEMMA WindowTypeParts ==
    WindowTypeOK <=> /\ store \in 0..MaxEdits /\ RunTyped /\ BusBounded /\ StreamBounded
                     /\ WorkerTyped /\ SignalsBounded /\ window \in Windows
BY DEF WindowTypeOK, RunTyped, BusBounded, StreamBounded, WorkerTyped, SignalsBounded, Windows

LEMMA SizesAreNatural ==
    /\ QueueSize \in Nat /\ QueueSize >= 1 /\ HistorySize \in Nat /\ HistorySize >= 1
    /\ WireSize \in Nat /\ WireSize >= 1 /\ MaxSignals \in Nat /\ MaxSignals >= 1
    /\ MaxEdits \in Nat /\ MaxRuns \in Nat /\ MaxEvents \in Nat
BY WindowAssumption

LEMMA ShownIs ==
    ASSUME NEW w \in Windows, NEW answered \in BOOLEAN, NEW version \in 0..MaxEdits
    PROVE  Refreshed(w, answered, version) \in Windows /\ StatusShown(w, answered) \in Windows
BY DEF Refreshed, StatusShown, Windows

LEMMA AnsweredIs == ASSUME NEW bridge PROVE Answered(bridge) \subseteq BOOLEAN
BY DEF Answered

LEMMA StatusesAre == ASSUME NEW w \in Windows PROVE Statuses(w) \subseteq Windows
<1>1. ASSUME NEW answered \in Answered(w.bridge) PROVE StatusShown(w, answered) \in Windows
  BY AnsweredIs, ShownIs, SizesAreNatural
<1>2. QED
  BY <1>1 DEF Statuses

LEMMA RedrawnAre ==
    ASSUME NEW w \in Windows, NEW version \in 0..MaxEdits
    PROVE  Redrawn(w, version) \subseteq Windows
<1>1. ASSUME NEW answered \in Answered(w.bridge)
      PROVE  Statuses(Refreshed(w, answered, version)) \subseteq Windows
  BY AnsweredIs, ShownIs, StatusesAre
<1>2. QED
  BY <1>1 DEF Redrawn

LEMMA StartTriedAre == ASSUME NEW w \in Windows PROVE StartTried(w) \subseteq Windows
<1>. DEFINE asked == [w EXCEPT !.notices = {}]
            failed == [asked EXCEPT !.notices = {"resolver"}]
            tried == [asked EXCEPT !.starting = TRUE]
<1>1. asked \in Windows /\ failed \in Windows /\ tried \in Windows
  BY DEF Windows
<1>2. Statuses(asked) \subseteq Windows /\ Statuses(failed) \subseteq Windows
  BY <1>1, StatusesAre
<1>. HIDE DEF asked, failed, tried
<1>3. {tried} \union Statuses(asked) \union Statuses(failed) \subseteq Windows
  BY <1>1, <1>2
<1>4. QED
  BY <1>3 DEF StartTried, asked, failed, tried

LEMMA FoundIs == ASSUME RunTyped PROVE Found \subseteq Bridges
<1>1. Local \in Bridges /\ run.id \in Bridges
  BY SizesAreNatural DEF RunTyped, Bridges, Local
<1>2. ASSUME NEW bridge \in Found PROVE bridge \in {run.id, Local}
  BY <1>2 DEF Found
<1>3. QED
  BY <1>1, <1>2

LEMMA SignalQueued ==
    ASSUME SignalsBounded, NEW signal \in {"online", "offline", "domains"}, emit(signal)
    PROVE  SignalsBounded'
BY SizesAreNatural DEF SignalsBounded, emit

\* An event published finds its place in the history and in the queue.
LEMMA PublishBounded ==
    ASSUME StreamInv, BusBounded, StreamBounded, NEW kind \in Kinds, publish(kind)
    PROVE  BusBounded' /\ StreamBounded'
<1>. DEFINE event == Event(bus.count + 1, kind)
            h == bus.history
            q == stream.queue
            All == Events \union {Closing}
<1>1. event \in Events /\ event \in All /\ bus.count + 1 \in 0..MaxEvents
  BY SizesAreNatural DEF publish, Event, Events, BusBounded
<1>2. h \in Seq(Events) /\ Len(h) <= HistorySize /\ q \in Seq(All) /\ Len(q) <= QueueSize
  BY DEF BusBounded, StreamBounded
<1>3. /\ bus'.count = bus.count + 1 /\ bus'.history = LastOf(Append(h, event))
      /\ stream' = Enqueue(stream, event)
  BY DEF publish
<1>4. stream \in Streams
  BY DEF StreamInv, StreamTyped
<1>. HIDE DEF event, h, q
<1>5. BusBounded'
  <2>1. Append(h, event) \in Seq(Events) /\ Len(Append(h, event)) = Len(h) + 1
    BY <1>1, <1>2
  <2>2. LastOf(Append(h, event)) \in Seq(Events) /\ Len(LastOf(Append(h, event))) <= HistorySize
    BY <1>2, <2>1, SizesAreNatural DEF LastOf
  <2>3. QED
    BY <1>1, <1>3, <2>2 DEF BusBounded
<1>6. StreamBounded'
  <2>1. CASE stream.phase # "live"
    <3>1. stream' = stream
      BY <1>3, <2>1 DEF Enqueue
    <3>2. QED
      BY <3>1 DEF StreamBounded
  <2>2. CASE stream.phase = "live" /\ Len(q) < QueueSize
    <3>1. stream' = [stream EXCEPT !.queue = Append(q, event)]
      BY <1>3, <2>2 DEF Enqueue, q
    <3>2. Append(q, event) \in Seq(All) /\ Len(Append(q, event)) <= QueueSize
      BY <1>1, <1>2, <2>2, SizesAreNatural
    <3>. HIDE DEF All
    <3>3. QED
      BY <1>4, <3>1, <3>2 DEF StreamBounded, Streams, All
  <2>3. CASE stream.phase = "live" /\ ~ (Len(q) < QueueSize)
    <3>1. stream' = [stream EXCEPT !.queue = Append(Tail(q), Closing), !.phase = "dropped"]
      BY <1>3, <2>3 DEF Enqueue, q
    <3>2. Append(Tail(q), Closing) \in Seq(All) /\ Len(Append(Tail(q), Closing)) <= QueueSize
      <4>1. q # <<>> /\ Closing \in All
        BY <1>2, <2>3, SizesAreNatural
      <4>2. Tail(q) \in Seq(All) /\ Len(Tail(q)) = Len(q) - 1
        BY <1>2, <4>1
      <4>. HIDE DEF All
      <4>3. QED
        BY <1>2, <4>1, <4>2, SizesAreNatural
    <3>. HIDE DEF All
    <3>3. QED
      BY <1>4, <3>1, <3>2 DEF StreamBounded, Streams, All
  <2>4. QED
    BY <2>1, <2>2, <2>3
<1>7. QED
  BY <1>5, <1>6

\* A stream that ended, was asked for or is none lies within its bounds.
LEMMA StreamReset ==
    ASSUME stream'.phase \in {"none", "asked", "ended"}, stream'.queue = <<>>,
           stream'.wire \in Seq(Events), stream'.got = 0,
           Len(stream'.wire) <= WireSize \/ Len(stream'.wire) <= HistorySize
    PROVE  StreamBounded'
<1>1. <<>> \in Seq(Events \union {Closing}) /\ Len(<<>>) <= QueueSize
  BY SizesAreNatural
<1>2. 0 \in 0..MaxEvents
  BY SizesAreNatural
<1>3. QED
  BY <1>1, <1>2 DEF StreamBounded

LEMMA StreamSame == ASSUME StreamBounded, stream' = stream PROVE StreamBounded'
BY DEF StreamBounded

LEMMA NothingRead ==
    /\ <<>> \in Seq(Events)
    /\ Len(<<>>) <= WireSize
BY SizesAreNatural

LEMMA WorkerSince ==
    ASSUME WorkerTyped, NEW at \in {"connect", "open", "read"},
           worker' = [worker EXCEPT !.at = at, !.since = 0]
    PROVE  WorkerTyped'
<1>1. worker' = [at |-> at, bridge |-> worker.bridge, since |-> 0]
  BY DEF WorkerTyped
<1>2. worker.bridge \in Bridges /\ 0 \in 0..MaxEvents
  BY SizesAreNatural DEF WorkerTyped
<1>3. QED
  BY <1>1, <1>2 DEF WorkerTyped

LEMMA AttachBounded ==
    ASSUME StreamInv, BusBounded, WorkerTyped, Attach
    PROVE  StreamBounded' /\ WorkerTyped'
<1>1. stream' = [phase |-> "live", queue |-> <<>>, wire |-> bus.history,
                 got |-> bus.count - Len(bus.history)]
      /\ worker' = [worker EXCEPT !.since = 0]
  BY DEF Attach
<1>2. Len(bus.history) \in Nat /\ Len(bus.history) <= bus.count
  BY DEF StreamInv, HistoryIsTail, BusBounded
<1>3. bus.count - Len(bus.history) \in 0..MaxEvents
  BY <1>2, SizesAreNatural DEF BusBounded
<1>4. <<>> \in Seq(Events \union {Closing}) /\ Len(<<>>) <= QueueSize
  BY SizesAreNatural
<1>5. StreamBounded'
  BY <1>1, <1>3, <1>4 DEF StreamBounded, BusBounded
<1>6. WorkerTyped'
  BY <1>1, SizesAreNatural DEF WorkerTyped
<1>7. QED
  BY <1>5, <1>6

LEMMA ForwardBounded ==
    ASSUME StreamInv, StreamBounded, Forward
    PROVE  StreamBounded'
<1>. DEFINE q == stream.queue
            w == stream.wire
            All == Events \union {Closing}
<1>1. /\ q \in Seq(All) /\ q # <<>> /\ Len(q) <= QueueSize /\ w \in Seq(Events)
      /\ stream \in Streams
  BY DEF StreamBounded, Forward, StreamInv, StreamTyped
<1>. HIDE DEF q, w, All
<1>2. CASE stream' = [stream EXCEPT !.phase = "ended", !.queue = <<>>, !.got = 0]
  <2>1. stream' = [phase |-> "ended", queue |-> <<>>, wire |-> stream.wire, got |-> 0]
    BY <1>1, <1>2 DEF Streams
  <2>2. QED
    BY <2>1, StreamReset DEF StreamBounded
<1>3. CASE /\ Head(q) # Closing /\ Len(w) < WireSize
           /\ stream' = [stream EXCEPT !.wire = Append(w, Head(q)), !.queue = Tail(q)]
  <2>1. Head(q) \in All /\ Tail(q) \in Seq(All) /\ Len(Tail(q)) <= QueueSize
    BY <1>1, SizesAreNatural
  <2>2. Head(q) \in Events
    BY <1>3, <2>1 DEF All
  <2>3. Append(w, Head(q)) \in Seq(Events) /\ Len(Append(w, Head(q))) <= WireSize
    BY <1>1, <1>3, <2>2, SizesAreNatural
  <2>4. /\ stream'.phase = stream.phase /\ stream'.got = stream.got
        /\ stream'.wire = Append(w, Head(q)) /\ stream'.queue = Tail(q)
    BY <1>1, <1>3 DEF Streams
  <2>5. QED
    BY <2>1, <2>3, <2>4 DEF StreamBounded, All
<1>4. QED
  BY <1>2, <1>3 DEF Forward, q, w

LEMMA ReadBounded ==
    ASSUME StreamInv, StreamBounded, SignalsBounded, ReadEvent
    PROVE  StreamBounded' /\ SignalsBounded'
<1>. DEFINE w == stream.wire
<1>1. w \in Seq(Events) /\ w # <<>> /\ stream \in Streams
  BY DEF StreamBounded, ReadEvent, StreamInv, StreamTyped
<1>2. Head(w) \in Events /\ Tail(w) \in Seq(Events) /\ Len(Tail(w)) = Len(w) - 1
      /\ Len(w) \in Nat
  BY <1>1
<1>3. stream' = [stream EXCEPT !.wire = Tail(w),
                               !.got = IF stream.phase = "ended" THEN 0 ELSE Head(w).number]
  BY DEF ReadEvent
<1>4. Head(w).number \in 0..MaxEvents
  BY <1>2, SizesAreNatural DEF Events
<1>. HIDE DEF w
<1>5. /\ stream'.phase = stream.phase /\ stream'.queue = stream.queue
      /\ stream'.wire = Tail(w) /\ stream'.got \in 0..MaxEvents
  BY <1>1, <1>3, <1>4, SizesAreNatural DEF Streams
<1>6. Len(Tail(w)) <= WireSize \/ Len(Tail(w)) <= HistorySize
  BY <1>2, SizesAreNatural DEF StreamBounded, w
<1>7. StreamBounded'
  BY <1>2, <1>5, <1>6 DEF StreamBounded
<1>8. SignalsBounded'
  <2>1. CASE emit("domains")
    BY <2>1, SignalQueued
  <2>2. CASE UNCHANGED signals
    BY <2>2 DEF SignalsBounded
  <2>3. QED
    BY <2>1, <2>2 DEF ReadEvent
<1>9. QED
  BY <1>7, <1>8

LEMMA LivesBounded ==
    ASSUME StreamInv, WindowTypeOK, DaemonStarts \/ DaemonStops \/ DaemonEnds
    PROVE  WindowTypeOK'
<1>1. /\ stream \in Streams /\ stream.wire \in Seq(Events)
      /\ Len(stream.wire) <= WireSize \/ Len(stream.wire) <= HistorySize
      /\ RunTyped /\ BusBounded /\ StreamBounded
  BY WindowTypeParts DEF StreamInv, StreamTyped, StreamBounded
<1>2. UNCHANGED <<store, worker, signals, window>>
  BY DEF DaemonStarts, DaemonStops, DaemonEnds
<1>3. CASE DaemonStarts
  <2>1. run' = [id |-> run.id + 1, phase |-> "up"] /\ run.id < MaxRuns /\ stream' = stream
        /\ bus' = [count |-> 0, history |-> <<>>]
    BY <1>3 DEF DaemonStarts
  <2>2. run.id + 1 \in Bridges
    BY <1>1, <2>1, SizesAreNatural DEF RunTyped, Bridges, Local
  <2>3. RunTyped' /\ BusBounded' /\ StreamBounded'
    BY <1>1, <2>1, <2>2, SizesAreNatural DEF RunTyped, BusBounded, StreamBounded
  <2>4. QED
    BY <1>2, <2>3 DEF WindowTypeOK, RunTyped, BusBounded, StreamBounded
<1>4. CASE DaemonStops
  <2>1. /\ run' = [run EXCEPT !.phase = "stopping"] /\ bus' = bus
        /\ \/ stream' = [stream EXCEPT !.phase = "ended", !.queue = <<>>, !.got = 0]
           \/ stream' = stream
    BY <1>4 DEF DaemonStops
  <2>2. RunTyped' /\ BusBounded'
    BY <1>1, <2>1 DEF RunTyped, BusBounded
  <2>3. ASSUME stream' = [stream EXCEPT !.phase = "ended", !.queue = <<>>, !.got = 0]
        PROVE  StreamBounded'
    <3>1. stream' = [phase |-> "ended", queue |-> <<>>, wire |-> stream.wire, got |-> 0]
      BY <1>1, <2>3 DEF Streams
    <3>2. QED
      BY <1>1, <3>1, StreamReset
  <2>4. ASSUME stream' = stream
        PROVE  StreamBounded'
    BY <1>1, <2>4, StreamSame
  <2>5. QED
    BY <1>2, <2>1, <2>2, <2>3, <2>4 DEF WindowTypeOK, RunTyped, BusBounded, StreamBounded
<1>5. CASE DaemonEnds
  <2>1. run' = [run EXCEPT !.phase = "down"] /\ bus' = bus
    BY <1>5 DEF DaemonEnds
  <2>2. PICK unread \in {stream.wire, <<>>} :
            stream' = IF stream.phase \in {"asked", "live", "dropped"}
                      THEN [NoStream EXCEPT !.phase = "ended", !.wire = unread]
                      ELSE stream
    BY <1>5 DEF DaemonEnds
  <2>3. RunTyped' /\ BusBounded'
    BY <1>1, <2>1 DEF RunTyped, BusBounded
  <2>4. ASSUME stream' = [NoStream EXCEPT !.phase = "ended", !.wire = unread]
        PROVE  StreamBounded'
    <3>1. unread \in Seq(Events) /\ (Len(unread) <= WireSize \/ Len(unread) <= HistorySize)
      <4>1. CASE unread = stream.wire
        BY <1>1, <4>1
      <4>2. CASE unread = <<>>
        BY <4>2, NothingRead
      <4>3. QED
        BY <4>1, <4>2
    <3>2. stream' = [phase |-> "ended", queue |-> <<>>, wire |-> unread, got |-> 0]
      BY <2>4 DEF NoStream
    <3>3. QED
      BY <3>1, <3>2, StreamReset
  <2>5. ASSUME stream' = stream
        PROVE  StreamBounded'
    BY <1>1, <2>5, StreamSame
  <2>6. QED
    BY <1>2, <2>1, <2>2, <2>3, <2>4, <2>5
       DEF WindowTypeOK, RunTyped, BusBounded, StreamBounded
<1>6. QED
  BY <1>3, <1>4, <1>5

LEMMA FollowerBounded ==
    ASSUME StreamInv, WindowTypeOK, Follower
    PROVE  WindowTypeOK'
<1>1. /\ stream \in Streams /\ RunTyped /\ BusBounded /\ StreamBounded
      /\ WorkerTyped /\ SignalsBounded
  BY WindowTypeParts DEF StreamInv, StreamTyped
<1>2. UNCHANGED <<store, run, bus, window>>
  BY DEF Follower, Connect, OpenStream, ReadEvent, ReadEnd
<1>3. StreamBounded' /\ WorkerTyped' /\ SignalsBounded'
  <2>1. CASE Connect
    <3>1. PICK bridge \in Found :
              /\ worker' = [at |-> IF bridge = Local THEN "connect" ELSE "open",
                            bridge |-> bridge,
                            since |-> IF bridge = Local THEN 0 ELSE bus.count]
              /\ emit(IF bridge = Local THEN "offline" ELSE "online")
      BY <2>1 DEF Connect
    <3>2. bridge \in Bridges /\ bus.count \in 0..MaxEvents /\ 0 \in 0..MaxEvents
      BY <1>1, FoundIs, SizesAreNatural DEF BusBounded
    <3>3. WorkerTyped'
      BY <3>1, <3>2 DEF WorkerTyped
    <3>4. SignalsBounded'
      BY <1>1, <3>1, SignalQueued
    <3>5. stream' = stream
      BY <2>1 DEF Connect
    <3>6. QED
      BY <1>1, <3>3, <3>4, <3>5 DEF StreamBounded
  <2>2. CASE OpenStream
    <3>1. CASE /\ stream' = [NoStream EXCEPT !.phase = "asked"]
               /\ worker' = [worker EXCEPT !.at = "read"]
               /\ UNCHANGED signals
      <4>1. stream' = [phase |-> "asked", queue |-> <<>>, wire |-> <<>>, got |-> 0]
        BY <3>1 DEF NoStream
      <4>2. StreamBounded'
        BY <4>1, NothingRead, StreamReset
      <4>3. QED
        BY <1>1, <3>1, <4>2 DEF WorkerTyped, SignalsBounded
    <3>2. CASE /\ emit("offline")
               /\ worker' = [worker EXCEPT !.at = "connect", !.since = 0]
               /\ UNCHANGED stream
      <4>1. SignalsBounded'
        BY <1>1, <3>2, SignalQueued
      <4>2. WorkerTyped'
        BY <1>1, <3>2, WorkerSince
      <4>3. QED
        BY <1>1, <3>2, <4>1, <4>2 DEF StreamBounded
    <3>3. QED
      BY <2>2, <3>1, <3>2 DEF OpenStream
  <2>3. CASE ReadEvent
    <3>1. worker' = worker
      BY <2>3 DEF ReadEvent
    <3>2. QED
      BY <1>1, <2>3, <3>1, ReadBounded DEF WorkerTyped
  <2>4. CASE ReadEnd
    <3>1. stream' = NoStream /\ emit("offline") /\ worker' = [worker EXCEPT !.at = "connect"]
      BY <2>4 DEF ReadEnd
    <3>2. stream' = [phase |-> "none", queue |-> <<>>, wire |-> <<>>, got |-> 0]
      BY <3>1 DEF NoStream
    <3>3. StreamBounded'
      BY <3>2, NothingRead, StreamReset
    <3>4. SignalsBounded'
      BY <1>1, <3>1, SignalQueued
    <3>5. QED
      BY <1>1, <3>1, <3>3, <3>4 DEF WorkerTyped
  <2>5. QED
    BY <2>1, <2>2, <2>3, <2>4 DEF Follower
<1>4. QED
  BY <1>2, <1>3 DEF WindowTypeOK, StreamBounded, WorkerTyped, SignalsBounded

LEMMA FollowIs ==
    ASSUME NEW w \in Windows, NEW online \in BOOLEAN, WorkerTyped
    PROVE  Follow(w, online) \in Windows
BY DEF Follow, Windows, WorkerTyped

\* Every slot of the window but the edit, which also publishes.
LEMMA SlotsBounded ==
    ASSUME WindowTypeOK,
           \/ Deliver \/ Ready \/ PressStart \/ PollEnds
           \/ \E key \in {"offline", "resolver"} : Dismiss(key)
    PROVE  WindowTypeOK'
<1>1. /\ RunTyped /\ BusBounded /\ StreamBounded /\ WorkerTyped /\ SignalsBounded
      /\ window \in Windows /\ store \in 0..MaxEdits
  BY WindowTypeParts
<1>2. UNCHANGED <<store, run, bus, stream, worker>>
  BY DEF Deliver, Ready, PressStart, PollEnds, Dismiss
<1>3. window' \in Windows /\ SignalsBounded'
  <2>1. CASE Deliver
    <3>1. Follow(window, Head(signals) = "online") \in Windows
      BY <1>1, FollowIs
    <3>2. window' \in Windows
      BY <1>1, <2>1, <3>1, RedrawnAre DEF Deliver
    <3>3. SignalsBounded'
      <4>1. signals # <<>> /\ signals' = Tail(signals)
        BY <2>1 DEF Deliver
      <4>2. QED
        BY <1>1, <4>1, SizesAreNatural DEF SignalsBounded
    <3>4. QED
      BY <3>2, <3>3
  <2>2. CASE Ready
    <3>1. [window EXCEPT !.ready = TRUE] \in Windows
      BY <1>1 DEF Windows
    <3>2. window' \in Windows
      BY <2>2, <3>1, StartTriedAre DEF Ready
    <3>3. QED
      BY <1>1, <2>2, <3>2 DEF Ready, SignalsBounded
  <2>3. CASE PressStart
    <3>1. window' \in Windows
      BY <1>1, <2>3, StartTriedAre DEF PressStart
    <3>2. QED
      BY <1>1, <2>3, <3>1 DEF PressStart, SignalsBounded
  <2>4. CASE PollEnds
    <3>1. PICK bridge \in Found :
              window' \in IF bridge = Local
                          THEN Statuses(GaveUp(window))
                          ELSE Redrawn([window EXCEPT !.bridge = bridge,
                                                      !.starting = FALSE], store)
      BY <2>4 DEF PollEnds
    <3>2. bridge \in Bridges
      BY <1>1, FoundIs
    <3>3. GaveUp(window) \in Windows
          /\ [window EXCEPT !.bridge = bridge, !.starting = FALSE] \in Windows
      BY <1>1, <3>2 DEF GaveUp, Windows
    <3>4. window' \in Windows
      BY <1>1, <3>1, <3>3, StatusesAre, RedrawnAre
    <3>5. QED
      BY <1>1, <2>4, <3>4 DEF PollEnds, SignalsBounded
  <2>5. ASSUME NEW key \in {"offline", "resolver"}, Dismiss(key)
        PROVE  window' \in Windows /\ SignalsBounded'
    BY <1>1, <2>5 DEF Dismiss, Windows, SignalsBounded
  <2>6. QED
    BY <2>1, <2>2, <2>3, <2>4, <2>5
<1>4. QED
  BY <1>2, <1>3 DEF WindowTypeOK, SignalsBounded, Windows

LEMMA EditsBounded ==
    ASSUME StreamInv, WindowTypeOK, PublishLog \/ EditElsewhere \/ EditHere
    PROVE  WindowTypeOK'
<1>1. /\ BusBounded /\ StreamBounded /\ window \in Windows /\ store \in 0..MaxEdits
  BY WindowTypeParts
<1>2. UNCHANGED <<run, worker, signals>>
  BY DEF PublishLog, EditElsewhere, EditHere
<1>3. BusBounded' /\ StreamBounded'
  <2>1. CASE publish("log") \/ publish("domains")
    BY <1>1, <2>1, PublishBounded DEF Kinds
  <2>2. CASE UNCHANGED <<bus, stream>>
    BY <1>1, <2>2 DEF BusBounded, StreamBounded
  <2>3. QED
    BY <2>1, <2>2 DEF PublishLog, EditElsewhere, EditHere
<1>4. store' \in 0..MaxEdits
  <2>1. \/ store' = store
        \/ store < MaxEdits /\ store' = store + 1
    BY DEF PublishLog, EditElsewhere, EditHere
  <2>2. QED
    BY <1>1, <2>1, SizesAreNatural
<1>5. window' \in Windows
  <2>1. CASE EditHere
    <3>1. store + 1 \in 0..MaxEdits
      BY <1>1, <2>1, SizesAreNatural DEF EditHere
    <3>2. QED
      BY <1>1, <2>1, <3>1, RedrawnAre DEF EditHere
  <2>2. CASE window' = window
    BY <1>1, <2>2
  <2>3. QED
    BY <2>1, <2>2 DEF PublishLog, EditElsewhere
<1>6. QED
  BY <1>2, <1>3, <1>4, <1>5 DEF WindowTypeOK, BusBounded, StreamBounded, Windows

LEMMA TypeInit == Init => WindowTypeOK
<1>. SUFFICES ASSUME Init PROVE WindowTypeOK
  OBVIOUS
<1>1. run.id \in Bridges /\ run \in [id : Bridges, phase : {"down", "up", "stopping"}]
  BY SizesAreNatural DEF Init, Bridges, Local
<1>2. BusBounded
  BY SizesAreNatural DEF Init, BusBounded
<1>3. StreamBounded
  BY SizesAreNatural DEF Init, NoStream, StreamBounded
<1>4. WorkerTyped /\ SignalsBounded
  BY SizesAreNatural DEF Init, WorkerTyped, SignalsBounded, Bridges, Local
<1>5. window \in Windows /\ store \in 0..MaxEdits
  BY <1>1, SizesAreNatural DEF Init, Windows
<1>6. QED
  BY <1>1, <1>2, <1>3, <1>4, <1>5, WindowTypeParts DEF RunTyped

LEMMA TypeStep == StreamInv /\ WindowTypeOK /\ [Next]_vars => WindowTypeOK'
<1>. SUFFICES ASSUME StreamInv, WindowTypeOK, [Next]_vars PROVE WindowTypeOK'
  OBVIOUS
<1>1. CASE Attach
  <2>1. UNCHANGED <<store, run, bus, signals, window>>
    BY <1>1 DEF Attach
  <2>2. StreamBounded' /\ WorkerTyped'
    BY <1>1, AttachBounded, WindowTypeParts
  <2>3. QED
    BY <2>1, <2>2 DEF WindowTypeOK, StreamBounded, WorkerTyped
<1>2. CASE Forward
  <2>1. UNCHANGED <<store, run, bus, worker, signals, window>>
    BY <1>2 DEF Forward
  <2>2. StreamBounded'
    BY <1>2, ForwardBounded, WindowTypeParts
  <2>3. QED
    BY <2>1, <2>2 DEF WindowTypeOK, StreamBounded
<1>3. CASE PublishLog \/ EditElsewhere \/ EditHere
  BY <1>3, EditsBounded
<1>4. CASE DaemonStarts \/ DaemonStops \/ DaemonEnds
  BY <1>4, LivesBounded
<1>5. CASE Follower
  BY <1>5, FollowerBounded
<1>6. CASE \/ Deliver \/ Ready \/ PressStart \/ PollEnds
           \/ \E key \in {"offline", "resolver"} : Dismiss(key)
  BY <1>6, SlotsBounded
<1>7. CASE UNCHANGED vars
  BY <1>7 DEF vars, WindowTypeOK
<1>8. QED
  BY <1>1, <1>2, <1>3, <1>4, <1>5, <1>6, <1>7 DEF Next, Daemon, Slot

\* Every queue between the daemon and the window stays within its bound, and the state is
\* typed: the history, the subscriber's queue, the socket and the signals, for all sizes.
THEOREM WindowTypeCorrect == Spec => []WindowTypeOK
<1>1. Spec => []StreamInv
  BY StreamInit, StreamStep, PTL DEF Spec
<1>2. QED
  BY <1>1, TypeInit, TypeStep, PTL DEF Spec
=============================================================================
