------------------------- MODULE EventStreamProofs -------------------------
(***************************************************************************)
(* That a held session somebody watches is never left without its stream,  *)
(* that a forgotten one holds nothing, that a listener is given the frames *)
(* of its own stream only, and that what it is given leaves no notice out, *)
(* for any listenings, sockets, selections, notices and replays.           *)
(***************************************************************************)
EXTENDS EventStream, SequenceTheorems, FiniteSetTheorems, TLAPS

\* What stream n writes.
OfStream(n) == {f \in ToPage : f.n = n /\ (f.k = "attached" => f = Attached(n))}

\* A socket runs one stream at a time: what is not over is the one attached.
OneStream == \A s \in Sockets, n \in Listens : of[n] = s /\ ~over[n] => events[s] = n

\* A listener is one that has listened, of a line that is not down, and a stream
\* that was attached was listened to.
Listening ==
  /\ listener.n <= listens
  /\ listener.open => listener.n # 0
  /\ line = "down" => listener = NoListener
  /\ line # "down" => sock \in Sockets
  /\ \A n \in Listens : of[n] # 0 => n <= listens

\* A stream is asked for by a listening that has been.
AskedFor ==
  \A s \in Sockets : \A i \in DOMAIN toBff[s] :
    toBff[s][i].k = "open" => toBff[s][i].n \in 1..listens

\* A stream that has not been attached to a socket has written nothing.
WritesOnceAttached ==
  /\ \A s \in Sockets : \A i \in DOMAIN toPage[s] :
       of[toPage[s][i].n] # 0 /\ toPage[s][i] \in OfStream(toPage[s][i].n)
  /\ listener.n # 0 /\ listener.open => of[listener.n] # 0

\* The listener's stream is asked for last, on the line's socket and on no other, or
\* it is attached there and nothing is asked for after it.
AskedLast ==
  listener.n # 0 =>
    /\ of[listener.n] # 0 =>
         /\ line = "open" /\ of[listener.n] = sock
         /\ toBff[sock] = <<>> /\ events[sock] \in {0, listener.n}
    /\ \A s \in Sockets : \A i \in DOMAIN toBff[s] :
         toBff[s][i] = Open(listener.n) => line = "open" /\ s = sock /\ i = Len(toBff[s])

Streams == OneStream /\ Listening /\ AskedFor /\ WritesOnceAttached /\ AskedLast /\ OwnFramesOnly

-----------------------------------------------------------------------------
(* Sequences.                                                              *)

\* Every set of numbers has a least one, which is what induction rests on here.
LEMMA LeastNat ==
  ASSUME NEW T, T \subseteq Nat, T # {}
  PROVE  \E n \in T : \A k \in T : n <= k
<1> DEFINE I == {1..n : n \in T}
           R == StrictSubsetOrdering(Nat)
<1>1. I \subseteq FiniteSubsetsOf(Nat)
  <2>1. ASSUME NEW n \in T PROVE 1..n \in FiniteSubsetsOf(Nat)
    <3>1. n \in Nat /\ 1 \in Int OBVIOUS
    <3>2. IsFiniteSet(1..n) BY <3>1, FS_Interval
    <3> QED BY <3>1, <3>2 DEF FiniteSubsetsOf
  <2> QED BY <2>1
<1>2. I # {} OBVIOUS
<1>3. IsWellFoundedOn(R, FiniteSubsetsOf(Nat)) BY FS_StrictSubsetOrderingWellFounded
<1> HIDE DEF R
<1>4. PICK x \in I : \A y \in I : <<y, x>> \notin R BY <1>1, <1>2, <1>3, WFMin
<1>5. PICK n \in T : x = 1..n OBVIOUS
<1>6. ASSUME NEW k \in T, k < n PROVE FALSE
  <2>1. k \in Nat /\ n \in Nat OBVIOUS
  <2>2. 1..k \subseteq 1..n BY <1>6, <2>1
  <2>3. n \in 1..n /\ n \notin 1..k BY <1>6, <2>1
  <2>4. 1..k # 1..n BY <2>3
  <2>5. <<1..k, 1..n>> \in R BY <2>1, <2>2, <2>4 DEF R, StrictSubsetOrdering
  <2> QED BY <1>4, <1>5, <2>5
<1>7. \A k \in T : n <= k
  <2> SUFFICES ASSUME NEW k \in T PROVE n <= k OBVIOUS
  <2>1. k \in Nat /\ n \in Nat OBVIOUS
  <2> QED BY <1>6, <2>1
<1> QED BY <1>7

Flattens(f, seqs, n) ==
  f = [i \in 1..n |-> IF i = 1 THEN seqs[i] ELSE f[i - 1] \o seqs[i]]

LEMMA FlattenDef ==
  ASSUME NEW seqs, Len(seqs) # 0
  PROVE  FlattenSeq(seqs) = (CHOOSE f : Flattens(f, seqs, Len(seqs)))[Len(seqs)]
BY DEF FlattenSeq, Flattens

\* The function that FlattenSeq() goes by is there for every length.
LEMMA FlattensExists ==
  ASSUME NEW W, NEW seqs \in Seq(Seq(W)), NEW n \in 1..Len(seqs)
  PROVE  \E f \in [1..n -> Seq(W)] : Flattens(f, seqs, n)
<1> DEFINE Bad == {k \in 1..Len(seqs) : ~ \E f \in [1..k -> Seq(W)] : Flattens(f, seqs, k)}
<1> SUFFICES ASSUME Bad # {} PROVE FALSE OBVIOUS
<1>1. Len(seqs) \in Nat /\ \A k \in 1..Len(seqs) : k \in Nat /\ seqs[k] \in Seq(W)
  BY LenProperties, ElementOfSeq
<1>2. Bad \subseteq Nat BY <1>1
<1>3. PICK m \in Bad : \A k \in Bad : m <= k BY <1>2, LeastNat
<1>4. CASE m = 1
  <2> DEFINE f == [i \in 1..1 |-> seqs[i]]
  <2>1. f \in [1..1 -> Seq(W)] BY <1>1, <1>3, <1>4
  <2>2. Flattens(f, seqs, 1) BY DEF Flattens
  <2> QED BY <1>3, <1>4, <2>1, <2>2
<1>5. CASE m # 1
  <2>1. m - 1 \in 1..Len(seqs) /\ m \in 1..Len(seqs) /\ ~(m <= m - 1) BY <1>1, <1>3, <1>5
  <2>2. m - 1 \notin Bad BY <1>3, <2>1
  <2>3. PICK f \in [1..(m - 1) -> Seq(W)] : Flattens(f, seqs, m - 1) BY <2>1, <2>2
  <2> DEFINE g == [i \in 1..m |-> IF i = m THEN f[m - 1] \o seqs[m] ELSE f[i]]
  <2>4. f[m - 1] \o seqs[m] \in Seq(W)
    <3>1. f[m - 1] \in Seq(W) /\ seqs[m] \in Seq(W) BY <1>1, <2>1
    <3> QED BY <3>1, ConcatProperties
  <2>5. g \in [1..m -> Seq(W)] BY <2>1, <2>4
  <2>6. \A i \in 1..m : g[i] = IF i = 1 THEN seqs[i] ELSE g[i - 1] \o seqs[i]
    <3> SUFFICES ASSUME NEW i \in 1..m PROVE g[i] = IF i = 1 THEN seqs[i] ELSE g[i - 1] \o seqs[i] OBVIOUS
    <3>1. CASE i = m
      <4>1. m - 1 \in 1..m /\ m - 1 # m BY <2>1
      <4>2. g[m - 1] = f[m - 1] BY <4>1
      <4> QED BY <1>5, <3>1, <4>2
    <3>2. CASE i # m
      <4>1. i \in 1..(m - 1) BY <2>1, <3>2
      <4>2. g[i] = f[i] /\ f[i] = IF i = 1 THEN seqs[i] ELSE f[i - 1] \o seqs[i] BY <2>3, <3>2, <4>1 DEF Flattens
      <4>3. CASE i = 1 BY <4>2, <4>3
      <4>4. CASE i # 1
        <5>1. i - 1 \in 1..m /\ i - 1 # m BY <2>1, <4>1, <4>4
        <5> QED BY <4>2, <4>4, <5>1
      <4> QED BY <4>3, <4>4
    <3> QED BY <3>1, <3>2
  <2>7. Flattens(g, seqs, m)
    <3>1. g = [i \in 1..m |-> g[i]] BY <2>5
    <3> HIDE DEF g
    <3> QED BY <2>6, <3>1 DEF Flattens
  <2> QED BY <1>3, <2>5, <2>7
<1> QED BY <1>4, <1>5

\* What FlattenSeq() gives has nothing that is in none of its sequences.
LEMMA FlattenTyped ==
  ASSUME NEW W, NEW seqs \in Seq(Seq(W))
  PROVE  FlattenSeq(seqs) \in Seq(W)
<1>1. Len(seqs) \in Nat BY LenProperties
<1>2. CASE Len(seqs) = 0
  <2>1. seqs = <<>> BY <1>2, EmptySeq
  <2>2. FlattenSeq(seqs) = <<>> BY <1>2, <2>1 DEF FlattenSeq
  <2> QED BY <2>2
<1>3. CASE Len(seqs) # 0
  <2> DEFINE n == Len(seqs)
             f == CHOOSE f : Flattens(f, seqs, n)
  <2>1. n \in 1..Len(seqs) BY <1>1, <1>3
  <2>2. PICK g \in [1..n -> Seq(W)] : Flattens(g, seqs, n) BY <2>1, FlattensExists
  <2>3. Flattens(f, seqs, n) BY <2>2
  <2> HIDE DEF f
  <2> DEFINE Bad == {k \in 1..n : f[k] \notin Seq(W)}
  <2>4. Bad = {}
    <3> SUFFICES ASSUME Bad # {} PROVE FALSE OBVIOUS
    <3>0. Bad \subseteq Nat BY <1>1
    <3>1. PICK m \in Bad : \A k \in Bad : m <= k BY <3>0, LeastNat
    <3>2. m \in 1..n /\ seqs[m] \in Seq(W) BY ElementOfSeq
    <3>3. f[m] = IF m = 1 THEN seqs[m] ELSE f[m - 1] \o seqs[m] BY <2>3, <3>2 DEF Flattens
    <3>4. m # 1 BY <3>2, <3>3
    <3>5. m - 1 \in 1..n /\ ~(m <= m - 1) BY <1>1, <3>2, <3>4
    <3>6. f[m - 1] \in Seq(W) BY <3>1, <3>5
    <3>7. f[m] \in Seq(W) BY <3>2, <3>3, <3>4, <3>6, ConcatProperties
    <3> QED BY <3>1, <3>7
  <2>5. f[n] \in Seq(W) BY <2>1, <2>4
  <2>6. FlattenSeq(seqs) = (CHOOSE h : Flattens(h, seqs, Len(seqs)))[Len(seqs)] BY <1>3, FlattenDef
  <2> QED BY <2>5, <2>6 DEF f
<1> QED BY <1>2, <1>3

\* What a stream's answers append to what a socket has to send.
LEMMA SayWrites ==
  ASSUME TypeOK, NEW written, Say(written), NEW s \in Sockets, NEW W,
         \A n \in Listens : of[n] = s /\ ~over[n] => written[n] \in Seq(W)
  PROVE  \E w \in Seq(W) : toPage'[s] = toPage[s] \o w
<1> DEFINE parts == [n \in Listens |-> IF of[n] = s /\ ~over[n] THEN written[n] ELSE <<>>]
<1>1. parts \in Seq(Seq(W))
  <2>1. <<>> \in Seq(W) OBVIOUS
  <2>2. \A n \in 1..MaxListens : parts[n] \in Seq(W) BY <2>1 DEF Listens
  <2>3. parts = [n \in 1..MaxListens |-> parts[n]] BY DEF Listens
  <2> HIDE DEF parts
  <2>4. MaxListens \in Nat BY BoundsAssumption
  <2> QED BY <2>2, <2>3, <2>4, IsASeq
<1>2. FlattenSeq(parts) \in Seq(W) BY <1>1, FlattenTyped
<1>3. toPage'[s] = IF serving[s] /\ ~cut[s] THEN toPage[s] \o FlattenSeq(parts) ELSE toPage[s]
  BY DEF Say
<1> HIDE DEF parts
<1>4. toPage[s] \in Seq(ToPage) BY DEF TypeOK
<1>5. toPage[s] = toPage[s] \o <<>> /\ <<>> \in Seq(W) BY <1>4, ConcatEmptySeq
<1> QED BY <1>2, <1>3, <1>5

LEMMA SayTyped ==
  ASSUME TypeOK, NEW written, Say(written), \A n \in Listens : written[n] \in Seq(ToPage)
  PROVE  toPage' \in [Sockets -> Seq(ToPage)]
<1>1. ASSUME NEW s \in Sockets PROVE toPage'[s] \in Seq(ToPage)
  <2>1. PICK w \in Seq(ToPage) : toPage'[s] = toPage[s] \o w BY SayWrites
  <2>2. toPage[s] \in Seq(ToPage) BY DEF TypeOK
  <2> QED BY <2>1, <2>2, ConcatProperties
<1> QED BY <1>1 DEF Say

\* A frame is sent last.
LEMMA SendLast ==
  ASSUME TypeOK, NEW s \in Sockets, NEW frame \in ToBff, SendBff(s, frame)
  PROVE  /\ toBff' \in [Sockets -> Seq(ToBff)]
         /\ \A t \in Sockets : t # s => toBff'[t] = toBff[t]
         /\ \A i \in DOMAIN toBff'[s] :
              \/ i \in DOMAIN toBff[s] /\ toBff'[s][i] = toBff[s][i]
              \/ i = Len(toBff'[s]) /\ toBff'[s][i] = frame
<1>1. toBff \in [Sockets -> Seq(ToBff)] /\ toBff[s] \in Seq(ToBff) BY DEF TypeOK
<1>2. CASE toBff' = toBff BY <1>1, <1>2
<1>3. CASE toBff' = [toBff EXCEPT ![s] = Append(toBff[s], frame)]
  <2> DEFINE q == Append(toBff[s], frame)
  <2>1. /\ q \in Seq(ToBff) /\ Len(q) = Len(toBff[s]) + 1 /\ q[Len(q)] = frame
        /\ \A i \in 1..Len(toBff[s]) : q[i] = toBff[s][i]
    BY <1>1, AppendProperties
  <2>2. DOMAIN q = 1..Len(q) /\ DOMAIN toBff[s] = 1..Len(toBff[s]) /\ Len(toBff[s]) \in Nat
    BY <1>1, <2>1, LenProperties
  <2>3. toBff' = [toBff EXCEPT ![s] = q] BY <1>3
  <2> HIDE DEF q
  <2>4. toBff'[s] = q BY <1>1, <2>3
  <2>5. \A i \in DOMAIN q : i \in DOMAIN toBff[s] \/ i = Len(q) BY <2>1, <2>2
  <2> QED BY <1>1, <2>1, <2>2, <2>3, <2>4, <2>5
<1> QED BY <1>2, <1>3 DEF SendBff

\* The first is taken, and the others are one place further on.
LEMMA TailShifts ==
  ASSUME NEW W, NEW q \in Seq(W), q # <<>>
  PROVE  /\ Head(q) \in W /\ 1 \in DOMAIN q /\ Head(q) = q[1] /\ Tail(q) \in Seq(W)
         /\ Len(Tail(q)) = Len(q) - 1 /\ Len(q) \in Nat
         /\ DOMAIN q = 1..Len(q) /\ DOMAIN Tail(q) = 1..Len(Tail(q))
         /\ \A i \in DOMAIN Tail(q) : i + 1 \in DOMAIN q /\ Tail(q)[i] = q[i + 1]
<1>1. /\ Head(q) \in W /\ Tail(q) \in Seq(W) /\ Len(Tail(q)) = Len(q) - 1
      /\ \A i \in 1..Len(Tail(q)) : Tail(q)[i] = q[i + 1]
  BY HeadTailProperties
<1>2. Len(q) \in Nat /\ DOMAIN q = 1..Len(q) /\ DOMAIN Tail(q) = 1..Len(Tail(q)) BY <1>1, LenProperties
<1>3. Len(q) # 0 BY EmptySeq
<1>4. 1 \in DOMAIN q /\ Head(q) = q[1] BY <1>2, <1>3
<1>5. \A i \in DOMAIN Tail(q) : i + 1 \in DOMAIN q BY <1>1, <1>2
<1> QED BY <1>1, <1>2, <1>4, <1>5

-----------------------------------------------------------------------------
(* What the steps have in common.                                          *)

LEMMA StreamsInit == Init => TypeOK /\ Streams
<1> SUFFICES ASSUME Init PROVE TypeOK /\ Streams OBVIOUS
<1>1. /\ 0 \in 0..MaxListens /\ 0 \in 0..MaxSockets /\ 0 \in 0..MaxHolds
      /\ 0 \in 0..MaxNotices /\ -1 \in -1..MaxNotices
  BY BoundsAssumption
<1>2. Shut \in [st : {"shut", "opening", "live"}, snap : BOOLEAN, at : 0..MaxNotices] BY <1>1 DEF Shut
<1>3. NoListener \in [n : 0..MaxListens, open : BOOLEAN] /\ NoListener.n = 0 /\ ~NoListener.open
  BY <1>1 DEF NoListener
<1>4. /\ toBff \in [Sockets -> Seq(ToBff)] /\ toPage \in [Sockets -> Seq(ToPage)]
      /\ \A s \in Sockets : DOMAIN toBff[s] = {} /\ DOMAIN toPage[s] = {}
  BY DEF Init
<1>5. TypeOK BY <1>1, <1>2, <1>3, <1>4 DEF Init, TypeOK
<1>6. OneStream
  <2>1. \A s \in Sockets : s # 0 BY DEF Sockets
  <2> QED BY <2>1 DEF Init, OneStream
<1>7. Listening BY <1>3 DEF Init, Listening
<1>8. AskedFor /\ WritesOnceAttached /\ AskedLast BY <1>3, <1>4 DEF Init, AskedFor, WritesOnceAttached, AskedLast
<1>9. OwnFramesOnly BY <1>3 DEF Init, OwnFramesOnly
<1> QED BY <1>5, <1>6, <1>7, <1>8, <1>9 DEF Streams

\* The line is left with nobody who listens.
LEMMA NobodyListens ==
  ASSUME TypeOK, Streams, NEW s \in Sockets, NEW frame \in ToBff,
         listener' = NoListener, listens' \in Nat, listens <= listens',
         line' # "down" => sock' \in Sockets,
         toBff' = toBff \/ SendBff(s, frame), frame.k = "open" => frame.n \in 1..listens',
         UNCHANGED <<toPage, events, of, over>>
  PROVE  Streams'
<1>1. NoListener.n = 0 /\ ~NoListener.open BY DEF NoListener
<1>2. listens \in Nat BY DEF TypeOK
<1>3. OneStream' BY DEF Streams, OneStream
<1>4. Listening'
  <2>1. \A n \in Listens : of[n] # 0 => n <= listens'
    <3> SUFFICES ASSUME NEW n \in Listens, of[n] # 0 PROVE n <= listens' OBVIOUS
    <3>1. n <= listens /\ n \in Nat BY DEF Streams, Listening, Listens
    <3> QED BY <1>2, <3>1
  <2> QED BY <1>1, <2>1 DEF Listening
<1>5. AskedFor'
  <2>1. ASSUME NEW t \in Sockets, NEW i \in DOMAIN toBff'[t], toBff'[t][i].k = "open"
        PROVE  toBff'[t][i].n \in 1..listens'
    <3>1. CASE i \in DOMAIN toBff[t] /\ toBff'[t][i] = toBff[t][i]
      <4>1. toBff'[t][i].n \in 1..listens BY <2>1, <3>1 DEF Streams, AskedFor
      <4> QED BY <1>2, <4>1
    <3>2. CASE toBff'[t][i] = frame BY <2>1, <3>2
    <3> QED BY <3>1, <3>2, SendLast
  <2> QED BY <2>1 DEF AskedFor
<1>6. WritesOnceAttached' BY <1>1 DEF Streams, WritesOnceAttached
<1>7. AskedLast' /\ OwnFramesOnly' BY <1>1 DEF AskedLast, OwnFramesOnly
<1> QED BY <1>3, <1>4, <1>5, <1>6, <1>7 DEF Streams

\* Listening n, whose stream was never asked for, is now the listener; its stream is
\* asked for at once where the line is open.
LEMMA NowListens ==
  ASSUME TypeOK, Streams, NEW n \in Listens, of[n] = 0,
         \A t \in Sockets : \A i \in DOMAIN toBff[t] : toBff[t][i] # Open(n),
         listener' = [n |-> n, open |-> FALSE], listens' \in Nat, listens <= listens', n <= listens',
         line' \in {"connecting", "open"}, sock' \in Sockets,
         toBff' = toBff \/ (line' = "open" /\ SendBff(sock', Open(n))),
         UNCHANGED <<toPage, events, of, over>>
  PROVE  Streams'
<1>1. listener'.n = n /\ ~listener'.open /\ n # 0 /\ n \in Nat BY DEF Listens
<1>2. listens \in Nat BY DEF TypeOK
<1>3. OneStream' BY DEF Streams, OneStream
<1>4. Listening'
  <2>1. \A m \in Listens : of[m] # 0 => m <= listens'
    <3> SUFFICES ASSUME NEW m \in Listens, of[m] # 0 PROVE m <= listens' OBVIOUS
    <3>1. m <= listens /\ m \in Nat BY DEF Streams, Listening, Listens
    <3> QED BY <1>2, <3>1
  <2> QED BY <1>1, <2>1 DEF Listening
<1>5. Open(n) \in ToBff /\ Open(n).n = n /\ Open(n).k = "open" BY DEF Open, ToBff, Listens
<1>6. ASSUME NEW t \in Sockets, NEW i \in DOMAIN toBff'[t]
      PROVE  \/ i \in DOMAIN toBff[t] /\ toBff'[t][i] = toBff[t][i]
             \/ line' = "open" /\ t = sock' /\ i = Len(toBff'[t]) /\ toBff'[t][i] = Open(n)
  <2>1. CASE toBff' = toBff BY <2>1
  <2>2. CASE line' = "open" /\ SendBff(sock', Open(n)) BY <1>5, <2>2, SendLast
  <2> QED BY <2>1, <2>2
<1>7. AskedFor'
  <2>1. ASSUME NEW t \in Sockets, NEW i \in DOMAIN toBff'[t], toBff'[t][i].k = "open"
        PROVE  toBff'[t][i].n \in 1..listens'
    <3>1. CASE i \in DOMAIN toBff[t] /\ toBff'[t][i] = toBff[t][i]
      <4>1. toBff'[t][i].n \in 1..listens BY <2>1, <3>1 DEF Streams, AskedFor
      <4> QED BY <1>2, <4>1
    <3>2. CASE toBff'[t][i] = Open(n)
      <4>1. n >= 1 BY DEF Listens
      <4> QED BY <1>1, <1>5, <3>2, <4>1
    <3> QED BY <1>6, <3>1, <3>2
  <2> QED BY <2>1 DEF AskedFor
<1>8. WritesOnceAttached' BY <1>1 DEF Streams, WritesOnceAttached
<1>9. AskedLast' BY <1>1, <1>6 DEF AskedLast
<1>10. OwnFramesOnly'
  <2>1. \A j \in DOMAIN toPage[sock'] : toPage[sock'][j] # Attached(n)
    <3>1. Attached(n).n = n BY DEF Attached
    <3> QED BY <3>1 DEF Streams, WritesOnceAttached
  <2>2. toPage[sock'] \in Seq(ToPage) BY DEF TypeOK
  <2>3. \A i \in DOMAIN toPage[sock'] : \A j \in 1..(i - 1) : j \in DOMAIN toPage[sock'] BY <2>2, LenProperties
  <2> QED BY <1>1, <2>1, <2>3 DEF OwnFramesOnly
<1> QED BY <1>3, <1>4, <1>7, <1>8, <1>9, <1>10 DEF Streams

\* The stream attached to a socket is let go, and the next asked for is attached, or
\* none is.  What was asked for is taken, or the socket is gone.
LEMMA LetsGo ==
  ASSUME TypeOK, Streams, NEW s \in Sockets,
         over' = [n \in Listens |-> over[n] \/ (events[s] = n /\ ~over[n])],
         toBff' = toBff \/ (toBff[s] # <<>> /\ toBff' = [toBff EXCEPT ![s] = Tail(toBff[s])]),
         \/ events' = [events EXCEPT ![s] = 0] /\ UNCHANGED of
         \/ \E m \in Listens : /\ events' = [events EXCEPT ![s] = m] /\ of' = [of EXCEPT ![m] = s]
                               /\ toBff[s] # <<>> /\ Head(toBff[s]) = Open(m)
                               /\ toBff' = [toBff EXCEPT ![s] = Tail(toBff[s])],
         UNCHANGED <<pageVars, toPage>>
  PROVE  Streams'
<1>1. /\ events \in [Sockets -> 0..MaxListens] /\ over \in [Listens -> BOOLEAN]
      /\ of \in [Listens -> 0..MaxSockets] /\ toBff \in [Sockets -> Seq(ToBff)]
      /\ s # 0 /\ s \in 0..MaxSockets
  BY DEF TypeOK, Sockets
<1>2. /\ \A t \in Sockets : t # s => events'[t] = events[t] /\ toBff'[t] = toBff[t]
      /\ events'[s] = 0 \/ of'[events'[s]] = s
      /\ \A n \in Listens : of'[n] = of[n] \/ (n = events'[s] /\ of'[n] = s)
      /\ \A n \in Listens : of[n] # 0 => of'[n] # 0
  <2>1. CASE events' = [events EXCEPT ![s] = 0] /\ UNCHANGED of BY <1>1, <2>1
  <2>2. ASSUME NEW m \in Listens, events' = [events EXCEPT ![s] = m], of' = [of EXCEPT ![m] = s]
        PROVE  /\ \A t \in Sockets : t # s => events'[t] = events[t] /\ toBff'[t] = toBff[t]
               /\ events'[s] = 0 \/ of'[events'[s]] = s
               /\ \A n \in Listens : of'[n] = of[n] \/ (n = events'[s] /\ of'[n] = s)
               /\ \A n \in Listens : of[n] # 0 => of'[n] # 0
    BY <1>1, <2>2
  <2> QED BY <2>1, <2>2
<1>3. OneStream'
  <2> SUFFICES ASSUME NEW t \in Sockets, NEW n \in Listens, of'[n] = t, ~over'[n] PROVE events'[t] = n
    BY DEF OneStream
  <2>1. ~over[n] /\ events[s] # n BY <1>1
  <2>2. CASE of'[n] = of[n]
    <3>1. events[t] = n BY <2>1, <2>2 DEF Streams, OneStream
    <3> QED BY <1>2, <2>1, <3>1
  <2>3. CASE n = events'[s] /\ of'[n] = s BY <2>3
  <2> QED BY <1>2, <2>2, <2>3
<1>4. ASSUME NEW t \in Sockets, NEW i \in DOMAIN toBff'[t]
      PROVE  \/ t # s \/ toBff' = toBff
             \/ /\ i + 1 \in DOMAIN toBff[t] /\ toBff'[t][i] = toBff[t][i + 1]
                /\ Len(toBff'[t]) = Len(toBff[t]) - 1 /\ Len(toBff[t]) \in Nat /\ i \in Nat
  <2> SUFFICES ASSUME t = s, toBff' # toBff
               PROVE  /\ i + 1 \in DOMAIN toBff[t] /\ toBff'[t][i] = toBff[t][i + 1]
                      /\ Len(toBff'[t]) = Len(toBff[t]) - 1 /\ Len(toBff[t]) \in Nat /\ i \in Nat
    OBVIOUS
  <2>1. toBff[s] # <<>> /\ toBff'[s] = Tail(toBff[s]) BY <1>1
  <2>2. toBff[s] \in Seq(ToBff) BY <1>1
  <2>3. /\ i \in DOMAIN Tail(toBff[s]) /\ DOMAIN Tail(toBff[s]) = 1..Len(Tail(toBff[s]))
        /\ i + 1 \in DOMAIN toBff[s] /\ Tail(toBff[s])[i] = toBff[s][i + 1]
        /\ Len(Tail(toBff[s])) = Len(toBff[s]) - 1 /\ Len(toBff[s]) \in Nat
    BY <2>1, <2>2, TailShifts
  <2>4. i \in Nat BY <2>3
  <2> QED BY <2>1, <2>3, <2>4
<1>5. AskedFor'
  <2> SUFFICES ASSUME NEW t \in Sockets, NEW i \in DOMAIN toBff'[t], toBff'[t][i].k = "open"
               PROVE  toBff'[t][i].n \in 1..listens
    BY DEF AskedFor, pageVars
  <2>1. \E j \in DOMAIN toBff[t] : toBff'[t][i] = toBff[t][j] BY <1>2, <1>4
  <2> QED BY <2>1 DEF Streams, AskedFor
<1>6. ASSUME NEW m \in Listens, toBff[s] # <<>>, Head(toBff[s]) = Open(m)
      PROVE  m <= listens /\ 1 \in DOMAIN toBff[s] /\ toBff[s][1] = Open(m) /\ Len(toBff[s]) \in Nat
  <2>1. /\ 1 \in DOMAIN toBff[s] /\ toBff[s][1] = Open(m) /\ toBff[s][1].k = "open" /\ toBff[s][1].n = m
        /\ Len(toBff[s]) \in Nat
    BY <1>1, <1>6, TailShifts DEF Open
  <2>2. m \in 1..listens BY <2>1 DEF Streams, AskedFor
  <2>3. listens \in Nat BY DEF TypeOK
  <2> QED BY <2>1, <2>2, <2>3
<1>7. Listening'
  <2>1. \A n \in Listens : of'[n] # 0 => n <= listens
    <3> SUFFICES ASSUME NEW n \in Listens, of'[n] # 0 PROVE n <= listens OBVIOUS
    <3>1. CASE UNCHANGED of BY <3>1 DEF Streams, Listening
    <3>2. ASSUME NEW m \in Listens, of' = [of EXCEPT ![m] = s], toBff[s] # <<>>, Head(toBff[s]) = Open(m)
          PROVE  n <= listens
      <4>1. CASE n = m BY <1>6, <3>2, <4>1
      <4>2. CASE n # m BY <1>1, <3>2, <4>2 DEF Streams, Listening
      <4> QED BY <4>1, <4>2
    <3> QED BY <3>1, <3>2
  <2> QED BY <2>1 DEF Streams, Listening, pageVars
<1>8. WritesOnceAttached'
  <2>1. \A t \in Sockets : \A i \in DOMAIN toPage[t] : toPage[t][i].n \in Listens
    <3> SUFFICES ASSUME NEW t \in Sockets, NEW i \in DOMAIN toPage[t] PROVE toPage[t][i].n \in Listens OBVIOUS
    <3>1. toPage[t][i] \in OfStream(toPage[t][i].n) BY DEF Streams, WritesOnceAttached
    <3> QED BY <3>1 DEF OfStream, ToPage
  <2>2. listener.n # 0 => listener.n \in Listens BY DEF TypeOK, Listens
  <2> QED BY <1>2, <2>1, <2>2 DEF Streams, WritesOnceAttached, pageVars
<1>9. AskedLast'
  <2> SUFFICES ASSUME listener.n # 0
               PROVE  /\ of'[listener.n] # 0 =>
                           /\ line = "open" /\ of'[listener.n] = sock
                           /\ toBff'[sock] = <<>> /\ events'[sock] \in {0, listener.n}
                      /\ \A t \in Sockets : \A i \in DOMAIN toBff'[t] :
                           toBff'[t][i] = Open(listener.n) => line = "open" /\ t = sock /\ i = Len(toBff'[t])
    BY DEF AskedLast, pageVars
  <2>1. listener.n \in Listens /\ Open(listener.n).k = "open" BY DEF TypeOK, Listens, Open
  <2>2. line # "down"
    <3>1. NoListener.n = 0 BY DEF NoListener
    <3> QED BY <3>1 DEF Streams, Listening
  <2>3. sock \in Sockets BY <2>2 DEF Streams, Listening
  <2>4. ASSUME of'[listener.n] # 0
        PROVE  line = "open" /\ of'[listener.n] = sock /\ toBff'[sock] = <<>> /\ events'[sock] \in {0, listener.n}
    <3>1. CASE of[listener.n] # 0
      <4>1. /\ line = "open" /\ of[listener.n] = sock /\ toBff[sock] = <<>>
            /\ events[sock] \in {0, listener.n}
        BY <2>1, <3>1 DEF Streams, AskedLast
      <4>2. CASE s = sock
        <5>1. events' = [events EXCEPT ![s] = 0] /\ UNCHANGED of /\ toBff' = toBff BY <4>1, <4>2
        <5> QED BY <1>1, <2>3, <4>1, <5>1
      <4>3. CASE s # sock
        <5>1. events'[sock] = events[sock] /\ toBff'[sock] = toBff[sock] BY <1>2, <2>3, <4>3
        <5>2. of'[listener.n] = of[listener.n]
          <6>1. CASE UNCHANGED of BY <6>1
          <6>2. ASSUME NEW m \in Listens, of' = [of EXCEPT ![m] = s], toBff[s] # <<>>, Head(toBff[s]) = Open(m)
                PROVE  of'[listener.n] = of[listener.n]
            <7>1. m # listener.n BY <1>6, <4>3, <6>2, <2>1 DEF Streams, AskedLast
            <7> QED BY <1>1, <6>2, <7>1
          <6> QED BY <6>1, <6>2
        <5> QED BY <4>1, <5>1, <5>2
      <4> QED BY <4>2, <4>3
    <3>2. CASE of[listener.n] = 0
      <4>1. PICK m \in Listens : /\ events' = [events EXCEPT ![s] = m] /\ of' = [of EXCEPT ![m] = s]
                                 /\ toBff[s] # <<>> /\ Head(toBff[s]) = Open(m)
                                 /\ toBff' = [toBff EXCEPT ![s] = Tail(toBff[s])]
        BY <2>4, <3>2
      <4>2. m = listener.n BY <1>1, <2>1, <2>4, <3>2, <4>1
      <4>3. /\ line = "open" /\ s = sock /\ 1 = Len(toBff[s])
        BY <1>6, <2>1, <4>1, <4>2 DEF Streams, AskedLast
      <4>4. toBff'[s] = <<>>
        <5>1. toBff[s] \in Seq(ToBff) BY <1>1
        <5>2. Tail(toBff[s]) \in Seq(ToBff) /\ Len(Tail(toBff[s])) = 0 BY <4>1, <4>3, <5>1, TailShifts
        <5>3. Tail(toBff[s]) = <<>> BY <5>2, EmptySeq
        <5> QED BY <1>1, <4>1, <5>3
      <4> QED BY <1>1, <2>1, <4>1, <4>2, <4>3, <4>4
    <3> QED BY <3>1, <3>2
  <2>5. ASSUME NEW t \in Sockets, NEW i \in DOMAIN toBff'[t], toBff'[t][i] = Open(listener.n)
        PROVE  line = "open" /\ t = sock /\ i = Len(toBff'[t])
    <3>1. CASE t # s \/ toBff' = toBff
      <4>1. toBff'[t] = toBff[t] BY <1>2, <3>1
      <4> QED BY <2>1, <2>5, <4>1 DEF Streams, AskedLast
    <3>2. CASE ~(t # s \/ toBff' = toBff)
      <4>1. /\ i + 1 \in DOMAIN toBff[t] /\ toBff'[t][i] = toBff[t][i + 1] /\ i \in Nat
            /\ Len(toBff'[t]) = Len(toBff[t]) - 1 /\ Len(toBff[t]) \in Nat
        BY <1>4, <3>2
      <4>2. line = "open" /\ t = sock /\ i + 1 = Len(toBff[t]) BY <2>5, <4>1 DEF Streams, AskedLast
      <4> QED BY <4>1, <4>2
    <3> QED BY <3>1, <3>2
  <2> QED BY <2>4, <2>5
<1>10. OwnFramesOnly' BY DEF Streams, OwnFramesOnly, pageVars
<1> QED BY <1>3, <1>5, <1>7, <1>8, <1>9, <1>10 DEF Streams

\* A frame is taken from a socket by the page, which attaches its listener by it, or
\* lets it go, or leaves it.
LEMMA PageTakesKeeps ==
  ASSUME TypeOK, Streams, NEW s \in Sockets, PageTakes(s)
  PROVE  Streams'
<1> DEFINE f == Head(toPage[s])
<1>1. /\ toPage[s] # <<>> /\ toPage' = [toPage EXCEPT ![s] = Tail(toPage[s])]
      /\ UNCHANGED <<listens, line, sock, toBff, cut, bffVars, heldVars, gameVars>>
  BY DEF PageTakes
<1>2. toPage \in [Sockets -> Seq(ToPage)] /\ toPage[s] \in Seq(ToPage) BY DEF TypeOK
<1>3. /\ 1 \in DOMAIN toPage[s] /\ f = toPage[s][1]
      /\ DOMAIN toPage[s] = 1..Len(toPage[s]) /\ Len(toPage[s]) \in Nat
      /\ DOMAIN Tail(toPage[s]) = 1..(Len(toPage[s]) - 1)
      /\ \A i \in DOMAIN Tail(toPage[s]) : i + 1 \in DOMAIN toPage[s] /\ Tail(toPage[s])[i] = toPage[s][i + 1]
  BY <1>1, <1>2, TailShifts
<1>4. f \in OfStream(f.n) /\ f.n \in Listens /\ of[f.n] # 0
  <2>1. f \in OfStream(f.n) /\ of[f.n] # 0 BY <1>3 DEF Streams, WritesOnceAttached
  <2> QED BY <2>1 DEF OfStream, ToPage
<1>5. \/ listener' = listener
      \/ listener' = NoListener
      \/ /\ f.k = "attached" /\ s = sock /\ line = "open" /\ f.n = listener.n
         /\ listener' = [listener EXCEPT !.open = TRUE]
  BY DEF PageTakes
<1> HIDE DEF f
<1>6. listener'.n \in {0, listener.n} /\ NoListener.n = 0 /\ ~NoListener.open
  <2>1. listener \in [n : 0..MaxListens, open : BOOLEAN] BY DEF TypeOK
  <2> QED BY <1>5, <2>1 DEF NoListener
<1>7. ASSUME listener' # NoListener PROVE listener'.n = listener.n
  BY <1>5, <1>7 DEF TypeOK
<1>8. OneStream' BY <1>1 DEF Streams, OneStream, bffVars
<1>9. listens \in Nat /\ 0 <= listens BY DEF TypeOK
<1>10. Listening'
  <2>1. listener'.n <= listens BY <1>6, <1>9 DEF Streams, Listening
  <2>2. listener'.open => listener'.n # 0
    <3>1. CASE listener' = listener BY <3>1 DEF Streams, Listening
    <3>2. CASE listener' = NoListener BY <1>6, <3>2
    <3>3. CASE f.n = listener.n /\ listener' = [listener EXCEPT !.open = TRUE]
      <4>1. f.n # 0 /\ listener'.n = listener.n BY <1>4, <3>3 DEF Listens, TypeOK
      <4> QED BY <3>3, <4>1
    <3> QED BY <1>5, <3>1, <3>2, <3>3
  <2>3. line = "down" => listener' = NoListener BY <1>5 DEF Streams, Listening
  <2> QED BY <1>1, <2>1, <2>2, <2>3 DEF Streams, Listening, bffVars
<1>11. AskedFor' BY <1>1 DEF Streams, AskedFor
<1>12. ASSUME NEW t \in Sockets, NEW i \in DOMAIN toPage'[t]
       PROVE  \E j \in DOMAIN toPage[t] : toPage'[t][i] = toPage[t][j] /\ (t = s => i \in Nat /\ j = i + 1)
  <2>1. CASE t = s
    <3>1. toPage'[t] = Tail(toPage[s]) BY <1>1, <1>2, <2>1
    <3>2. i \in Nat BY <1>3, <3>1
    <3> QED BY <1>3, <2>1, <3>1, <3>2
  <2>2. CASE t # s BY <1>1, <1>2, <2>2
  <2> QED BY <2>1, <2>2
<1>13. WritesOnceAttached'
  <2>1. \A t \in Sockets : \A i \in DOMAIN toPage'[t] :
          of[toPage'[t][i].n] # 0 /\ toPage'[t][i] \in OfStream(toPage'[t][i].n)
    BY <1>12 DEF Streams, WritesOnceAttached
  <2>2. listener'.n # 0 /\ listener'.open => of[listener'.n] # 0
    <3>1. CASE listener' = listener BY <3>1 DEF Streams, WritesOnceAttached
    <3>2. CASE listener' = NoListener BY <1>6, <3>2
    <3>3. CASE f.n = listener.n /\ listener' = [listener EXCEPT !.open = TRUE]
      <4>1. listener'.n = f.n BY <3>3 DEF TypeOK
      <4> QED BY <1>4, <4>1
    <3> QED BY <1>5, <3>1, <3>2, <3>3
  <2> QED BY <1>1, <2>1, <2>2 DEF WritesOnceAttached, bffVars
<1>14. AskedLast'
  <2>1. CASE listener'.n = 0 BY <2>1 DEF AskedLast
  <2>2. CASE listener'.n = listener.n BY <1>1, <2>2 DEF Streams, AskedLast, bffVars
  <2> QED BY <1>6, <2>1, <2>2
<1>15. OwnFramesOnly'
  <2> SUFFICES ASSUME listener'.n # 0, line = "open", NEW i \in DOMAIN toPage'[sock],
                      toPage'[sock][i].k = "event",
                      listener'.open \/ \E j \in 1..(i - 1) : toPage'[sock][j] = Attached(listener'.n)
               PROVE  toPage'[sock][i].n = listener'.n
    BY <1>1 DEF OwnFramesOnly
  <2>1. sock \in Sockets BY DEF Streams, Listening
  <2>2. listener'.n = listener.n /\ listener.n # 0 BY <1>6
  <2>3. PICK k \in DOMAIN toPage[sock] : /\ toPage'[sock][i] = toPage[sock][k]
                                         /\ sock = s => i \in Nat /\ k = i + 1
    BY <1>12, <2>1
  <2>4. CASE listener.open BY <2>2, <2>3, <2>4 DEF Streams, OwnFramesOnly
  <2>5. ASSUME NEW j \in 1..(i - 1), toPage'[sock][j] = Attached(listener.n) PROVE toPage'[sock][i].n = listener.n
    <3>1. CASE sock = s
      <4>1. toPage'[sock] = Tail(toPage[s]) BY <1>1, <1>2, <2>1, <3>1
      <4>2. i \in 1..(Len(toPage[s]) - 1) /\ k = i + 1 BY <1>3, <2>3, <3>1, <4>1
      <4>3. j \in 1..(Len(toPage[s]) - 1) /\ j + 1 \in 1..(k - 1) BY <1>3, <2>5, <4>2
      <4>4. toPage[s][j + 1] = Attached(listener.n) BY <1>3, <2>5, <4>1, <4>3
      <4> QED BY <2>2, <2>3, <3>1, <4>3, <4>4 DEF Streams, OwnFramesOnly
    <3>2. CASE sock # s
      <4>1. toPage'[sock] = toPage[sock] BY <1>1, <1>2, <2>1, <3>2
      <4> QED BY <2>2, <2>5, <4>1 DEF Streams, OwnFramesOnly
    <3> QED BY <3>1, <3>2
  <2>6. CASE ~listener.open /\ listener'.open
    <3>1. f.k = "attached" /\ s = sock /\ f.n = listener.n BY <1>5, <1>6, <2>6
    <3>2. f = Attached(listener.n) BY <1>4, <3>1 DEF OfStream
    <3>3. k = i + 1 /\ i \in Nat /\ i # 0 BY <1>1, <1>2, <1>3, <2>3, <3>1
    <3>4. 1 \in 1..(k - 1) BY <3>3
    <3> QED BY <1>3, <2>2, <2>3, <3>1, <3>2, <3>4 DEF Streams, OwnFramesOnly
  <2> QED BY <2>2, <2>4, <2>5, <2>6
<1> QED BY <1>8, <1>10, <1>11, <1>13, <1>14, <1>15 DEF Streams

\* Streams write, each its own frames, to the sockets they are attached to.
LEMMA SaysKeeps ==
  ASSUME TypeOK, Streams, NEW written, Say(written) \/ UNCHANGED toPage,
         \A n \in Listens : written[n] \in Seq(OfStream(n)),
         \A n \in Listens : over[n] => over'[n],
         UNCHANGED <<pageVars, toBff, events, of>>
  PROVE  Streams'
<1> DEFINE Own(s) == {f \in ToPage : /\ of[f.n] = s /\ ~over[f.n] /\ f.n \in Listens
                                    /\ f \in OfStream(f.n)}
<1>1. ASSUME NEW s \in Sockets
      PROVE  \E w \in Seq(Own(s)) : toPage'[s] = toPage[s] \o w
  <2>1. CASE UNCHANGED toPage
    <3>1. toPage[s] \in Seq(ToPage) /\ <<>> \in Seq(Own(s)) BY DEF TypeOK
    <3>2. toPage'[s] = toPage[s] \o <<>> BY <2>1, <3>1, ConcatEmptySeq
    <3> QED BY <3>1, <3>2
  <2>2. CASE Say(written)
    <3>1. ASSUME NEW n \in Listens, of[n] = s, ~over[n] PROVE written[n] \in Seq(Own(s))
      <4>1. OfStream(n) \subseteq Own(s) BY <3>1 DEF OfStream
      <4>2. written[n] \in Seq(OfStream(n)) OBVIOUS
      <4> HIDE DEF Own
      <4> QED BY <4>1, <4>2, SeqMonotonic
    <3> HIDE DEF Own
    <3> QED BY <2>2, <3>1, SayWrites
  <2> QED BY <2>1, <2>2
<1>2. \A s \in Sockets : \A f \in Own(s) : /\ of[f.n] = s /\ s # 0 /\ f \in OfStream(f.n) /\ f.n \in Listens
                                          /\ events[s] = f.n
  BY DEF Streams, OneStream, Sockets
<1> HIDE DEF Own
<1>3. ASSUME NEW s \in Sockets, NEW i \in DOMAIN toPage'[s]
      PROVE  \/ i \in DOMAIN toPage[s] /\ toPage'[s][i] = toPage[s][i]
             \/ i \notin DOMAIN toPage[s] /\ toPage'[s][i] \in Own(s)
  <2>1. PICK w \in Seq(Own(s)) : toPage'[s] = toPage[s] \o w BY <1>1
  <2> DEFINE p == toPage[s]
  <2>2. p \in Seq(ToPage) BY DEF TypeOK
  <2>3. /\ Len(p) \in Nat /\ Len(w) \in Nat /\ DOMAIN p = 1..Len(p) /\ DOMAIN w = 1..Len(w)
        /\ \A k \in 1..Len(w) : w[k] \in Own(s)
    BY <2>2, LenProperties, ElementOfSeq
  <2>4. w \in Seq(ToPage \cup Own(s)) /\ p \in Seq(ToPage \cup Own(s)) BY <2>2, SeqMonotonic
  <2> HIDE DEF p
  <2>5. /\ DOMAIN (p \o w) = 1..(Len(p) + Len(w))
        /\ \A k \in 1..(Len(p) + Len(w)) : (p \o w)[k] = IF k <= Len(p) THEN p[k] ELSE w[k - Len(p)]
    <3>1. /\ p \o w \in Seq(ToPage \cup Own(s)) /\ Len(p \o w) = Len(p) + Len(w)
          /\ \A k \in 1..(Len(p) + Len(w)) : (p \o w)[k] = IF k <= Len(p) THEN p[k] ELSE w[k - Len(p)]
      BY <2>4, ConcatProperties
    <3> QED BY <3>1, LenProperties
  <2>6. toPage'[s] = p \o w BY <2>1 DEF p
  <2>7. i \in 1..(Len(p) + Len(w)) BY <2>5, <2>6
  <2>8. CASE i <= Len(p)
    <3>1. i \in DOMAIN p /\ toPage'[s][i] = p[i] BY <2>3, <2>5, <2>6, <2>7, <2>8
    <3> QED BY <3>1 DEF p
  <2>9. CASE ~(i <= Len(p))
    <3>1. i \notin DOMAIN p /\ i - Len(p) \in 1..Len(w) /\ toPage'[s][i] = w[i - Len(p)]
      BY <2>3, <2>5, <2>6, <2>7, <2>9
    <3>2. toPage'[s][i] \in Own(s) BY <2>3, <3>1
    <3> QED BY <3>1, <3>2 DEF p
  <2> QED BY <2>8, <2>9
<1>4. OneStream' BY DEF Streams, OneStream, TypeOK
<1>5. Listening' BY DEF Streams, Listening, pageVars
<1>6. AskedFor' BY DEF Streams, AskedFor, pageVars
<1>7. WritesOnceAttached' BY <1>2, <1>3 DEF Streams, WritesOnceAttached, pageVars
<1>8. AskedLast' BY DEF Streams, AskedLast, pageVars
<1>9. OwnFramesOnly'
  <2> SUFFICES ASSUME listener.n # 0, line = "open", NEW i \in DOMAIN toPage'[sock],
                      toPage'[sock][i].k = "event",
                      listener.open \/ \E j \in 1..(i - 1) : toPage'[sock][j] = Attached(listener.n)
               PROVE  toPage'[sock][i].n = listener.n
    BY DEF OwnFramesOnly, pageVars
  <2>1. sock \in Sockets BY DEF Streams, Listening
  <2>2. /\ DOMAIN toPage[sock] = 1..Len(toPage[sock]) /\ Len(toPage[sock]) \in Nat
        /\ DOMAIN toPage'[sock] = 1..Len(toPage'[sock])
    <3>1. toPage[sock] \in Seq(ToPage) BY <2>1 DEF TypeOK
    <3>2. PICK w \in Seq(Own(sock)) : toPage'[sock] = toPage[sock] \o w BY <1>1, <2>1
    <3>3. w \in Seq(ToPage \cup Own(sock)) /\ toPage[sock] \in Seq(ToPage \cup Own(sock)) BY <3>1, SeqMonotonic
    <3>4. toPage[sock] \o w \in Seq(ToPage \cup Own(sock)) BY <3>3, ConcatProperties
    <3> QED BY <3>1, <3>2, <3>4, LenProperties
  <2>3. ASSUME i \in DOMAIN toPage[sock] PROVE toPage'[sock][i].n = listener.n
    <3>1. toPage'[sock][i] = toPage[sock][i] BY <1>3, <2>1, <2>3
    <3>2. CASE listener.open BY <2>3, <3>1, <3>2 DEF Streams, OwnFramesOnly
    <3>3. ASSUME NEW j \in 1..(i - 1), toPage'[sock][j] = Attached(listener.n) PROVE toPage'[sock][i].n = listener.n
      <4>1. j \in DOMAIN toPage[sock] /\ j \in DOMAIN toPage'[sock] BY <2>2, <2>3, <3>3
      <4>2. toPage[sock][j] = Attached(listener.n) BY <1>3, <2>1, <3>3, <4>1
      <4> QED BY <2>3, <3>1, <4>2 DEF Streams, OwnFramesOnly
    <3> QED BY <3>2, <3>3
  <2>4. ASSUME i \notin DOMAIN toPage[sock] PROVE toPage'[sock][i].n = listener.n
    <3>1. events[sock] = toPage'[sock][i].n /\ toPage'[sock][i].n \in Listens BY <1>2, <1>3, <2>1, <2>4
    <3>2. of[listener.n] # 0
      <4>1. CASE listener.open BY <4>1 DEF Streams, WritesOnceAttached
      <4>2. ASSUME NEW j \in 1..(i - 1), toPage'[sock][j] = Attached(listener.n) PROVE of[listener.n] # 0
        <5>1. j \in DOMAIN toPage'[sock] BY <2>2, <4>2
        <5>2. Attached(listener.n).n = listener.n BY DEF Attached
        <5>3. of[toPage'[sock][j].n] # 0 BY <1>2, <1>3, <2>1, <5>1 DEF Streams, WritesOnceAttached
        <5> QED BY <4>2, <5>2, <5>3
      <4> QED BY <4>1, <4>2
    <3>3. events[sock] \in {0, listener.n} BY <3>2 DEF Streams, AskedLast
    <3> QED BY <3>1, <3>3 DEF Listens
  <2> QED BY <2>3, <2>4
<1> QED BY <1>4, <1>5, <1>6, <1>7, <1>8, <1>9 DEF Streams

-----------------------------------------------------------------------------
(* What each step writes, and its types.                                   *)

GwStreams == [st : {"shut", "opening", "live"}, snap : BOOLEAN, at : 0..MaxNotices]

LEMMA FramesTyped ==
  ASSUME NEW n \in Listens
  PROVE  /\ Attached(n) \in OfStream(n) /\ Ended(n) \in OfStream(n)
         /\ \A what \in {"status", "snapshot", "notice"}, at \in 0..MaxNotices : Event(n, what, at) \in OfStream(n)
         /\ 0 \in 0..MaxNotices
         /\ OfStream(n) \subseteq ToPage
<1>1. 0 \in 0..MaxNotices BY BoundsAssumption
<1> QED BY <1>1 DEF Attached, Ended, Event, OfStream, ToPage

Rows == [what : {"status", "snapshot", "notice"}, at : 0..MaxNotices]

\* What is published is written to each subscriber as a frame of its own.
LEMMA PublishedTyped ==
  ASSUME TypeOK, NEW h \in Holds, NEW evs \in Seq(Rows)
  PROVE  \A n \in Listens : Published(h, evs)[n] \in Seq(OfStream(n))
<1> SUFFICES ASSUME NEW n \in Listens PROVE Published(h, evs)[n] \in Seq(OfStream(n)) OBVIOUS
<1>1. CASE n \in subs[h]
  <2>1. DOMAIN evs = 1..Len(evs) /\ Len(evs) \in Nat /\ \A i \in 1..Len(evs) : evs[i] \in Rows
    BY LenProperties, ElementOfSeq
  <2>2. \A i \in 1..Len(evs) : Event(n, evs[i].what, evs[i].at) \in OfStream(n)
    BY <2>1, FramesTyped DEF Rows
  <2>3. Published(h, evs)[n] = [i \in 1..Len(evs) |-> Event(n, evs[i].what, evs[i].at)] BY <1>1, <2>1 DEF Published
  <2> QED BY <2>1, <2>2, <2>3, IsASeq
<1>2. CASE n \notin subs[h]
  <2>1. Published(h, evs)[n] = <<>> BY <1>2 DEF Published
  <2> QED BY <2>1
<1> QED BY <1>1, <1>2

LEMMA OwnTyped ==
  ASSUME NEW written, \A n \in Listens : written[n] \in Seq(OfStream(n))
  PROVE  \A n \in Listens : written[n] \in Seq(ToPage)
BY FramesTyped, SeqMonotonic

\* The cursor is that of a frame published, or stays.
LEMMA CursorTyped ==
  ASSUME TypeOK, NEW h \in Holds, NEW evs \in Seq(Rows), evs # <<>>, \E i \in DOMAIN evs : evs[i].what # "status",
         \A i \in DOMAIN evs : evs[i].what # "status" => i = Len(evs)
  PROVE  CursorAfter(h, evs) \in [Holds -> -1..MaxNotices]
<1> DEFINE carrying == {i \in DOMAIN evs : evs[i].what # "status"}
           last == CHOOSE i \in carrying : \A j \in carrying : j <= i
<1>1. DOMAIN evs = 1..Len(evs) /\ Len(evs) \in Nat BY LenProperties
<1>2. carrying = {Len(evs)} /\ Len(evs) \in carrying OBVIOUS
<1>3. \E i \in carrying : \A j \in carrying : j <= i BY <1>1, <1>2
<1>4. last \in DOMAIN evs BY <1>3
<1>5. evs[last] \in Rows BY <1>1, <1>4, ElementOfSeq
<1>6. evs[last].at \in -1..MaxNotices BY <1>5, BoundsAssumption DEF Rows
<1>7. CursorAfter(h, evs) = [cursor EXCEPT ![h] = evs[last].at] BY <1>2 DEF CursorAfter
<1> HIDE DEF last
<1> QED BY <1>6, <1>7 DEF TypeOK

LEMMA CursorStays ==
  ASSUME NEW h \in Holds, NEW evs, \A i \in DOMAIN evs : evs[i].what = "status"
  PROVE  CursorAfter(h, evs) = cursor
<1>1. {i \in DOMAIN evs : evs[i].what # "status"} = {} OBVIOUS
<1> QED BY <1>1 DEF CursorAfter

-----------------------------------------------------------------------------
(* The steps.                                                              *)

\* Whoever listens had a number before it is asked for, which is of no stream yet.
LEMMA ListenKeeps ==
  ASSUME TypeOK, Streams, Listen
  PROVE  TypeOK' /\ Streams'
<1> DEFINE n == listens + 1
<1>1. n \in Listens /\ n \in 0..MaxListens /\ listens \in Nat /\ n \in Nat /\ listens <= n /\ ~(n <= listens)
  BY BoundsAssumption DEF Listen, TypeOK, Listens
<1>2. listens' = n /\ got' = -1 /\ UNCHANGED <<toPage, cut, bffVars, heldVars, gameVars>> /\ listener = NoListener
  BY DEF Listen
<1>3. of[n] = 0 BY <1>1 DEF Streams, Listening
<1>4. Open(n) \in ToBff /\ Open(n).n = n /\ Open(n).k = "open" BY <1>1 DEF Open, ToBff
<1> HIDE DEF n
<1>5. \A t \in Sockets : \A i \in DOMAIN toBff[t] : toBff[t][i] # Open(n)
  <2>1. n \notin 1..listens BY <1>1
  <2> QED BY <1>4, <2>1 DEF Streams, AskedFor
<1>6. /\ NoListener \in [n : 0..MaxListens, open : BOOLEAN]
      /\ [n |-> n, open |-> FALSE] \in [n : 0..MaxListens, open : BOOLEAN]
      /\ -1 \in -1..MaxNotices
  BY <1>1, BoundsAssumption DEF NoListener
<1>7. /\ sock' \in 0..MaxSockets /\ line' \in {"down", "connecting", "open"}
      /\ line' # "down" => sock' \in Sockets
  <2>1. /\ sock \in 0..MaxSockets /\ line \in {"down", "connecting", "open"} /\ MaxSockets \in Nat
        /\ line # "down" => sock \in Sockets
    BY BoundsAssumption DEF Streams, Listening, TypeOK
  <2>2. \/ UNCHANGED <<line, sock>>
        \/ sock < MaxSockets /\ line' = "connecting" /\ sock' = sock + 1
    BY DEF Listen
  <2>3. sock < MaxSockets => sock + 1 \in 0..MaxSockets /\ sock + 1 \in Sockets BY <2>1 DEF Sockets
  <2> QED BY <2>1, <2>2, <2>3
<1>8. \/ listener' = NoListener /\ toBff' = toBff
      \/ /\ listener' = [n |-> n, open |-> FALSE] /\ line' \in {"connecting", "open"}
         /\ toBff' = toBff \/ (line' = "open" /\ SendBff(sock', Open(n)))
  BY DEF Listen, AskForPushes, n, SendBff
<1>9. told' \in [Listens -> {"none", "waiting", "open", "ended", "unavailable", "closed"}]
  BY <1>1 DEF Listen, AskForPushes, n, TypeOK
<1>10. toBff' \in [Sockets -> Seq(ToBff)]
  BY <1>4, <1>7, <1>8, SendLast DEF TypeOK
<1>11. TypeOK' BY <1>1, <1>2, <1>6, <1>7, <1>8, <1>9, <1>10 DEF TypeOK, bffVars, heldVars, gameVars
<1>12. UNCHANGED <<toPage, events, of, over>> BY <1>2 DEF bffVars
<1>13. CASE listener' = NoListener /\ toBff' = toBff
  <2>1. Close \in ToBff /\ Close.k # "open" /\ 1 \in Sockets BY BoundsAssumption DEF Close, ToBff, Sockets
  <2> QED BY <1>1, <1>2, <1>7, <1>11, <1>12, <1>13, <2>1, NobodyListens
<1>14. CASE /\ listener' = [n |-> n, open |-> FALSE] /\ line' \in {"connecting", "open"}
            /\ toBff' = toBff \/ (line' = "open" /\ SendBff(sock', Open(n)))
  BY <1>1, <1>2, <1>3, <1>5, <1>7, <1>11, <1>12, <1>14, NowListens
<1> QED BY <1>8, <1>11, <1>13, <1>14

LEMMA HelloKeeps ==
  ASSUME TypeOK, Streams, HelloSaid
  PROVE  TypeOK' /\ Streams'
<1> DEFINE n == listener.n
<1>1. /\ line = "connecting" /\ line' = "open" /\ sock \in Sockets /\ sock \in 0..MaxSockets
      /\ serving' = [serving EXCEPT ![sock] = TRUE]
      /\ UNCHANGED <<listens, got, sock, toPage, cut, events, of, route, over, beat, heldVars, gameVars>>
  BY DEF HelloSaid, Streams, Listening, Sockets
<1>2. /\ listener \in [n : 0..MaxListens, open : BOOLEAN] /\ listens \in Nat /\ n \in 0..MaxListens
      /\ n <= listens /\ (listener.open => n # 0)
      /\ NoListener = [n |-> 0, open |-> FALSE]
  BY DEF TypeOK, Streams, Listening, NoListener
<1>3. Open(n) \in ToBff /\ Open(n).n = n /\ Open(n).k = "open" BY <1>2 DEF Open, ToBff
<1>4. listener # NoListener => n \in Listens
  <2>1. n # 0 => n \in 1..MaxListens BY <1>2
  <2>2. CASE n = 0
    <3>1. ~listener.open BY <1>2, <2>2
    <3>2. listener = [n |-> 0, open |-> FALSE] BY <1>2, <2>2, <3>1
    <3> QED BY <1>2, <3>2
  <2> QED BY <2>1, <2>2 DEF Listens
<1>5. \/ UNCHANGED <<listener, told, toBff>> /\ listener = NoListener
      \/ /\ n \in Listens /\ listener' = NoListener /\ toBff' = toBff
         /\ told' = [told EXCEPT ![n] = "unavailable"]
      \/ /\ n \in Listens /\ listener' = [n |-> n, open |-> FALSE] /\ SendBff(sock, Open(n))
         /\ told' = [told EXCEPT ![n] = "waiting"]
  BY <1>4 DEF HelloSaid, AskForPushes
<1>6. n # 0 => of[n] = 0 /\ \A t \in Sockets : \A i \in DOMAIN toBff[t] : toBff[t][i] # Open(n)
  BY <1>1 DEF Streams, AskedLast
<1>7. 0 \in 0..MaxListens BY BoundsAssumption
<1> HIDE DEF n
<1>8. toBff' \in [Sockets -> Seq(ToBff)] BY <1>1, <1>3, <1>5, SendLast DEF TypeOK
<1>9. told' \in [Listens -> {"none", "waiting", "open", "ended", "unavailable", "closed"}]
  BY <1>5 DEF TypeOK
<1>10. listener' \in [n : 0..MaxListens, open : BOOLEAN]
  <2>1. [n |-> n, open |-> FALSE] \in [n : 0..MaxListens, open : BOOLEAN] BY <1>2
  <2>2. NoListener \in [n : 0..MaxListens, open : BOOLEAN] BY <1>2, <1>7
  <2> QED BY <1>2, <1>5, <2>1, <2>2
<1>11. TypeOK' BY <1>1, <1>8, <1>9, <1>10 DEF TypeOK, heldVars, gameVars
<1>12. listens <= listens BY <1>2
<1>13. CASE listener' = NoListener /\ toBff' = toBff
  <2>1. Close \in ToBff /\ Close.k # "open" BY <1>7 DEF Close, ToBff
  <2> QED BY <1>1, <1>2, <1>11, <1>12, <1>13, <2>1, NobodyListens
<1>14. CASE n \in Listens /\ listener' = [n |-> n, open |-> FALSE] /\ SendBff(sock, Open(n))
  <2>1. of[n] = 0 /\ \A t \in Sockets : \A i \in DOMAIN toBff[t] : toBff[t][i] # Open(n)
    BY <1>6, <1>14 DEF Listens
  <2> QED BY <1>1, <1>2, <1>11, <1>12, <1>14, <2>1, NowListens
<1> QED BY <1>5, <1>11, <1>13, <1>14

LEMMA PageLeavesKeeps ==
  ASSUME TypeOK, Streams, CloseListener \/ PageLoses \/ LetGo
  PROVE  TypeOK' /\ Streams'
<1>1. /\ Close \in ToBff /\ Close.k # "open" /\ Bye \in ToBff /\ Bye.k # "open"
      /\ NoListener \in [n : 0..MaxListens, open : BOOLEAN]
      /\ listens \in Nat /\ listens <= listens
  BY BoundsAssumption DEF Close, Bye, ToBff, NoListener, TypeOK
<1>2. /\ listener' = NoListener /\ line' \in {"down", line}
      /\ UNCHANGED <<listens, got, sock, toPage, bffVars, heldVars, gameVars>>
      /\ cut' = cut \/ cut' = [cut EXCEPT ![sock] = TRUE]
      /\ told' = told \/ told' = [told EXCEPT ![listener.n] = "closed"]
                     \/ told' = [told EXCEPT ![listener.n] = "unavailable"]
  BY DEF CloseListener, PageLoses, LetGo
<1>3. \/ toBff' = toBff
      \/ line = "open" /\ (SendBff(sock, Close) \/ SendBff(sock, Bye))
  BY DEF CloseListener, PageLoses, LetGo
<1>4. line # "down" => sock \in Sockets BY DEF Streams, Listening
<1>5. toBff' \in [Sockets -> Seq(ToBff)] BY <1>1, <1>3, <1>4, SendLast DEF TypeOK
<1>6. told' \in [Listens -> {"none", "waiting", "open", "ended", "unavailable", "closed"}] BY <1>2 DEF TypeOK
<1>7. TypeOK' BY <1>1, <1>2, <1>5, <1>6 DEF TypeOK, bffVars, heldVars, gameVars
<1>8. UNCHANGED <<toPage, events, of, over>> BY <1>2 DEF bffVars
<1>9. CASE toBff' = toBff
  <2>1. 1 \in Sockets BY BoundsAssumption DEF Sockets
  <2> QED BY <1>1, <1>2, <1>4, <1>7, <1>8, <1>9, <2>1, NobodyListens
<1>10. CASE line = "open" /\ (SendBff(sock, Close) \/ SendBff(sock, Bye))
  BY <1>1, <1>2, <1>4, <1>7, <1>8, <1>10, NobodyListens
<1> QED BY <1>3, <1>7, <1>9, <1>10

LEMMA PageTakesTyped ==
  ASSUME TypeOK, Streams, NEW s \in Sockets, PageTakes(s)
  PROVE  TypeOK'
<1>1. toPage[s] \in Seq(ToPage) /\ toPage[s] # <<>> BY DEF TypeOK, PageTakes
<1>2. Head(toPage[s]) \in ToPage /\ Tail(toPage[s]) \in Seq(ToPage) BY <1>1, TailShifts
<1>3. toPage' \in [Sockets -> Seq(ToPage)] BY <1>2 DEF PageTakes, TypeOK
<1>4. NoListener \in [n : 0..MaxListens, open : BOOLEAN] BY BoundsAssumption DEF NoListener
<1>5. /\ Head(toPage[s]).at \in -1..MaxNotices /\ Head(toPage[s]).n \in Listens
  BY <1>2, BoundsAssumption DEF ToPage
<1>6. listener' \in [n : 0..MaxListens, open : BOOLEAN] BY <1>4 DEF PageTakes, TypeOK
<1>7. got' \in -1..MaxNotices BY <1>5 DEF PageTakes, TypeOK
<1>8. told' \in [Listens -> {"none", "waiting", "open", "ended", "unavailable", "closed"}]
  BY <1>5 DEF PageTakes, TypeOK
<1>9. UNCHANGED <<listens, line, sock, toBff, cut, bffVars, heldVars, gameVars>> BY DEF PageTakes
<1> QED BY <1>3, <1>6, <1>7, <1>8, <1>9 DEF TypeOK, bffVars, heldVars, gameVars

\* LetEventsGo(), as far as the types go.
LEMMA LetGoTyped ==
  ASSUME TypeOK, NEW s \in Sockets, LetEventsGo(s)
  PROVE  /\ over' \in [Listens -> BOOLEAN] /\ beat' \in [Listens -> BOOLEAN]
         /\ subs' \in [Holds -> SUBSET Listens] /\ gw' \in [Holds -> GwStreams] /\ retry' \in [Holds -> BOOLEAN]
         /\ over' = [n \in Listens |-> over[n] \/ (events[s] = n /\ ~over[n])]
<1>1. over' = [n \in Listens |-> over[n] \/ (events[s] = n /\ ~over[n])]
  <2>1. over' = [n \in Listens |-> over[n] \/ n \in {m \in Listens : events[s] = m /\ ~over[m]}] BY DEF LetEventsGo
  <2> QED BY <2>1
<1>2. Shut \in GwStreams BY BoundsAssumption DEF Shut, GwStreams
<1>3. gw' \in [Holds -> GwStreams] BY <1>2 DEF LetEventsGo, TypeOK, GwStreams
<1>4. retry' \in [Holds -> BOOLEAN] BY DEF LetEventsGo, TypeOK
<1>5. over' \in [Listens -> BOOLEAN] BY <1>1
<1>6. beat' \in [Listens -> BOOLEAN] BY DEF LetEventsGo
<1>7. subs' \in [Holds -> SUBSET Listens] BY DEF LetEventsGo, TypeOK
<1> QED BY <1>1, <1>3, <1>4, <1>5, <1>6, <1>7

\* What the BFF takes, or loses, lets a socket's stream go, and may attach the next.
LEMMA BffActs ==
  ASSUME TypeOK, Streams, NEW s \in Sockets, BffTakes(s) \/ BffLoses(s)
  PROVE  /\ LetEventsGo(s) /\ UNCHANGED <<pageVars, toPage, cut, current, holds, cursor, gameVars>>
         /\ toBff' = toBff \/ (toBff[s] # <<>> /\ toBff' = [toBff EXCEPT ![s] = Tail(toBff[s])])
         /\ serving' = serving \/ serving' = [serving EXCEPT ![s] = FALSE]
         /\ \/ events' = [events EXCEPT ![s] = 0] /\ UNCHANGED <<of, route>>
            \/ \E m \in Listens : /\ events' = [events EXCEPT ![s] = m] /\ of' = [of EXCEPT ![m] = s]
                                  /\ route' = [route EXCEPT ![m] = "auth"]
                                  /\ toBff[s] # <<>> /\ Head(toBff[s]) = Open(m)
                                  /\ toBff' = [toBff EXCEPT ![s] = Tail(toBff[s])]
<1>1. CASE BffTakes(s) /\ Head(toBff[s]).k = "open"
  <2> DEFINE m == Head(toBff[s]).n
  <2>1. toBff[s] # <<>> /\ toBff' = [toBff EXCEPT ![s] = Tail(toBff[s])] /\ AttachEvents(s, m)
    BY <1>1 DEF BffTakes
  <2>2. toBff[s] \in Seq(ToBff) BY DEF TypeOK
  <2>3. Head(toBff[s]) \in ToBff /\ 1 \in DOMAIN toBff[s] /\ Head(toBff[s]) = toBff[s][1] BY <2>1, <2>2, TailShifts
  <2>4. Head(toBff[s]) = Open(m) BY <1>1, <2>3 DEF ToBff, Open
  <2>5. m \in 1..listens BY <1>1, <2>3 DEF Streams, AskedFor
  <2>6. m \in Listens
    <3>1. listens \in 0..MaxListens BY DEF TypeOK
    <3>2. listens <= MaxListens /\ listens \in Nat /\ MaxListens \in Nat BY <3>1, BoundsAssumption
    <3> HIDE DEF m
    <3> QED BY <2>5, <3>2 DEF Listens
  <2>7. UNCHANGED <<pageVars, toPage, cut, current, holds, cursor, gameVars>> BY <1>1 DEF BffTakes
  <2> HIDE DEF m
  <2> QED BY <2>1, <2>4, <2>6, <2>7 DEF AttachEvents
<1>2. CASE BffTakes(s) /\ Head(toBff[s]).k # "open" BY <1>2 DEF BffTakes, SocketCloses
<1>3. CASE BffLoses(s) BY <1>3 DEF BffLoses, SocketCloses, wireVars
<1> QED BY <1>1, <1>2, <1>3

LEMMA BffKeeps ==
  ASSUME TypeOK, Streams, NEW s \in Sockets, BffTakes(s) \/ BffLoses(s)
  PROVE  TypeOK' /\ Streams'
<1>1. LetEventsGo(s) BY BffActs
<1>2. UNCHANGED <<pageVars, toPage, cut, current, holds, cursor, gameVars>> BY BffActs
<1>3. toBff[s] \in Seq(ToBff) /\ 0 \in 0..MaxListens BY BoundsAssumption DEF TypeOK
<1>4. toBff' = toBff \/ (toBff[s] # <<>> /\ toBff' = [toBff EXCEPT ![s] = Tail(toBff[s])]) BY BffActs
<1>5. /\ serving' = serving \/ serving' = [serving EXCEPT ![s] = FALSE]
      /\ \/ events' = [events EXCEPT ![s] = 0] /\ UNCHANGED <<of, route>>
         \/ \E m \in Listens : /\ events' = [events EXCEPT ![s] = m] /\ of' = [of EXCEPT ![m] = s]
                               /\ route' = [route EXCEPT ![m] = "auth"]
                               /\ toBff[s] # <<>> /\ Head(toBff[s]) = Open(m)
                               /\ toBff' = [toBff EXCEPT ![s] = Tail(toBff[s])]
  BY BffActs
<1>6. toBff' \in [Sockets -> Seq(ToBff)]
  <2>1. toBff[s] # <<>> => Tail(toBff[s]) \in Seq(ToBff) BY <1>3, TailShifts
  <2>2. toBff \in [Sockets -> Seq(ToBff)] BY DEF TypeOK
  <2> QED BY <1>4, <2>1, <2>2
<1>7. /\ events' \in [Sockets -> 0..MaxListens] /\ serving' \in [Sockets -> BOOLEAN]
      /\ route' \in [Listens -> {"none", "auth", "streaming", "ended"}]
      /\ of' \in [Listens -> 0..MaxSockets]
  <2>1. /\ events \in [Sockets -> 0..MaxListens] /\ serving \in [Sockets -> BOOLEAN]
        /\ route \in [Listens -> {"none", "auth", "streaming", "ended"}]
        /\ of \in [Listens -> 0..MaxSockets]
    BY DEF TypeOK
  <2>2. \A m \in Listens : m \in 0..MaxListens BY DEF Listens
  <2>3. s \in 0..MaxSockets BY DEF Sockets
  <2>4. serving' \in [Sockets -> BOOLEAN] BY <1>5, <2>1
  <2>5. CASE events' = [events EXCEPT ![s] = 0] /\ UNCHANGED <<of, route>> BY <1>3, <2>1, <2>4, <2>5
  <2>6. ASSUME NEW m \in Listens, events' = [events EXCEPT ![s] = m], of' = [of EXCEPT ![m] = s],
               route' = [route EXCEPT ![m] = "auth"]
        PROVE  /\ events' \in [Sockets -> 0..MaxListens] /\ of' \in [Listens -> 0..MaxSockets]
               /\ route' \in [Listens -> {"none", "auth", "streaming", "ended"}]
    BY <2>1, <2>2, <2>3, <2>6
  <2> QED BY <1>5, <2>1, <2>4, <2>5, <2>6
<1>8. TypeOK' BY <1>1, <1>2, <1>6, <1>7, LetGoTyped DEF TypeOK, pageVars, gameVars, GwStreams
<1>9. over' = [n \in Listens |-> over[n] \/ (events[s] = n /\ ~over[n])] BY <1>1, LetGoTyped
<1>10. \/ events' = [events EXCEPT ![s] = 0] /\ UNCHANGED of
       \/ \E m \in Listens : /\ events' = [events EXCEPT ![s] = m] /\ of' = [of EXCEPT ![m] = s]
                             /\ toBff[s] # <<>> /\ Head(toBff[s]) = Open(m)
                             /\ toBff' = [toBff EXCEPT ![s] = Tail(toBff[s])]
  BY <1>5
<1>11. UNCHANGED <<pageVars, toPage>> BY <1>2
<1>12. Streams' BY ONLY <1>4, <1>9, <1>10, <1>11, TypeOK, Streams, s \in Sockets, LetsGo
<1> QED BY <1>8, <1>12

\* The route's answer, and what the held session's end says.
LEMMA RouteKeeps ==
  ASSUME TypeOK, Streams, NEW n \in Listens, RouteRefuses(n) \/ RouteStreams(n)
  PROVE  TypeOK' /\ Streams'
<1>1. UNCHANGED <<pageVars, toBff, cut, serving, events, of, current, holds, cursor, gameVars>>
  BY DEF RouteRefuses, RouteStreams, heldVars
<1>2. \A m \in Listens : <<>> \in Seq(OfStream(m)) OBVIOUS
<1>3. CASE RouteRefuses(n)
  <2> DEFINE written == [m \in Listens |-> IF m = n THEN <<Ended(n)>> ELSE <<>>]
  <2>1. \A m \in Listens : written[m] \in Seq(OfStream(m)) BY <1>2, FramesTyped
  <2>2. Say(written) BY <1>3 DEF RouteRefuses
  <2> HIDE DEF written
  <2>3. toPage' \in [Sockets -> Seq(ToPage)] BY <2>1, <2>2, OwnTyped, SayTyped
  <2>4. /\ over' = [over EXCEPT ![n] = TRUE] /\ route' = [route EXCEPT ![n] = "ended"]
        /\ UNCHANGED <<beat, heldVars>>
    BY <1>3 DEF RouteRefuses
  <2>5. over' \in [Listens -> BOOLEAN] /\ \A m \in Listens : over[m] => over'[m] BY <2>4 DEF TypeOK
  <2>6. TypeOK' BY <1>1, <2>3, <2>4, <2>5 DEF TypeOK, pageVars, heldVars, gameVars
  <2> QED BY <1>1, <2>1, <2>2, <2>5, <2>6, SaysKeeps
<1>4. CASE RouteStreams(n)
  <2> DEFINE h == current
             written == [Published(h, <<Status>>) EXCEPT ![n] = <<Attached(n), Event(n, "status", 0)>>]
  <2>1. h \in Holds /\ subs' = [subs EXCEPT ![h] = subs[h] \cup {n}] BY <1>4 DEF RouteStreams, TypeOK, Holds
  <2>2. Status \in Rows /\ <<Status>> \in Seq(Rows) BY BoundsAssumption DEF Status, Rows
  <2>3. \A m \in Listens : Published(h, <<Status>>)[m] \in Seq(OfStream(m)) BY <2>1, <2>2, PublishedTyped
  <2>4. \A m \in Listens : written[m] \in Seq(OfStream(m))
    <3>1. <<Attached(n), Event(n, "status", 0)>> \in Seq(OfStream(n)) BY FramesTyped
    <3> QED BY <2>3, <3>1 DEF Published
  <2>5. Say(written) BY <1>4 DEF RouteStreams
  <2> HIDE DEF written
  <2>6. toPage' \in [Sockets -> Seq(ToPage)] BY <2>4, <2>5, OwnTyped, SayTyped
  <2>7. gw' \in [Holds -> GwStreams] /\ retry' \in [Holds -> BOOLEAN]
    <3>1. gw \in [Holds -> GwStreams] /\ retry \in [Holds -> BOOLEAN] BY DEF TypeOK, GwStreams
    <3>2. Opening(h) \in GwStreams
      <4>1. cursor[h] \in -1..MaxNotices /\ seq[h] \in 0..MaxNotices BY <2>1 DEF TypeOK
      <4>2. cursor[h] >= 0 => cursor[h] \in 0..MaxNotices BY <4>1, BoundsAssumption
      <4> QED BY <4>1, <4>2 DEF Opening, GwStreams
    <3>3. OpenHeldStream(h) BY <1>4 DEF RouteStreams
    <3> HIDE DEF h
    <3> QED BY <3>1, <3>2, <3>3 DEF OpenHeldStream
  <2>8. /\ route' = [route EXCEPT ![n] = "streaming"] /\ beat' = [beat EXCEPT ![n] = TRUE] /\ UNCHANGED over
    BY <1>4 DEF RouteStreams
  <2>9. subs' \in [Holds -> SUBSET Listens] BY <2>1 DEF TypeOK
  <2>10. TypeOK' BY <1>1, <2>6, <2>7, <2>8, <2>9 DEF TypeOK, pageVars, gameVars, GwStreams
  <2> QED BY <1>1, <2>4, <2>5, <2>8, <2>10, SaysKeeps
<1> QED BY <1>3, <1>4

LEMMA ForgetKeeps ==
  ASSUME TypeOK, Streams, Forget
  PROVE  TypeOK' /\ Streams'
<1> DEFINE h == current
           written == [n \in Listens |-> IF n \in subs[h] THEN <<Event(n, "status", 0), Ended(n)>> ELSE <<>>]
<1>1. /\ h \in Holds /\ current' = 0 /\ Say(written)
      /\ over' = [n \in Listens |-> over[n] \/ n \in subs[h]]
      /\ route' = [n \in Listens |-> IF n \in subs[h] THEN "ended" ELSE route[n]]
      /\ subs' = [subs EXCEPT ![h] = {}]
      /\ gw' = [gw EXCEPT ![h] = Shut]
      /\ retry' = [retry EXCEPT ![h] = FALSE]
      /\ UNCHANGED <<pageVars, toBff, cut, serving, events, of, beat, holds, cursor, gameVars>>
  BY DEF Forget, TypeOK, Holds
<1>2. \A n \in Listens : written[n] \in Seq(OfStream(n))
  <2>1. \A n \in Listens : <<>> \in Seq(OfStream(n)) /\ <<Event(n, "status", 0), Ended(n)>> \in Seq(OfStream(n))
    BY FramesTyped
  <2> QED BY <2>1
<1> HIDE DEF written, h
<1>3. toPage' \in [Sockets -> Seq(ToPage)] BY <1>1, <1>2, OwnTyped, SayTyped
<1>4. Shut \in GwStreams /\ 0 \in 0..MaxHolds BY BoundsAssumption DEF Shut, GwStreams
<1>5. /\ gw' \in [Holds -> GwStreams] /\ retry' \in [Holds -> BOOLEAN] /\ subs' \in [Holds -> SUBSET Listens]
      /\ route' \in [Listens -> {"none", "auth", "streaming", "ended"}]
      /\ over' \in [Listens -> BOOLEAN]
      /\ \A n \in Listens : over[n] => over'[n]
  BY <1>1, <1>4 DEF TypeOK, GwStreams
<1>6. TypeOK' BY <1>1, <1>3, <1>4, <1>5 DEF TypeOK, pageVars, gameVars, GwStreams
<1>7. UNCHANGED <<pageVars, toBff, events, of>> BY <1>1
<1> QED BY <1>1, <1>2, <1>5, <1>6, <1>7, SaysKeeps

\* What the game server's stream says is published to those who subscribe.
LEMMA PublishKeeps ==
  ASSUME TypeOK, Streams, NEW h \in Holds, NEW evs \in Seq(Rows),
         Say(Published(h, evs)) \/ UNCHANGED toPage,
         cursor' \in [Holds -> -1..MaxNotices], gw' \in [Holds -> GwStreams], retry' \in [Holds -> BOOLEAN],
         UNCHANGED <<pageVars, toBff, cut, bffVars, current, holds, subs, gameVars>>
  PROVE  TypeOK' /\ Streams'
<1>1. \A n \in Listens : Published(h, evs)[n] \in Seq(OfStream(n)) BY PublishedTyped
<1>2. toPage' \in [Sockets -> Seq(ToPage)]
  <2>1. CASE UNCHANGED toPage BY <2>1 DEF TypeOK
  <2>2. CASE Say(Published(h, evs)) BY <1>1, <2>2, OwnTyped, SayTyped
  <2> QED BY <2>1, <2>2
<1>3. TypeOK' BY <1>2 DEF TypeOK, pageVars, bffVars, gameVars, GwStreams
<1>4. (\A n \in Listens : over[n] => over'[n]) /\ UNCHANGED <<pageVars, toBff, events, of>> BY DEF bffVars
<1> QED BY <1>1, <1>3, <1>4, SaysKeeps

LEMMA GwKeeps ==
  ASSUME TypeOK, Streams, NEW h \in Holds,
         GwOpens(h) \/ GwNotice(h) \/ GwCloses(h, TRUE) \/ GwCloses(h, FALSE)
  PROVE  TypeOK' /\ Streams'
<1>1. gw \in [Holds -> GwStreams] /\ retry \in [Holds -> BOOLEAN] /\ cursor \in [Holds -> -1..MaxNotices]
  BY DEF TypeOK, GwStreams
<1>2. /\ gw[h].at \in 0..MaxNotices /\ seq[h] \in 0..MaxNotices
      /\ Status \in Rows /\ Status.what = "status" /\ Shut \in GwStreams
      /\ \A at \in 0..MaxNotices : /\ Snapshot(at) \in Rows /\ Snapshot(at).what = "snapshot"
                                   /\ Notice(at) \in Rows /\ Notice(at).what = "notice"
  BY <1>1, BoundsAssumption DEF TypeOK, GwStreams, Status, Snapshot, Notice, Rows, Shut
<1>3. CASE GwOpens(h)
  <2> DEFINE evs == IF gw[h].snap THEN <<Status, Snapshot(gw[h].at)>> ELSE <<Status>>
  <2>1. evs \in Seq(Rows) BY <1>2
  <2>2. /\ Say(Published(h, evs)) /\ cursor' = CursorAfter(h, evs)
        /\ gw' = [gw EXCEPT ![h].st = "live", ![h].snap = FALSE]
        /\ UNCHANGED <<pageVars, toBff, cut, bffVars, current, holds, subs, retry, gameVars>>
    BY <1>3 DEF GwOpens, Publish
  <2>3. cursor' \in [Holds -> -1..MaxNotices]
    <3>1. CASE gw[h].snap
      <4>1. evs = <<Status, Snapshot(gw[h].at)>> BY <3>1
      <4>2. /\ evs # <<>> /\ 2 \in DOMAIN evs /\ evs[2].what # "status"
            /\ \A i \in DOMAIN evs : evs[i].what # "status" => i = Len(evs)
        BY <1>2, <4>1
      <4> HIDE DEF evs
      <4> QED BY <2>1, <2>2, <4>2, CursorTyped
    <3>2. CASE ~gw[h].snap
      <4>1. \A i \in DOMAIN evs : evs[i].what = "status" BY <1>2, <3>2
      <4> HIDE DEF evs
      <4> QED BY <1>1, <2>2, <4>1, CursorStays
    <3> QED BY <3>1, <3>2
  <2>4. gw' \in [Holds -> GwStreams] BY <1>1, <2>2 DEF GwStreams
  <2> HIDE DEF evs
  <2> QED BY <1>1, <2>1, <2>2, <2>3, <2>4, PublishKeeps
<1>4. CASE GwNotice(h)
  <2> DEFINE evs == <<Notice(gw[h].at + 1)>>
  <2>0. gw[h].at < seq[h] BY <1>4 DEF GwNotice
  <2>1. gw[h].at + 1 \in 0..MaxNotices BY <1>2, <2>0, BoundsAssumption
  <2>2. evs \in Seq(Rows) /\ evs # <<>> /\ 1 \in DOMAIN evs /\ evs[1].what # "status"
        /\ \A i \in DOMAIN evs : i = Len(evs)
    BY <1>2, <2>1
  <2>3. /\ Say(Published(h, evs)) /\ cursor' = CursorAfter(h, evs)
        /\ gw' = [gw EXCEPT ![h].at = gw[h].at + 1]
        /\ UNCHANGED <<pageVars, toBff, cut, bffVars, current, holds, subs, retry, gameVars>>
    BY <1>4 DEF GwNotice, Publish
  <2> HIDE DEF evs
  <2>4. cursor' \in [Holds -> -1..MaxNotices] BY <2>2, <2>3, CursorTyped
  <2>5. gw' \in [Holds -> GwStreams] BY <1>1, <2>1, <2>3 DEF GwStreams
  <2> QED BY <1>1, <2>2, <2>3, <2>4, <2>5, PublishKeeps
<1>5. ASSUME NEW refused \in BOOLEAN, GwCloses(h, refused) PROVE TypeOK' /\ Streams'
  <2> DEFINE evs == <<Status>>
  <2>1. evs \in Seq(Rows) BY <1>2
  <2>2. /\ Say(Published(h, evs)) \/ UNCHANGED toPage
        /\ gw' = [gw EXCEPT ![h] = Shut]
        /\ retry' = retry \/ retry' = [retry EXCEPT ![h] = ~refused]
        /\ UNCHANGED <<pageVars, toBff, cut, bffVars, current, holds, subs, cursor, gameVars>>
    BY <1>5 DEF GwCloses
  <2> HIDE DEF evs
  <2>3. gw' \in [Holds -> GwStreams] BY <1>1, <1>2, <2>2
  <2>4. retry' \in [Holds -> BOOLEAN] BY <1>1, <2>2
  <2>5. cursor' \in [Holds -> -1..MaxNotices] BY <1>1, <2>2
  <2> QED BY <1>1, <2>1, <2>2, <2>3, <2>4, <2>5, PublishKeeps
<1> QED BY <1>3, <1>4, <1>5

\* Nothing that goes between page and BFF is touched.
LEMMA QuietKeeps ==
  ASSUME TypeOK, Streams,
         \/ Select \/ \E h \in Holds : Retry(h) \/ GivesOut(h) \/ GameEnds(h)
         \/ \E s \in Sockets : Cut(s)
         \/ UNCHANGED vars
  PROVE  TypeOK' /\ Streams'
<1>1. UNCHANGED <<pageVars, toBff, toPage, bffVars>>
  BY DEF Select, Retry, GivesOut, GameEnds, Cut, vars, wireVars
<1>2. TypeOK'
  <2>1. CASE Select
    <3>0. holds \in 0..MaxHolds /\ holds < MaxHolds BY <2>1 DEF Select, TypeOK
    <3>1. holds + 1 \in 0..MaxHolds BY <3>0, BoundsAssumption
    <3> QED BY <2>1, <3>1 DEF Select, TypeOK, pageVars, wireVars, bffVars
  <2>2. ASSUME NEW h \in Holds, Retry(h) PROVE TypeOK'
    <3>1. cursor[h] \in -1..MaxNotices /\ seq[h] \in 0..MaxNotices BY DEF TypeOK
    <3>2. cursor[h] >= 0 => cursor[h] \in 0..MaxNotices BY <3>1, BoundsAssumption
    <3>3. Opening(h) \in GwStreams BY <3>1, <3>2 DEF Opening, GwStreams
    <3>4. gw' \in [Holds -> GwStreams] BY <2>2, <3>3 DEF Retry, TypeOK, GwStreams
    <3> QED BY <2>2, <3>4 DEF Retry, TypeOK, GwStreams, pageVars, wireVars, bffVars, gameVars
  <2>3. ASSUME NEW h \in Holds, GivesOut(h) PROVE TypeOK'
    <3>1. seq[h] \in 0..MaxNotices /\ seq[h] < MaxNotices /\ seq' = [seq EXCEPT ![h] = seq[h] + 1]
      BY <2>3 DEF TypeOK, GivesOut
    <3>2. seq[h] + 1 \in 0..MaxNotices BY <3>1, BoundsAssumption
    <3>3. seq' \in [Holds -> 0..MaxNotices] BY <3>1, <3>2 DEF TypeOK
    <3> QED BY <2>3, <3>3 DEF GivesOut, TypeOK, pageVars, wireVars, bffVars, heldVars
  <2>4. ASSUME NEW h \in Holds, GameEnds(h) PROVE TypeOK'
    BY <2>4 DEF GameEnds, TypeOK, pageVars, wireVars, bffVars, heldVars
  <2>5. ASSUME NEW s \in Sockets, Cut(s) PROVE TypeOK'
    BY <2>5 DEF Cut, TypeOK, pageVars, bffVars, heldVars, gameVars
  <2>6. CASE UNCHANGED vars BY <2>6 DEF vars, TypeOK, pageVars, wireVars, bffVars, heldVars, gameVars
  <2> QED BY <2>1, <2>2, <2>3, <2>4, <2>5, <2>6
<1>3. Streams'
  <2> DEFINE written == [n \in Listens |-> <<>>]
  <2>1. \A n \in Listens : written[n] \in Seq(OfStream(n)) OBVIOUS
  <2> HIDE DEF written
  <2>2. (\A n \in Listens : over[n] => over'[n]) /\ UNCHANGED <<pageVars, toBff, events, of>> BY <1>1 DEF bffVars
  <2> QED BY <1>1, <2>1, <2>2, SaysKeeps
<1> QED BY <1>2, <1>3

LEMMA StepKeeps ==
  ASSUME TypeOK, Streams, [Next]_vars
  PROVE  TypeOK' /\ Streams'
<1>1. ASSUME NEW s \in Sockets, PageTakes(s) PROVE TypeOK' /\ Streams'
  BY <1>1, PageTakesTyped, PageTakesKeeps
<1>2. CASE Listen BY <1>2, ListenKeeps
<1>3. CASE HelloSaid BY <1>3, HelloKeeps
<1>4. CASE CloseListener \/ PageLoses \/ LetGo BY <1>4, PageLeavesKeeps
<1>5. ASSUME NEW s \in Sockets, BffTakes(s) \/ BffLoses(s) PROVE TypeOK' /\ Streams' BY <1>5, BffKeeps
<1>6. ASSUME NEW n \in Listens, RouteRefuses(n) \/ RouteStreams(n) PROVE TypeOK' /\ Streams' BY <1>6, RouteKeeps
<1>7. CASE Forget BY <1>7, ForgetKeeps
<1>8. ASSUME NEW h \in Holds, GwOpens(h) \/ GwNotice(h) \/ GwCloses(h, TRUE) \/ GwCloses(h, FALSE)
      PROVE  TypeOK' /\ Streams'
  BY <1>8, GwKeeps
<1>9. CASE \/ Select \/ \E h \in Holds : Retry(h) \/ GivesOut(h) \/ GameEnds(h)
           \/ \E s \in Sockets : Cut(s)
           \/ UNCHANGED vars
  BY <1>9, QuietKeeps
<1> QED BY <1>1, <1>2, <1>3, <1>4, <1>5, <1>6, <1>7, <1>8, <1>9 DEF Next

-----------------------------------------------------------------------------
(* The held sessions.                                                      *)

\* What is held now is the last that was selected.
HeldInv == NeverWedged /\ ForgottenHoldsNothing /\ current \in {0, holds}

LEMMA HeldInit == Init => HeldInv
BY DEF Init, HeldInv, NeverWedged, ForgottenHoldsNothing

\* A socket's stream is let go: with the last of its subscribers goes the stream to
\* the game server, and no sooner.
LEMMA HeldLetsGo ==
  ASSUME TypeOK, HeldInv, NEW s \in Sockets, LetEventsGo(s), UNCHANGED <<current, holds, gameVars>>
  PROVE  HeldInv'
<1> DEFINE gone == {n \in Listens : events[s] = n /\ ~over[n]}
           left == {h \in Holds : subs[h] \cap gone # {} /\ subs[h] \subseteq gone}
<1>1. /\ subs' = [h \in Holds |-> subs[h] \ gone]
      /\ gw' = [h \in Holds |-> IF h \in left THEN Shut ELSE gw[h]]
      /\ retry' = [h \in Holds |-> IF h \in left THEN FALSE ELSE retry[h]]
  BY DEF LetEventsGo
<1>2. \A h \in left : h \in Holds /\ subs[h] \subseteq gone OBVIOUS
<1> HIDE DEF gone, left
<1>3. ForgottenHoldsNothing' BY <1>1 DEF HeldInv, ForgottenHoldsNothing
<1>4. NeverWedged'
  <2> SUFFICES ASSUME current # 0, subs'[current] # {}
               PROVE  gw'[current] # Shut \/ retry'[current] \/ ~known[current]
    BY DEF NeverWedged, gameVars
  <2>1. current \in Holds BY DEF TypeOK, Holds
  <2>2. current \notin left BY <1>1, <1>2, <2>1
  <2>3. subs[current] # {} BY <1>1, <2>1
  <2> QED BY <1>1, <2>1, <2>2, <2>3 DEF HeldInv, NeverWedged
<1> QED BY <1>3, <1>4 DEF HeldInv

\* The streams to the game server, and the sessions themselves.
LEMMA HeldSteps ==
  ASSUME TypeOK, HeldInv,
         \/ \E n \in Listens : RouteStreams(n)
         \/ Select \/ Forget
         \/ \E h \in Holds : \/ GwOpens(h) \/ GwNotice(h) \/ GwCloses(h, TRUE) \/ GwCloses(h, FALSE)
                             \/ Retry(h) \/ GivesOut(h) \/ GameEnds(h)
  PROVE  HeldInv'
<1>1. /\ subs \in [Holds -> SUBSET Listens] /\ gw \in [Holds -> GwStreams] /\ retry \in [Holds -> BOOLEAN]
      /\ known \in [Holds -> BOOLEAN]
      /\ current # 0 => current \in Holds
      /\ Shut.st = "shut" /\ holds \in 0..MaxHolds
  BY DEF TypeOK, Holds, GwStreams, Shut
<1>2. \A h \in Holds : Opening(h) # Shut BY DEF Opening, Shut
<1>3. \A h \in Holds : h # current => subs[h] = {} /\ gw[h] = Shut /\ ~retry[h] BY DEF HeldInv, ForgottenHoldsNothing
<1>4. ASSUME NEW n \in Listens, RouteStreams(n) PROVE HeldInv'
  <2>1. /\ current # 0 /\ OpenHeldStream(current) /\ subs' = [subs EXCEPT ![current] = subs[current] \cup {n}]
        /\ UNCHANGED <<current, holds, gameVars>>
    BY <1>4 DEF RouteStreams
  <2>2. \/ gw[current] # Shut /\ UNCHANGED <<gw, retry>>
        \/ gw' = [gw EXCEPT ![current] = Opening(current)] /\ retry' = [retry EXCEPT ![current] = FALSE]
    BY <2>1 DEF OpenHeldStream
  <2>3. gw'[current] # Shut BY <1>1, <1>2, <2>1, <2>2
  <2>4. \A h \in Holds : h # current => subs'[h] = subs[h] /\ gw'[h] = gw[h] /\ retry'[h] = retry[h]
    BY <1>1, <2>1, <2>2
  <2> QED BY <1>3, <2>1, <2>3, <2>4 DEF HeldInv, NeverWedged, ForgottenHoldsNothing
<1>5. CASE Select
  <2>1. /\ current = 0 /\ holds < MaxHolds /\ current' = holds + 1 /\ holds' = holds + 1
        /\ UNCHANGED <<subs, gw, retry>>
    BY <1>5 DEF Select
  <2>2. holds + 1 \in Holds /\ holds + 1 # 0 BY <1>1, <2>1, BoundsAssumption DEF Holds
  <2>3. \A h \in Holds : h # 0 BY DEF Holds
  <2> QED BY <1>3, <2>1, <2>2, <2>3 DEF HeldInv, NeverWedged, ForgottenHoldsNothing
<1>6. CASE Forget
  <2>1. /\ current # 0 /\ current' = 0 /\ subs' = [subs EXCEPT ![current] = {}]
        /\ gw' = [gw EXCEPT ![current] = Shut] /\ retry' = [retry EXCEPT ![current] = FALSE]
    BY <1>6 DEF Forget
  <2> QED BY <1>1, <1>3, <2>1 DEF HeldInv, NeverWedged, ForgottenHoldsNothing
<1>7. ASSUME NEW h \in Holds, GwOpens(h) \/ GwNotice(h) PROVE HeldInv'
  <2>1. /\ gw[h].st \in {"opening", "live"} /\ UNCHANGED <<current, holds, subs, retry, gameVars>>
        /\ \A k \in Holds : k # h => gw'[k] = gw[k]
        /\ gw'[h].st = "live"
    BY <1>1, <1>7 DEF GwOpens, GwNotice, GwStreams
  <2>2. h = current BY <1>1, <1>3, <2>1
  <2>3. gw'[h] # Shut BY <1>1, <2>1
  <2> QED BY <1>3, <2>1, <2>2, <2>3 DEF HeldInv, NeverWedged, ForgottenHoldsNothing
<1>8. ASSUME NEW h \in Holds, NEW refused \in BOOLEAN, GwCloses(h, refused) PROVE HeldInv'
  <2>1. /\ gw[h] # Shut /\ (refused => ~known[h]) /\ gw' = [gw EXCEPT ![h] = Shut]
        /\ UNCHANGED <<current, holds, subs, gameVars>>
        /\ IF subs[h] = {} THEN retry' = retry ELSE retry' = [retry EXCEPT ![h] = ~refused]
    BY <1>8 DEF GwCloses
  <2>2. h = current BY <1>3, <2>1
  <2> QED BY <1>1, <1>3, <2>1, <2>2 DEF HeldInv, NeverWedged, ForgottenHoldsNothing, gameVars
<1>9. ASSUME NEW h \in Holds, Retry(h) PROVE HeldInv'
  <2>1. /\ retry[h] /\ retry' = [retry EXCEPT ![h] = FALSE]
        /\ gw' = IF current = h /\ gw[h] = Shut /\ subs[h] # {} THEN [gw EXCEPT ![h] = Opening(h)] ELSE gw
        /\ UNCHANGED <<current, holds, subs, gameVars>>
    BY <1>9 DEF Retry
  <2>2. h = current BY <1>3, <2>1
  <2>3. ForgottenHoldsNothing' BY <1>1, <1>3, <2>1, <2>2 DEF ForgottenHoldsNothing
  <2>4. subs[h] # {} => gw'[h] # Shut BY <1>1, <1>2, <2>1, <2>2
  <2> QED BY <2>1, <2>2, <2>3, <2>4 DEF HeldInv, NeverWedged
<1>10. ASSUME NEW h \in Holds, GivesOut(h) \/ GameEnds(h) PROVE HeldInv'
  <2>1. UNCHANGED heldVars /\ \A k \in Holds : known'[k] => known[k] BY <1>1, <1>10 DEF GivesOut, GameEnds
  <2> QED BY <1>1, <2>1 DEF HeldInv, NeverWedged, ForgottenHoldsNothing, heldVars
<1> QED BY <1>4, <1>5, <1>6, <1>7, <1>8, <1>9, <1>10

LEMMA HeldKeeps ==
  ASSUME TypeOK, HeldInv, [Next]_vars
  PROVE  HeldInv'
<1>1. ASSUME UNCHANGED <<heldVars, gameVars>> PROVE HeldInv'
  BY <1>1 DEF HeldInv, NeverWedged, ForgottenHoldsNothing, heldVars, gameVars
<1>2. CASE Listen \/ CloseListener \/ HelloSaid \/ PageLoses \/ LetGo
  BY <1>1, <1>2 DEF Listen, CloseListener, HelloSaid, PageLoses, LetGo
<1>3. ASSUME NEW s \in Sockets, PageTakes(s) \/ Cut(s) PROVE HeldInv' BY <1>1, <1>3 DEF PageTakes, Cut
<1>4. ASSUME NEW s \in Sockets, BffTakes(s) \/ BffLoses(s) PROVE HeldInv'
  <2>1. LetEventsGo(s) /\ UNCHANGED <<current, holds, gameVars>>
    BY <1>4 DEF BffTakes, BffLoses, AttachEvents, SocketCloses
  <2> QED BY <2>1, HeldLetsGo
<1>5. ASSUME NEW n \in Listens, RouteRefuses(n) PROVE HeldInv' BY <1>1, <1>5 DEF RouteRefuses
<1>6. CASE UNCHANGED vars BY <1>1, <1>6 DEF vars
<1> QED BY <1>2, <1>3, <1>4, <1>5, <1>6, HeldSteps DEF Next

-----------------------------------------------------------------------------
(* What a listener is given leaves no notice out.                          *)

\* What a page counts by, of what stream n writes.
Counts(f, n) == f.k = "event" /\ f.n = n /\ f.what # "status"

\* A page that was given g has v, and no later, when it comes to place j of q.
Upto(q, n, g, j, v) ==
  \/ \E i \in 1..(j - 1) : Counts(q[i], n) /\ q[i].at = v /\ \A k \in (i + 1)..(j - 1) : ~Counts(q[k], n)
  \/ g \in {-1, v} /\ \A k \in 1..(j - 1) : ~Counts(q[k], n)

\* Every notice follows on the one before.
Chained(q, n, g) ==
  \A j \in DOMAIN q : Counts(q[j], n) /\ q[j].what = "notice" => Upto(q, n, g, j, q[j].at - 1)

\* A stream is asked for once, before there is one of its number.
AskedOnce ==
  \A s \in Sockets : \A i \in DOMAIN toBff[s] : toBff[s][i].k = "open" =>
    /\ of[toBff[s][i].n] = 0
    /\ \A t \in Sockets : \A j \in DOMAIN toBff[t] : toBff[t][j] = toBff[s][i] => t = s /\ j = i

\* A stream is subscribed to one held session, once its route has come so far.
Subscribed ==
  /\ \A n \in Listens : route[n] # "none" => of[n] # 0
  /\ \A h \in Holds : \A n \in subs[h] : route[n] = "streaming"
  /\ \A h, g \in Holds : subs[h] \cap subs[g] # {} => h = g

\* What is published next follows on the cursor, or is a snapshot.
CursorKept ==
  /\ \A h \in Holds : gw[h].st # "shut" /\ ~gw[h].snap => cursor[h] = gw[h].at
  /\ \A h \in Holds : gw[h].st = "live" => ~gw[h].snap

\* Nothing to count by is given before the stream is attached, nor written before it
\* is subscribed.
Unheard ==
  listener.n # 0 =>
    /\ ~listener.open => got = -1
    /\ route[listener.n] \in {"none", "auth"} =>
         got = -1 /\ \A s \in Sockets : \A i \in DOMAIN toPage[s] : ~Counts(toPage[s][i], listener.n)

\* The listener has, with what is on its way, all up to the cursor.
NoGap ==
  listener.n # 0 /\ line = "open" =>
    /\ Chained(toPage[sock], listener.n, got)
    /\ serving[sock] /\ ~cut[sock] /\ ~over[listener.n] =>
         \A h \in Holds : listener.n \in subs[h] =>
           Upto(toPage[sock], listener.n, got, Len(toPage[sock]) + 1, cursor[h])

Gapless == AskedOnce /\ Subscribed /\ CursorKept /\ Unheard /\ NoGap

\* Where only one of the sequences holds anything, that is what FlattenSeq() gives.
LEMMA FlattenOne ==
  ASSUME NEW W, NEW seqs \in Seq(Seq(W)), NEW m \in 1..Len(seqs),
         \A k \in 1..Len(seqs) : k # m => seqs[k] = <<>>
  PROVE  FlattenSeq(seqs) = seqs[m]
<1> DEFINE n == Len(seqs)
           f == CHOOSE f : Flattens(f, seqs, n)
<1>1. n \in Nat /\ n # 0 /\ n \in 1..Len(seqs) /\ m \in Nat /\ ~(n < m) BY LenProperties
<1>2. PICK g \in [1..n -> Seq(W)] : Flattens(g, seqs, n) BY <1>1, FlattensExists
<1>3. Flattens(f, seqs, n) BY <1>2
<1>4. FlattenSeq(seqs) = f[n] BY <1>1, FlattenDef
<1>5. seqs[m] \in Seq(W) BY ElementOfSeq
<1> HIDE DEF f
<1> DEFINE Bad == {k \in 1..n : f[k] # IF k < m THEN <<>> ELSE seqs[m]}
<1>6. Bad = {}
  <2> SUFFICES ASSUME Bad # {} PROVE FALSE OBVIOUS
  <2>0. Bad \subseteq Nat BY <1>1
  <2>1. PICK b \in Bad : \A k \in Bad : b <= k BY <2>0, LeastNat
  <2>2. b \in 1..n /\ b \in Nat /\ f[b] # IF b < m THEN <<>> ELSE seqs[m] BY <2>0
  <2>3. f[b] = IF b = 1 THEN seqs[b] ELSE f[b - 1] \o seqs[b] BY <1>3, <2>2 DEF Flattens
  <2>4. CASE b = 1
    <3>1. CASE m = 1 BY <2>2, <2>3, <2>4, <3>1
    <3>2. CASE m # 1 BY <1>1, <2>2, <2>3, <2>4, <3>2
    <3> QED BY <3>1, <3>2
  <2>5. CASE b # 1
    <3>1. b - 1 \in 1..n /\ ~(b <= b - 1) BY <1>1, <2>2, <2>5
    <3>2. f[b - 1] = IF b - 1 < m THEN <<>> ELSE seqs[m] BY <2>1, <3>1
    <3>3. CASE b = m
      <4>1. b - 1 < m BY <1>1, <3>3
      <4>2. f[b] = <<>> \o seqs[m] BY <2>3, <2>5, <3>2, <3>3, <4>1
      <4> QED BY <1>1, <1>5, <2>2, <3>3, <4>2, ConcatEmptySeq
    <3>4. CASE b # m
      <4>1. (b - 1 < m) <=> (b < m) BY <1>1, <2>2, <3>4
      <4>2. f[b] = f[b - 1] \o <<>> /\ f[b - 1] = IF b < m THEN <<>> ELSE seqs[m]
        BY <2>2, <2>3, <2>5, <3>2, <3>4, <4>1
      <4>3. f[b - 1] \in Seq(W) BY <1>5, <4>2
      <4> QED BY <2>2, <4>2, <4>3, ConcatEmptySeq
    <3> QED BY <3>3, <3>4
  <2> QED BY <2>4, <2>5
<1>7. f[n] = seqs[m]
  <2>1. n \in 1..n /\ n \notin Bad BY <1>1, <1>6
  <2> QED BY <1>1, <2>1
<1> QED BY <1>4, <1>7

LEMMA ConcatPlaces ==
  ASSUME NEW q \in Seq(ToPage), NEW w \in Seq(ToPage)
  PROVE  /\ q \o w \in Seq(ToPage) /\ Len(q \o w) = Len(q) + Len(w)
         /\ Len(q) \in Nat /\ Len(w) \in Nat
         /\ DOMAIN q = 1..Len(q) /\ DOMAIN w = 1..Len(w) /\ DOMAIN (q \o w) = 1..(Len(q) + Len(w))
         /\ \A i \in 1..Len(q) : (q \o w)[i] = q[i]
         /\ \A i \in (Len(q) + 1)..(Len(q) + Len(w)) : i - Len(q) \in 1..Len(w) /\ (q \o w)[i] = w[i - Len(q)]
<1>1. q \o w \in Seq(ToPage) BY ConcatProperties
<1>2. /\ Len(q \o w) = Len(q) + Len(w)
      /\ \A i \in 1..(Len(q) + Len(w)) : (q \o w)[i] = IF i <= Len(q) THEN q[i] ELSE w[i - Len(q)]
  BY ConcatProperties
<1>3. Len(q) \in Nat /\ Len(w) \in Nat BY LenProperties
<1>4. DOMAIN q = 1..Len(q) /\ DOMAIN w = 1..Len(w) /\ DOMAIN (q \o w) = 1..Len(q \o w) BY <1>1, LenProperties
<1> DEFINE c == q \o w
<1> HIDE DEF c
<1>5. \A i \in 1..Len(q) : i \in 1..(Len(q) + Len(w)) /\ i <= Len(q) BY <1>3
<1>6. \A i \in (Len(q) + 1)..(Len(q) + Len(w)) :
        i \in 1..(Len(q) + Len(w)) /\ ~(i <= Len(q)) /\ i - Len(q) \in 1..Len(w)
  BY <1>3
<1> QED BY <1>1, <1>2, <1>3, <1>4, <1>5, <1>6

\* What is written after a place does not change what is before it.
LEMMA UptoPrefix ==
  ASSUME NEW q \in Seq(ToPage), NEW w \in Seq(ToPage), NEW n, NEW g, NEW j \in 1..(Len(q) + 1), NEW v,
         Upto(q, n, g, j, v)
  PROVE  Upto(q \o w, n, g, j, v)
<1> DEFINE c == q \o w
<1>1. Len(q) \in Nat /\ \A i \in 1..(j - 1) : c[i] = q[i] BY ConcatPlaces
<1>2. \A i \in 1..(j - 1) : \A k \in (i + 1)..(j - 1) : k \in 1..(j - 1) BY <1>1
<1> HIDE DEF c
<1>3. Upto(c, n, g, j, v) BY <1>1, <1>2 DEF Upto
<1> QED BY <1>3 DEF c

\* What a page does not count by changes nothing of what it has.
LEMMA UptoSilent ==
  ASSUME NEW q \in Seq(ToPage), NEW w \in Seq(ToPage), NEW n, NEW g, NEW v, NEW j \in 1..(Len(w) + 1),
         \A k \in 1..(j - 1) : ~Counts(w[k], n),
         Upto(q, n, g, Len(q) + 1, v)
  PROVE  Upto(q \o w, n, g, Len(q) + j, v)
<1> DEFINE c == q \o w
           e == Len(q) + j
<1>1. Len(q) \in Nat /\ Len(w) \in Nat /\ \A i \in 1..Len(q) : c[i] = q[i] BY ConcatPlaces
<1>2. \A i \in (Len(q) + 1)..(Len(q) + Len(w)) : c[i] = w[i - Len(q)] BY ConcatPlaces
<1> HIDE DEF c
<1>3. e \in Nat /\ Len(q) + 1 - 1 = Len(q) /\ (Len(q) + 1) - 1 = Len(q) BY <1>1
<1>4. ASSUME NEW k \in (Len(q) + 1)..(e - 1) PROVE ~Counts(c[k], n)
  <2>1. k \in (Len(q) + 1)..(Len(q) + Len(w)) /\ k - Len(q) \in 1..(j - 1) BY <1>1
  <2> QED BY <1>2, <2>1
<1>5. CASE g \in {-1, v} /\ \A k \in 1..Len(q) : ~Counts(q[k], n)
  <2>1. ASSUME NEW k \in 1..(e - 1) PROVE ~Counts(c[k], n)
    <3>1. k \in 1..Len(q) \/ k \in (Len(q) + 1)..(e - 1) BY <1>1
    <3> QED BY <1>1, <1>4, <1>5, <3>1
  <2>2. Upto(c, n, g, e, v) BY ONLY <1>5, <2>1 DEF Upto
  <2> QED BY <2>2 DEF c
<1>6. CASE \E i \in 1..Len(q) : Counts(q[i], n) /\ q[i].at = v /\ \A k \in (i + 1)..Len(q) : ~Counts(q[k], n)
  <2>1. PICK i \in 1..Len(q) : Counts(q[i], n) /\ q[i].at = v /\ \A k \in (i + 1)..Len(q) : ~Counts(q[k], n)
    BY <1>6
  <2>2. i \in 1..(e - 1) /\ Counts(c[i], n) /\ c[i].at = v BY <1>1, <2>1
  <2>3. ASSUME NEW k \in (i + 1)..(e - 1) PROVE ~Counts(c[k], n)
    <3>1. (k \in 1..Len(q) /\ k \in (i + 1)..Len(q)) \/ k \in (Len(q) + 1)..(e - 1) BY <1>1
    <3> QED BY <1>1, <1>4, <2>1, <3>1
  <2>4. Upto(c, n, g, e, v) BY ONLY <2>2, <2>3 DEF Upto
  <2> QED BY <2>4 DEF c
<1> QED BY <1>3, <1>5, <1>6 DEF Upto

\* What is written keeps every notice following on the one before, where nothing but the
\* last of it is counted by, and that follows on what was there.
LEMMA ChainGrows ==
  ASSUME NEW q \in Seq(ToPage), NEW w \in Seq(ToPage), NEW n, NEW g,
         Chained(q, n, g),
         \A k \in 1..Len(w) : Counts(w[k], n) =>
           k = Len(w) /\ (w[k].what = "notice" => Upto(q, n, g, Len(q) + 1, w[k].at - 1))
  PROVE  Chained(q \o w, n, g)
<1> DEFINE c == q \o w
<1>1. /\ Len(q) \in Nat /\ Len(w) \in Nat /\ DOMAIN c = 1..(Len(q) + Len(w)) /\ DOMAIN q = 1..Len(q)
      /\ \A i \in 1..Len(q) : c[i] = q[i]
      /\ \A i \in (Len(q) + 1)..(Len(q) + Len(w)) : i - Len(q) \in 1..Len(w) /\ c[i] = w[i - Len(q)]
  BY ConcatPlaces
<1>2. \A v : \A j \in 1..(Len(q) + 1) : Upto(q, n, g, j, v) => Upto(c, n, g, j, v) BY UptoPrefix
<1>3. \A v : \A j \in 1..(Len(w) + 1) :
        (\A k \in 1..(j - 1) : ~Counts(w[k], n)) /\ Upto(q, n, g, Len(q) + 1, v)
          => Upto(c, n, g, Len(q) + j, v)
  BY UptoSilent
<1> HIDE DEF c
<1>4. ASSUME NEW j \in DOMAIN c, Counts(c[j], n), c[j].what = "notice" PROVE Upto(c, n, g, j, c[j].at - 1)
  <2>1. CASE j \in 1..Len(q)
    <3>1. j \in 1..(Len(q) + 1) BY <1>1, <2>1
    <3> QED BY <1>1, <1>2, <1>4, <2>1, <3>1 DEF Chained
  <2>2. CASE j \in (Len(q) + 1)..(Len(q) + Len(w))
    <3> DEFINE k == j - Len(q)
    <3>1. k \in 1..Len(w) /\ c[j] = w[k] /\ Len(q) + k = j /\ k \in 1..(Len(w) + 1) BY <1>1, <2>2
    <3>2. k = Len(w) /\ Upto(q, n, g, Len(q) + 1, w[k].at - 1) BY <1>4, <3>1
    <3>3. \A i \in 1..(k - 1) : i \in 1..Len(w) /\ i # Len(w) BY <1>1, <3>2
    <3>4. \A i \in 1..(k - 1) : ~Counts(w[i], n) BY <3>3
    <3> HIDE DEF k
    <3> QED BY <1>3, <3>1, <3>2, <3>4
  <2> QED BY <1>1, <2>1, <2>2
<1>5. Chained(c, n, g) BY <1>4 DEF Chained
<1> QED BY <1>5 DEF c

\* The page has what it was given last.
LEMMA UptoLast ==
  ASSUME NEW q \in Seq(ToPage), NEW w \in Seq(ToPage), NEW n, NEW g, Len(w) # 0, Counts(w[Len(w)], n)
  PROVE  Upto(q \o w, n, g, Len(q) + Len(w) + 1, w[Len(w)].at)
<1> DEFINE c == q \o w
           e == Len(q) + Len(w)
<1>1. /\ Len(q) \in Nat /\ Len(w) \in Nat
      /\ \A i \in (Len(q) + 1)..(Len(q) + Len(w)) : c[i] = w[i - Len(q)]
  BY ConcatPlaces
<1> HIDE DEF c
<1>2. e \in (Len(q) + 1)..(Len(q) + Len(w)) /\ e - Len(q) = Len(w) /\ e \in 1..((e + 1) - 1) BY <1>1
<1>3. Counts(c[e], n) /\ c[e].at = w[Len(w)].at BY <1>1, <1>2
<1>4. (e + 1)..((e + 1) - 1) = {} BY <1>1
<1>5. Upto(c, n, g, e + 1, w[Len(w)].at) BY ONLY <1>2, <1>3, <1>4 DEF Upto
<1> QED BY <1>5 DEF c

\* The first is given, or not counted by.
LEMMA UptoTail ==
  ASSUME NEW q \in Seq(ToPage), q # <<>>, NEW n, NEW g, NEW h, NEW j \in 2..(Len(q) + 1), NEW v,
         Upto(q, n, g, j, v),
         \/ Counts(Head(q), n) /\ h \in {-1, Head(q).at}
         \/ ~Counts(Head(q), n) /\ h = g
  PROVE  Upto(Tail(q), n, h, j - 1, v)
<1> DEFINE p == Tail(q)
<1>1. /\ Len(q) \in Nat /\ Head(q) = q[1] /\ Len(p) = Len(q) - 1
      /\ DOMAIN p = 1..Len(p) /\ \A i \in DOMAIN p : p[i] = q[i + 1]
  BY TailShifts
<1> HIDE DEF p
<1>2. j \in Nat /\ \A i \in 1..((j - 1) - 1) : p[i] = q[i + 1] /\ i + 1 \in 1..(j - 1) /\ i + 1 # 1
  BY <1>1
<1>3. CASE \E i \in 1..(j - 1) : i # 1 /\ Counts(q[i], n) /\ q[i].at = v /\ \A k \in (i + 1)..(j - 1) : ~Counts(q[k], n)
  <2>1. PICK i \in 1..(j - 1) : i # 1 /\ Counts(q[i], n) /\ q[i].at = v /\ \A k \in (i + 1)..(j - 1) : ~Counts(q[k], n)
    BY <1>3
  <2>2. i - 1 \in 1..((j - 1) - 1) /\ (i - 1) + 1 = i BY <1>2, <2>1
  <2>3. Counts(p[i - 1], n) /\ p[i - 1].at = v BY <1>2, <2>1, <2>2
  <2>4. ASSUME NEW k \in ((i - 1) + 1)..((j - 1) - 1) PROVE ~Counts(p[k], n)
    <3>1. k \in 1..((j - 1) - 1) /\ k + 1 \in (i + 1)..(j - 1) BY <1>2, <2>1
    <3> QED BY <1>2, <2>1, <3>1
  <2>5. Upto(p, n, h, j - 1, v) BY ONLY <2>2, <2>3, <2>4 DEF Upto
  <2> QED BY <2>5 DEF p
<1>4. CASE h \in {-1, v} /\ \A k \in 2..(j - 1) : ~Counts(q[k], n)
  <2>1. ASSUME NEW k \in 1..((j - 1) - 1) PROVE ~Counts(p[k], n)
    <3>1. k + 1 \in 2..(j - 1) BY <1>2
    <3> QED BY <1>2, <1>4, <3>1
  <2>2. Upto(p, n, h, j - 1, v) BY ONLY <1>4, <2>1 DEF Upto
  <2> QED BY <2>2 DEF p
<1>5. CASE \E i \in 1..(j - 1) : Counts(q[i], n) /\ q[i].at = v /\ \A k \in (i + 1)..(j - 1) : ~Counts(q[k], n)
  <2>1. PICK i \in 1..(j - 1) : Counts(q[i], n) /\ q[i].at = v /\ \A k \in (i + 1)..(j - 1) : ~Counts(q[k], n)
    BY <1>5
  <2>2. CASE i = 1
    <3>1. h \in {-1, v} BY <1>1, <2>1, <2>2
    <3>2. \A k \in 2..(j - 1) : ~Counts(q[k], n) BY <2>1, <2>2
    <3> QED BY <1>4, <3>1, <3>2
  <2>3. CASE i # 1 BY <1>3, <2>1, <2>3
  <2> QED BY <2>2, <2>3
<1>6. CASE g \in {-1, v} /\ \A k \in 1..(j - 1) : ~Counts(q[k], n)
  <2>1. 1 \in 1..(j - 1) /\ \A k \in 2..(j - 1) : k \in 1..(j - 1) BY <1>2
  <2>2. ~Counts(Head(q), n) BY <1>1, <1>6, <2>1
  <2> QED BY <1>4, <1>6, <2>1, <2>2
<1> QED BY <1>5, <1>6 DEF Upto

LEMMA ChainTail ==
  ASSUME NEW q \in Seq(ToPage), q # <<>>, NEW n, NEW g, NEW h,
         Chained(q, n, g),
         \/ Counts(Head(q), n) /\ h \in {-1, Head(q).at}
         \/ ~Counts(Head(q), n) /\ h = g
  PROVE  Chained(Tail(q), n, h)
<1> DEFINE p == Tail(q)
<1>1. /\ Len(q) \in Nat /\ Len(p) = Len(q) - 1 /\ DOMAIN q = 1..Len(q)
      /\ DOMAIN p = 1..Len(p) /\ \A i \in DOMAIN p : p[i] = q[i + 1]
  BY TailShifts
<1>2. \A v : \A j \in 2..(Len(q) + 1) : Upto(q, n, g, j, v) => Upto(p, n, h, j - 1, v) BY UptoTail
<1> HIDE DEF p
<1>3. ASSUME NEW j \in DOMAIN p, Counts(p[j], n), p[j].what = "notice" PROVE Upto(p, n, h, j, p[j].at - 1)
  <2>1. j + 1 \in DOMAIN q /\ j + 1 \in 2..(Len(q) + 1) /\ (j + 1) - 1 = j /\ p[j] = q[j + 1] BY <1>1
  <2>2. Upto(q, n, g, j + 1, p[j].at - 1) BY <1>3, <2>1 DEF Chained
  <2>3. Upto(p, n, h, (j + 1) - 1, p[j].at - 1) BY <1>2, <2>1, <2>2
  <2> QED BY <2>1, <2>3
<1>4. Chained(p, n, h) BY <1>3 DEF Chained
<1> QED BY <1>4 DEF p

LEMMA GaplessInit == Init => Gapless
<1> SUFFICES ASSUME Init PROVE Gapless OBVIOUS
<1>1. listener.n = 0 /\ \A s \in Sockets : DOMAIN toBff[s] = {} BY DEF Init, NoListener
<1>2. \A h \in Holds : gw[h].st = "shut" /\ subs[h] = {} BY DEF Init, Shut
<1>3. AskedOnce BY <1>1 DEF AskedOnce
<1>4. Subscribed BY <1>2 DEF Init, Subscribed
<1>5. CursorKept BY <1>2 DEF CursorKept
<1>6. Unheard /\ NoGap BY <1>1 DEF Unheard, NoGap
<1> QED BY <1>3, <1>4, <1>5, <1>6 DEF Gapless

LEMMA AskedOnceSends ==
  ASSUME TypeOK, AskedOnce, NEW s \in Sockets, NEW frame \in ToBff, SendBff(s, frame), of' = of,
         frame.k = "open" => /\ of[frame.n] = 0
                             /\ \A t \in Sockets : \A i \in DOMAIN toBff[t] : toBff[t][i] # frame
  PROVE  AskedOnce'
<1>1. \A t \in Sockets : \A i \in DOMAIN toBff'[t] :
        \/ i \in DOMAIN toBff[t] /\ toBff'[t][i] = toBff[t][i]
        \/ t = s /\ i = Len(toBff'[s]) /\ toBff'[t][i] = frame
  BY SendLast
<1>2. ASSUME NEW t \in Sockets, NEW i \in DOMAIN toBff'[t], toBff'[t][i].k = "open"
      PROVE  of'[toBff'[t][i].n] = 0
  BY <1>1, <1>2 DEF AskedOnce
<1>3. ASSUME NEW t \in Sockets, NEW i \in DOMAIN toBff'[t], toBff'[t][i].k = "open",
             NEW u \in Sockets, NEW j \in DOMAIN toBff'[u], toBff'[u][j] = toBff'[t][i]
      PROVE  u = t /\ j = i
  <2>1. CASE i \in DOMAIN toBff[t] /\ toBff'[t][i] = toBff[t][i]
    <3>1. CASE j \in DOMAIN toBff[u] /\ toBff'[u][j] = toBff[u][j] BY <1>3, <2>1, <3>1 DEF AskedOnce
    <3>2. CASE toBff'[u][j] = frame BY <1>3, <2>1, <3>2
    <3> QED BY <1>1, <3>1, <3>2
  <2>2. CASE t = s /\ i = Len(toBff'[s]) /\ toBff'[t][i] = frame
    <3>1. CASE j \in DOMAIN toBff[u] /\ toBff'[u][j] = toBff[u][j] BY <1>3, <2>2, <3>1
    <3>2. CASE u = s /\ j = Len(toBff'[s]) BY <2>2, <3>2
    <3> QED BY <1>1, <3>1, <3>2
  <2> QED BY <1>1, <2>1, <2>2
<1> QED BY <1>2, <1>3 DEF AskedOnce

LEMMA AskedOnceTakes ==
  ASSUME TypeOK, Streams, AskedOnce, NEW s \in Sockets, toBff[s] # <<>>,
         toBff' = [toBff EXCEPT ![s] = Tail(toBff[s])],
         of' = of \/ \E m \in Listens : Head(toBff[s]) = Open(m) /\ of' = [of EXCEPT ![m] = s]
  PROVE  AskedOnce'
<1> DEFINE at(t, i) == IF t = s THEN i + 1 ELSE i
<1>1. /\ toBff \in [Sockets -> Seq(ToBff)] /\ toBff[s] \in Seq(ToBff)
      /\ toBff'[s] = Tail(toBff[s]) /\ \A t \in Sockets : t # s => toBff'[t] = toBff[t]
  BY DEF TypeOK
<1>2. /\ Head(toBff[s]) = toBff[s][1] /\ 1 \in DOMAIN toBff[s] /\ Len(toBff[s]) \in Nat
      /\ DOMAIN toBff[s] = 1..Len(toBff[s])
      /\ DOMAIN Tail(toBff[s]) = 1..Len(Tail(toBff[s])) /\ Len(Tail(toBff[s])) = Len(toBff[s]) - 1
      /\ \A i \in DOMAIN Tail(toBff[s]) : i + 1 \in DOMAIN toBff[s] /\ Tail(toBff[s])[i] = toBff[s][i + 1]
  BY <1>1, TailShifts
<1>3. \A t \in Sockets : \A i \in DOMAIN toBff'[t] : at(t, i) \in DOMAIN toBff[t] /\ toBff'[t][i] = toBff[t][at(t, i)]
  BY <1>1, <1>2
<1>4. \A i \in DOMAIN toBff'[s] : at(s, i) # 1 /\ i \in Nat BY <1>1, <1>2
<1>5. \A t \in Sockets : \A i, j \in DOMAIN toBff'[t] : at(t, i) = at(t, j) => i = j
  <2> SUFFICES ASSUME NEW t \in Sockets, NEW i \in DOMAIN toBff'[t], NEW j \in DOMAIN toBff'[t], at(t, i) = at(t, j)
               PROVE  i = j
    OBVIOUS
  <2>1. CASE t = s
    <3>1. i + 1 = j + 1 /\ i \in Nat /\ j \in Nat BY <1>4, <2>1
    <3> QED BY <3>1
  <2>2. CASE t # s BY <2>2
  <2> QED BY <2>1, <2>2
<1> HIDE DEF at
<1>6. ASSUME NEW t \in Sockets, NEW i \in DOMAIN toBff'[t], toBff'[t][i].k = "open"
      PROVE  of'[toBff'[t][i].n] = 0
  <2> DEFINE f == toBff[t][at(t, i)]
  <2>1. f = toBff'[t][i] /\ f.k = "open" /\ of[f.n] = 0 /\ f \in ToBff
    <3>1. toBff[t] \in Seq(ToBff) BY <1>1
    <3>2. f \in ToBff BY <1>3, <3>1, ElementOfSeq, LenProperties
    <3> QED BY <1>3, <1>6, <3>2 DEF AskedOnce
  <2>2. ASSUME NEW m \in Listens, Head(toBff[s]) = Open(m), of' = [of EXCEPT ![m] = s] PROVE of'[f.n] = 0
    <3>1. CASE f.n = m
      <4>1. f = Open(m) BY <2>1, <3>1 DEF ToBff, Open
      <4>2. f = toBff[s][1] BY <1>2, <2>2, <4>1
      <4>3. t = s /\ at(t, i) = 1 BY <1>2, <1>3, <2>1, <4>2 DEF AskedOnce
      <4> QED BY <1>4, <4>3
    <3>2. CASE f.n # m
      <4>1. f.n \in 1..listens BY <1>3, <2>1 DEF Streams, AskedFor
      <4>2. listens \in 0..MaxListens BY DEF TypeOK
      <4>3. listens <= MaxListens /\ listens \in Nat /\ MaxListens \in Nat BY <4>2, BoundsAssumption
      <4> HIDE DEF f
      <4>4. f.n \in Listens BY <4>1, <4>3 DEF Listens
      <4> QED BY <2>1, <2>2, <3>2, <4>4 DEF TypeOK
    <3> QED BY <3>1, <3>2
  <2> QED BY <2>1, <2>2
<1>7. ASSUME NEW t \in Sockets, NEW i \in DOMAIN toBff'[t], toBff'[t][i].k = "open",
             NEW u \in Sockets, NEW j \in DOMAIN toBff'[u], toBff'[u][j] = toBff'[t][i]
      PROVE  u = t /\ j = i
  <2>1. u = t /\ at(u, j) = at(t, i) BY <1>3, <1>7 DEF AskedOnce
  <2> QED BY <1>5, <2>1
<1> QED BY <1>6, <1>7 DEF AskedOnce

\* A listening that begins, or is asked for now, has no stream and was given nothing.
LEMMA Asks ==
  ASSUME TypeOK, Streams, Unheard, Listen \/ HelloSaid
  PROVE  /\ UNCHANGED <<toPage, cut, of, route, over, subs, gw, cursor>>
         /\ \/ listener' = NoListener /\ toBff' = toBff
            \/ \E n \in Listens :
                 /\ listener' = [n |-> n, open |-> FALSE] /\ got' = -1 /\ of[n] = 0
                 /\ \A t \in Sockets : \A i \in DOMAIN toBff[t] : toBff[t][i] # Open(n)
                 /\ toBff' = toBff \/ (sock' \in Sockets /\ SendBff(sock', Open(n)))
<1>1. CASE Listen
  <2> DEFINE n == listens + 1
  <2>1. n \in Listens /\ n \in Nat /\ listens \in Nat /\ ~(n <= listens)
    BY <1>1, BoundsAssumption DEF Listen, TypeOK, Listens
  <2>2. got' = -1 /\ UNCHANGED <<toPage, cut, of, route, over, subs, gw, cursor>> /\ listener = NoListener
    BY <1>1 DEF Listen, bffVars, heldVars
  <2>3. of[n] = 0 BY <2>1 DEF Streams, Listening
  <2> HIDE DEF n
  <2>4. \A t \in Sockets : \A i \in DOMAIN toBff[t] : toBff[t][i] # Open(n)
    <3>1. n \notin 1..listens /\ Open(n).k = "open" /\ Open(n).n = n BY <2>1 DEF Open
    <3> QED BY <3>1 DEF Streams, AskedFor
  <2>5. line = "open" => sock \in Sockets BY DEF Streams, Listening
  <2>6. \/ listener' = NoListener /\ toBff' = toBff
        \/ /\ listener' = [n |-> n, open |-> FALSE]
           /\ toBff' = toBff \/ (line = "open" /\ sock' = sock /\ SendBff(sock', Open(n)))
    BY <1>1 DEF Listen, AskForPushes, n, SendBff
  <2> QED BY <2>1, <2>2, <2>3, <2>4, <2>5, <2>6
<1>2. CASE HelloSaid
  <2> DEFINE n == listener.n
  <2>1. /\ line = "connecting" /\ sock \in Sockets
        /\ UNCHANGED <<got, sock, toPage, cut, of, route, over, subs, gw, cursor>>
    BY <1>2 DEF HelloSaid, Streams, Listening, heldVars
  <2>2. /\ listener \in [n : 0..MaxListens, open : BOOLEAN]
        /\ NoListener = [n |-> 0, open |-> FALSE]
        /\ (listener.open => n # 0)
    BY DEF TypeOK, Streams, Listening, NoListener
  <2>3. listener # NoListener => n \in Listens
    <3>1. n # 0 => n \in 1..MaxListens BY <2>2
    <3>2. CASE n = 0
      <4>1. ~listener.open BY <2>2, <3>2
      <4>2. listener = [n |-> 0, open |-> FALSE] BY <2>2, <3>2, <4>1
      <4> QED BY <2>2, <4>2
    <3> QED BY <3>1, <3>2 DEF Listens
  <2>4. \/ UNCHANGED <<listener, toBff>> /\ listener = NoListener
        \/ /\ n \in Listens /\ listener' = NoListener /\ toBff' = toBff
        \/ /\ n \in Listens /\ listener' = [n |-> n, open |-> FALSE] /\ SendBff(sock, Open(n))
    BY <1>2, <2>3 DEF HelloSaid, AskForPushes
  <2>5. n # 0 => of[n] = 0 /\ \A t \in Sockets : \A i \in DOMAIN toBff[t] : toBff[t][i] # Open(n)
    BY <2>1 DEF Streams, AskedLast
  <2>6. n # 0 => ~listener.open BY <2>5 DEF Streams, WritesOnceAttached
  <2>7. n # 0 => got = -1 BY <2>6 DEF Unheard
  <2>8. \A m \in Listens : m # 0 BY DEF Listens
  <2> HIDE DEF n
  <2> QED BY <2>1, <2>4, <2>5, <2>7, <2>8
<1> QED BY <1>1, <1>2

LEMMA GaplessAsks ==
  ASSUME TypeOK, Streams, Gapless, Listen \/ HelloSaid
  PROVE  Gapless'
<1>1. /\ UNCHANGED <<toPage, cut, of, route, over, subs, gw, cursor>>
      /\ \/ listener' = NoListener /\ toBff' = toBff
         \/ \E n \in Listens :
              /\ listener' = [n |-> n, open |-> FALSE] /\ got' = -1 /\ of[n] = 0
              /\ \A t \in Sockets : \A i \in DOMAIN toBff[t] : toBff[t][i] # Open(n)
              /\ toBff' = toBff \/ (sock' \in Sockets /\ SendBff(sock', Open(n)))
  BY Asks DEF Gapless
<1>2. Subscribed' /\ CursorKept' BY <1>1 DEF Gapless, Subscribed, CursorKept
<1>3. CASE listener' = NoListener /\ toBff' = toBff
  <2>1. listener'.n = 0 BY <1>3 DEF NoListener
  <2>2. AskedOnce' BY <1>1, <1>3 DEF Gapless, AskedOnce
  <2> QED BY <1>2, <2>1, <2>2 DEF Gapless, Unheard, NoGap
<1>4. ASSUME NEW n \in Listens, listener' = [n |-> n, open |-> FALSE], got' = -1, of[n] = 0,
             \A t \in Sockets : \A i \in DOMAIN toBff[t] : toBff[t][i] # Open(n),
             toBff' = toBff \/ (sock' \in Sockets /\ SendBff(sock', Open(n)))
      PROVE  Gapless'
  <2>1. Open(n) \in ToBff /\ Open(n).n = n BY DEF Open, ToBff, Listens
  <2>2. AskedOnce'
    <3>1. CASE toBff' = toBff BY <1>1, <3>1 DEF Gapless, AskedOnce
    <3>2. CASE sock' \in Sockets /\ SendBff(sock', Open(n)) BY <1>1, <1>4, <2>1, <3>2, AskedOnceSends DEF Gapless
    <3> QED BY <1>4, <3>1, <3>2
  <2>3. \A s \in Sockets : \A i \in DOMAIN toPage[s] : ~Counts(toPage[s][i], n)
    BY <1>4 DEF Streams, WritesOnceAttached, Counts
  <2>4. Unheard' BY <1>1, <1>4, <2>3 DEF Unheard
  <2>5. NoGap'
    <3> SUFFICES ASSUME line' = "open" PROVE /\ Chained(toPage'[sock'], n, -1)
                                            /\ \A h \in Holds : n \notin subs'[h]
      BY <1>4 DEF NoGap
    <3>1. sock' \in Sockets
      <4>1. Streams' BY StepKeeps DEF Next
      <4> QED BY <4>1 DEF Streams, Listening
    <3>2. Chained(toPage'[sock'], n, -1) BY <1>1, <2>3, <3>1 DEF Chained
    <3>3. route[n] = "none" BY <1>4 DEF Gapless, Subscribed
    <3> QED BY <1>1, <3>2, <3>3 DEF Gapless, Subscribed
  <2> QED BY <1>2, <2>2, <2>4, <2>5 DEF Gapless
<1> QED BY <1>1, <1>3, <1>4

LEMMA GaplessLeaves ==
  ASSUME TypeOK, Streams, Gapless, CloseListener \/ PageLoses \/ LetGo
  PROVE  Gapless'
<1>1. listener'.n = 0 /\ UNCHANGED <<of, route, subs, gw, cursor>>
  BY DEF CloseListener, PageLoses, LetGo, NoListener, bffVars, heldVars
<1>2. \/ toBff' = toBff
      \/ line = "open" /\ (SendBff(sock, Close) \/ SendBff(sock, Bye))
  BY DEF CloseListener, PageLoses, LetGo
<1>3. line = "open" => sock \in Sockets BY DEF Streams, Listening
<1>4. Close \in ToBff /\ Close.k # "open" /\ Bye \in ToBff /\ Bye.k # "open"
  BY BoundsAssumption DEF Close, Bye, ToBff
<1>5. AskedOnce'
  <2>1. CASE toBff' = toBff BY <1>1, <2>1 DEF Gapless, AskedOnce
  <2>2. CASE line = "open" /\ (SendBff(sock, Close) \/ SendBff(sock, Bye))
    BY <1>1, <1>3, <1>4, <2>2, AskedOnceSends DEF Gapless
  <2> QED BY <1>2, <2>1, <2>2
<1> QED BY <1>1, <1>5 DEF Gapless, Subscribed, CursorKept, Unheard, NoGap

LEMMA GaplessTakes ==
  ASSUME TypeOK, Streams, Gapless, NEW s \in Sockets, PageTakes(s)
  PROVE  Gapless'
<1> DEFINE f == Head(toPage[s])
           n == listener.n
           q == toPage[s]
<1>1. /\ q # <<>> /\ q \in Seq(ToPage) /\ toPage' = [toPage EXCEPT ![s] = Tail(q)]
      /\ UNCHANGED <<line, sock, toBff, cut, of, route, over, subs, gw, cursor, serving>>
      /\ toPage \in [Sockets -> Seq(ToPage)]
  BY DEF PageTakes, TypeOK, bffVars, heldVars
<1>2. AskedOnce' /\ Subscribed' /\ CursorKept' BY <1>1 DEF Gapless, AskedOnce, Subscribed, CursorKept
<1>3. \/ /\ listener' = listener /\ got' = got
         /\ ~(s = sock /\ line = "open" /\ n # 0 /\ listener.open /\ Counts(f, n))
      \/ /\ listener' = [n |-> n, open |-> TRUE] /\ got' = got /\ ~Counts(f, n) /\ n # 0
      \/ listener' = NoListener
      \/ /\ listener' = listener /\ got' = f.at /\ Counts(f, n) /\ s = sock /\ line = "open" /\ listener.open /\ n # 0
  <2>1. listener \in [n : 0..MaxListens, open : BOOLEAN] BY DEF TypeOK
  <2>2. listener # NoListener /\ listener.open => n # 0 BY DEF Streams, Listening
  <2>3. f = toPage[s][1] /\ 1 \in DOMAIN toPage[s] /\ f \in ToPage BY <1>1, TailShifts
  <2>4. s = sock /\ line = "open" /\ n # 0 /\ listener.open /\ f.k = "event" => f.n = n
    BY <2>3 DEF Streams, OwnFramesOnly
  <2>5. NoListener.n = 0 BY DEF NoListener
  <2>6. listener' = [listener EXCEPT !.open = TRUE] => listener' = [n |-> n, open |-> TRUE] BY <2>1
  <2>7. f.k \in {"attached", "ended", "event"} /\ f.n # 0 BY <2>3 DEF ToPage, Listens
  <2> HIDE DEF f
  <2>8. CASE f.k = "attached" BY <2>5, <2>6, <2>7, <2>8 DEF PageTakes, f, Counts
  <2>9. CASE f.k = "ended" BY <2>5, <2>7, <2>9 DEF PageTakes, f, Counts
  <2>10. CASE f.k = "event" /\ s = sock /\ line = "open" /\ listener # NoListener /\ listener.open /\ f.what # "status"
    <3>1. f.n = n /\ n # 0 BY <2>2, <2>4, <2>10
    <3> QED BY <2>10, <3>1 DEF PageTakes, f, Counts
  <2>11. CASE f.k = "event" /\ ~(s = sock /\ line = "open" /\ listener # NoListener /\ listener.open /\ f.what # "status")
    BY <2>5, <2>11 DEF PageTakes, f, Counts
  <2> QED BY <2>7, <2>8, <2>9, <2>10, <2>11
<1>4. CASE listener' = NoListener
  <2>1. listener'.n = 0 BY <1>4 DEF NoListener
  <2> QED BY <1>2, <2>1 DEF Gapless, Unheard, NoGap
<1>5. CASE listener'.n = n /\ n # 0 /\ (listener.open => listener'.open)
  <2>0. n \in Listens BY <1>5 DEF TypeOK, Listens
  <2>1. /\ Len(q) \in Nat /\ Len(Tail(q)) = Len(q) - 1 /\ 1 \in DOMAIN q /\ Head(q) = q[1] /\ DOMAIN q = 1..Len(q)
        /\ \A i \in DOMAIN Tail(q) : i + 1 \in DOMAIN q /\ Tail(q)[i] = q[i + 1]
    BY <1>1, TailShifts
  <2>2. got' = got \/ (got' = f.at /\ Counts(f, n) /\ s = sock)
    BY <1>3, <1>5 DEF NoListener
  <2>3. f = q[1] BY <2>1
  <2> HIDE DEF f
  <2>4. ~listener'.open => got' = -1
    <3>1. ~listener'.open => ~listener.open /\ got' = got BY <1>3, <1>5 DEF NoListener
    <3> QED BY <1>5, <3>1 DEF Gapless, Unheard
  <2>5. ASSUME route[n] \in {"none", "auth"}
        PROVE  got' = -1 /\ \A t \in Sockets : \A i \in DOMAIN toPage'[t] : ~Counts(toPage'[t][i], n)
    <3>1. got = -1 /\ \A t \in Sockets : \A i \in DOMAIN toPage[t] : ~Counts(toPage[t][i], n)
      BY <1>5, <2>5 DEF Gapless, Unheard
    <3>2. ~Counts(f, n) BY <2>1, <2>3, <3>1
    <3>3. \A t \in Sockets : toPage'[t] = IF t = s THEN Tail(q) ELSE toPage[t] BY <1>1
    <3>4. \A i \in DOMAIN Tail(q) : ~Counts(Tail(q)[i], n) BY <2>1, <3>1
    <3> HIDE DEF q
    <3> QED BY <2>2, <3>1, <3>2, <3>3, <3>4
  <2>6. Unheard'
    <3>1. listener'.n = n /\ route' = route BY <1>1, <1>5
    <3> HIDE DEF n
    <3> QED BY <2>4, <2>5, <3>1 DEF Unheard
  <2>7. NoGap'
    <3> SUFFICES ASSUME line = "open"
                 PROVE  /\ Chained(toPage'[sock], n, got')
                        /\ serving[sock] /\ ~cut[sock] /\ ~over[n] =>
                             \A h \in Holds : n \in subs[h] =>
                               Upto(toPage'[sock], n, got', Len(toPage'[sock]) + 1, cursor[h])
      BY <1>1, <1>5 DEF NoGap
    <3>1. /\ Chained(toPage[sock], n, got)
          /\ serving[sock] /\ ~cut[sock] /\ ~over[n] =>
               \A h \in Holds : n \in subs[h] =>
                 Upto(toPage[sock], n, got, Len(toPage[sock]) + 1, cursor[h])
      BY <1>5 DEF Gapless, NoGap
    <3>2. CASE s # sock
      <4>1. toPage'[sock] = toPage[sock] /\ got' = got
        <5>1. sock \in Sockets BY DEF Streams, Listening
        <5> QED BY <1>1, <2>2, <3>2, <5>1
      <4> QED BY <3>1, <4>1
    <3>3. CASE s = sock
      <4>1. toPage'[sock] = Tail(q) /\ toPage[sock] = q BY <1>1, <3>3
      <4>2. \/ Counts(Head(q), n) /\ got' \in {-1, Head(q).at}
            \/ ~Counts(Head(q), n) /\ got' = got
        <5>1. CASE Counts(f, n) /\ got' = got /\ got' # f.at
          <6>1. ~listener.open BY <1>3, <1>5, <3>3, <5>1 DEF NoListener, f
          <6> QED BY <1>5, <2>1, <2>3, <5>1, <6>1 DEF Gapless, Unheard
        <5> QED BY <2>1, <2>2, <2>3, <5>1
      <4>3. Chained(Tail(q), n, got') BY <1>1, <3>1, <4>1, <4>2, ChainTail
      <4>4. ASSUME NEW v, Upto(q, n, got, Len(q) + 1, v) PROVE Upto(Tail(q), n, got', Len(Tail(q)) + 1, v)
        <5>1. Len(q) + 1 \in 2..(Len(q) + 1) /\ (Len(q) + 1) - 1 = Len(Tail(q)) + 1 BY <2>1
        <5>2. Upto(Tail(q), n, got', (Len(q) + 1) - 1, v) BY <1>1, <4>2, <4>4, <5>1, UptoTail
        <5> QED BY <5>1, <5>2
      <4> HIDE DEF q
      <4> QED BY <3>1, <4>1, <4>3, <4>4
    <3> QED BY <3>2, <3>3
  <2> QED BY <1>2, <2>6, <2>7 DEF Gapless
<1>6. \/ listener' = NoListener
      \/ listener'.n = n /\ n # 0 /\ (listener.open => listener'.open)
      \/ listener'.n = 0
  BY <1>3
<1>7. CASE listener'.n = 0 BY <1>2, <1>7 DEF Gapless, Unheard, NoGap
<1> QED BY <1>4, <1>5, <1>6, <1>7

LEMMA Sums ==
  ASSUME NEW a \in Nat, NEW b \in Nat
  PROVE  /\ b + 1 \in 1..(b + 1) /\ (b + 1) - 1 = b /\ a + (b + 1) = (a + b) + 1
         /\ 1..a = 1..b => a = b
         /\ b # 0 => b \in 1..b
<1>1. 1..a = 1..b => a = b
  <2> SUFFICES ASSUME 1..a = 1..b PROVE a = b OBVIOUS
  <2>1. a # 0 => a \in 1..b BY a \in 1..a \/ a = 0
  <2>2. b # 0 => b \in 1..a BY b \in 1..b \/ b = 0
  <2> QED BY <2>1, <2>2
<1> QED BY <1>1

\* What a page does not count by leaves what it has at the end.
LEMMA UptoAfter ==
  ASSUME NEW q \in Seq(ToPage), NEW w \in Seq(ToPage), NEW n, NEW g, NEW v,
         \A k \in 1..Len(w) : ~Counts(w[k], n),
         Upto(q, n, g, Len(q) + 1, v)
  PROVE  Upto(q \o w, n, g, Len(q \o w) + 1, v)
<1> DEFINE a == Len(q)
           b == Len(w)
           e == Len(q \o w)
<1>1. a \in Nat /\ b \in Nat /\ e = a + b BY ConcatPlaces
<1> HIDE DEF a, b, e
<1>2. b + 1 \in 1..(b + 1) /\ (b + 1) - 1 = b /\ a + (b + 1) = e + 1 BY <1>1
<1>3. \A k \in 1..((b + 1) - 1) : ~Counts(w[k], n) BY <1>2 DEF b
<1>4. b + 1 \in 1..(Len(w) + 1) BY <1>2 DEF b
<1>5. Upto(q \o w, n, g, Len(q) + (b + 1), v) BY <1>3, <1>4, UptoSilent
<1> QED BY <1>2, <1>5 DEF a, e

Silent(n) == {f \in ToPage : ~Counts(f, n)}

\* What is written adds nothing that the page counts by as stream n's.
LEMMA SaysSilent ==
  ASSUME TypeOK, NEW written, Say(written) \/ UNCHANGED toPage,
         \A m \in Listens : written[m] \in Seq(OfStream(m)),
         NEW n \in Listens, ~over[n] => written[n] \in Seq(Silent(n)),
         NEW s \in Sockets
  PROVE  \E w \in Seq(ToPage) : toPage'[s] = toPage[s] \o w /\ \A k \in 1..Len(w) : ~Counts(w[k], n)
<1>1. CASE UNCHANGED toPage
  <2>1. toPage[s] \in Seq(ToPage) BY DEF TypeOK
  <2>2. <<>> \in Seq(ToPage) /\ toPage[s] = toPage[s] \o <<>> /\ 1..Len(<<>>) = {} BY <2>1, ConcatEmptySeq
  <2>3. toPage'[s] = toPage[s] BY <1>1
  <2> QED BY <2>2, <2>3
<1>2. CASE Say(written)
  <2>1. ASSUME NEW m \in Listens, m # n PROVE written[m] \in Seq(Silent(n))
    <3>1. OfStream(m) \subseteq Silent(n) BY <2>1 DEF OfStream, Silent, Counts
    <3> QED BY <3>1, SeqMonotonic
  <2>2. \A m \in Listens : of[m] = s /\ ~over[m] => written[m] \in Seq(Silent(n)) BY <2>1
  <2>3. PICK w \in Seq(Silent(n)) : toPage'[s] = toPage[s] \o w BY <1>2, <2>2, SayWrites
  <2>4. Silent(n) \subseteq ToPage BY DEF Silent
  <2>5. w \in Seq(ToPage) BY <2>4, SeqMonotonic
  <2>6. ASSUME NEW k \in 1..Len(w) PROVE ~Counts(w[k], n)
    <3>1. w[k] \in Silent(n) BY ElementOfSeq
    <3> QED BY <3>1 DEF Silent
  <2> QED BY <2>3, <2>5, <2>6
<1> QED BY <1>1, <1>2

\* What is written for a stream that is not over is what its socket gets.
LEMMA SaysOwn ==
  ASSUME TypeOK, Streams, NEW written, Say(written),
         \A m \in Listens : written[m] \in Seq(OfStream(m)),
         NEW n \in Listens, NEW s \in Sockets, of[n] = s, ~over[n]
  PROVE  toPage'[s] = IF serving[s] /\ ~cut[s] THEN toPage[s] \o written[n] ELSE toPage[s]
<1> DEFINE parts == [m \in Listens |-> IF of[m] = s /\ ~over[m] THEN written[m] ELSE <<>>]
<1>1. parts \in Seq(Seq(ToPage)) /\ Len(parts) = MaxListens
  <2>1. <<>> \in Seq(ToPage) /\ \A m \in Listens : written[m] \in Seq(ToPage) BY OwnTyped
  <2>2. \A m \in 1..MaxListens : parts[m] \in Seq(ToPage) BY <2>1 DEF Listens
  <2>3. parts = [m \in 1..MaxListens |-> parts[m]] BY DEF Listens
  <2>4. MaxListens \in Nat BY BoundsAssumption
  <2> HIDE DEF parts
  <2>5. parts \in Seq(Seq(ToPage)) BY <2>2, <2>3, <2>4, IsASeq
  <2>6. DOMAIN parts = 1..MaxListens BY <2>3
  <2> QED BY <2>4, <2>5, <2>6, LenProperties
<1>2. \A m \in 1..Len(parts) : m # n => parts[m] = <<>>
  <2> SUFFICES ASSUME NEW m \in Listens, m # n, of[m] = s, ~over[m] PROVE FALSE
    BY <1>1 DEF Listens
  <2>1. events[s] = m /\ events[s] = n BY DEF Streams, OneStream
  <2> QED BY <2>1
<1>3. n \in 1..Len(parts) /\ parts[n] = written[n] BY <1>1 DEF Listens
<1>4. toPage'[s] = IF serving[s] /\ ~cut[s] THEN toPage[s] \o FlattenSeq(parts) ELSE toPage[s] BY DEF Say
<1> HIDE DEF parts
<1>5. FlattenSeq(parts) = parts[n] BY <1>1, <1>2, <1>3, FlattenOne
<1> QED BY <1>3, <1>4, <1>5

\* A step that gives the listener nothing to count by leaves no gap.
LEMMA GapSilent ==
  ASSUME TypeOK, Streams, Gapless, NEW written, Say(written) \/ UNCHANGED toPage,
         \A m \in Listens : written[m] \in Seq(OfStream(m)),
         \A m \in Listens : ~over[m] => written[m] \in Seq(Silent(m)),
         \A m \in Listens : over[m] => over'[m],
         \A s \in Sockets : (serving'[s] => serving[s]) /\ (cut[s] => cut'[s]),
         \A h \in Holds : \A m \in subs'[h] : cursor'[h] = cursor[h] /\ (m \in subs[h] \/ route[m] = "auth"),
         subs' \in [Holds -> SUBSET Listens],
         \A m \in Listens : route'[m] \in {"none", "auth"} => route[m] \in {"none", "auth"},
         UNCHANGED pageVars
  PROVE  NoGap' /\ Unheard'
<1> DEFINE n == listener.n
<1>1. UNCHANGED <<listener, line, sock, got>> /\ (n # 0 => n \in Listens)
  BY DEF pageVars, TypeOK, Listens
<1>2. ASSUME n # 0, NEW s \in Sockets
      PROVE  \E w \in Seq(ToPage) : toPage'[s] = toPage[s] \o w /\ \A k \in 1..Len(w) : ~Counts(w[k], n)
  BY <1>1, <1>2, SaysSilent
<1>3. \A s \in Sockets : toPage[s] \in Seq(ToPage) BY DEF TypeOK
<1> HIDE DEF n
<1>4. Unheard'
  <2> SUFFICES ASSUME n # 0, route'[n] \in {"none", "auth"}
               PROVE  got = -1 /\ \A s \in Sockets : \A i \in DOMAIN toPage'[s] : ~Counts(toPage'[s][i], n)
    BY <1>1 DEF Gapless, Unheard, n
  <2>1. got = -1 /\ \A s \in Sockets : \A i \in DOMAIN toPage[s] : ~Counts(toPage[s][i], n)
    BY <1>1 DEF Gapless, Unheard, n
  <2>2. ASSUME NEW s \in Sockets, NEW i \in DOMAIN toPage'[s] PROVE ~Counts(toPage'[s][i], n)
    <3>1. PICK w \in Seq(ToPage) : toPage'[s] = toPage[s] \o w /\ \A k \in 1..Len(w) : ~Counts(w[k], n) BY <1>2
    <3> DEFINE q == toPage[s]
               c == q \o w
    <3>2. /\ Len(q) \in Nat /\ Len(w) \in Nat /\ DOMAIN q = 1..Len(q) /\ DOMAIN c = 1..(Len(q) + Len(w))
          /\ \A j \in 1..Len(q) : c[j] = q[j]
          /\ \A j \in (Len(q) + 1)..(Len(q) + Len(w)) : j - Len(q) \in 1..Len(w) /\ c[j] = w[j - Len(q)]
      BY <1>3, ConcatPlaces
    <3> HIDE DEF q, c
    <3>3. i \in DOMAIN c /\ toPage'[s][i] = c[i] BY <2>2, <3>1 DEF c, q
    <3>4. i \in 1..Len(q) \/ i \in (Len(q) + 1)..(Len(q) + Len(w)) BY <3>2, <3>3
    <3>5. \A j \in DOMAIN q : ~Counts(q[j], n) BY <2>1 DEF q
    <3> QED BY <3>1, <3>2, <3>3, <3>4, <3>5
  <2> QED BY <2>1, <2>2
<1>5. NoGap'
  <2> SUFFICES ASSUME n # 0, line = "open"
               PROVE  /\ Chained(toPage'[sock], n, got)
                      /\ serving'[sock] /\ ~cut'[sock] /\ ~over'[n] =>
                           \A h \in Holds : n \in subs'[h] =>
                             Upto(toPage'[sock], n, got, Len(toPage'[sock]) + 1, cursor'[h])
    BY <1>1 DEF NoGap, n
  <2>1. sock \in Sockets /\ n \in Listens BY <1>1 DEF Streams, Listening
  <2>2. PICK w \in Seq(ToPage) : toPage'[sock] = toPage[sock] \o w /\ \A k \in 1..Len(w) : ~Counts(w[k], n)
    BY <1>2, <2>1
  <2> DEFINE q == toPage[sock]
  <2>3. q \in Seq(ToPage) /\ Chained(q, n, got) BY <1>3, <2>1 DEF Gapless, NoGap, n
  <2>4. Len(q \o w) = Len(q) + Len(w) /\ Len(q) \in Nat /\ Len(w) \in Nat /\ DOMAIN q = 1..Len(q) BY <2>3, ConcatPlaces
  <2>5. Chained(q \o w, n, got) BY <2>2, <2>3, ChainGrows
  <2>6. ASSUME serving'[sock], ~cut'[sock], ~over'[n], NEW h \in Holds, n \in subs'[h]
        PROVE  Upto(q, n, got, Len(q) + 1, cursor'[h])
    <3>1. serving[sock] /\ ~cut[sock] /\ ~over[n] BY <2>1, <2>6
    <3>2. cursor'[h] = cursor[h] BY <2>6
    <3>3. CASE n \in subs[h] BY <3>1, <3>2, <3>3 DEF Gapless, NoGap, n
    <3>4. CASE route[n] = "auth"
      <4>1. got = -1 /\ \A i \in DOMAIN q : ~Counts(q[i], n) BY <2>1, <3>4 DEF Gapless, Unheard, n
      <4>2. (Len(q) + 1) - 1 = Len(q) BY <2>4
      <4> QED BY <2>4, <4>1, <4>2 DEF Upto
    <3> QED BY <2>6, <3>3, <3>4
  <2>7. ASSUME NEW v, Upto(q, n, got, Len(q) + 1, v) PROVE Upto(q \o w, n, got, Len(q \o w) + 1, v)
    BY <2>2, <2>3, <2>7, UptoAfter
  <2> HIDE DEF q
  <2>8. toPage'[sock] = q \o w BY <2>2 DEF q
  <2> QED BY <2>5, <2>6, <2>7, <2>8
<1> QED BY <1>4, <1>5

\* What is published to the subscribers of h ends in what the page counts by, and that
\* follows on the cursor.
LEMMA GapPublish ==
  ASSUME TypeOK, Streams, Gapless, NEW h \in Holds, NEW evs \in Seq(Rows), Say(Published(h, evs)),
         evs # <<>>, \A i \in 1..Len(evs) : evs[i].what # "status" <=> i = Len(evs),
         evs[Len(evs)].what = "notice" => cursor[h] = evs[Len(evs)].at - 1,
         cursor'[h] = evs[Len(evs)].at, \A k \in Holds : k # h => cursor'[k] = cursor[k],
         UNCHANGED <<pageVars, cut, bffVars, subs>>
  PROVE  NoGap' /\ Unheard'
<1> DEFINE n == listener.n
           written == Published(h, evs)
<1>1. UNCHANGED <<listener, line, sock, got, serving, of, route, over, cut, subs>> /\ (n # 0 => n \in Listens)
  BY DEF pageVars, bffVars, TypeOK, Listens
<1>2. \A m \in Listens : written[m] \in Seq(OfStream(m)) BY PublishedTyped
<1>3. Len(evs) \in Nat /\ Len(evs) # 0 /\ DOMAIN evs = 1..Len(evs) BY LenProperties, EmptySeq
<1>4. \A m \in Listens : m \notin subs[h] => written[m] = <<>> BY DEF Published
<1>5. ASSUME NEW m \in Listens, NEW s \in Sockets, m \notin subs[h] \/ over[m]
      PROVE  \E w \in Seq(ToPage) : toPage'[s] = toPage[s] \o w /\ \A k \in 1..Len(w) : ~Counts(w[k], m)
  <2>1. ~over[m] => written[m] \in Seq(Silent(m))
    <3>1. <<>> \in Seq(Silent(m)) OBVIOUS
    <3> QED BY <1>4, <1>5, <3>1
  <2> HIDE DEF written
  <2>2. Say(written) BY DEF written
  <2> QED BY <1>2, <2>1, <2>2, SaysSilent
<1>6. \A s \in Sockets : toPage[s] \in Seq(ToPage) BY DEF TypeOK
<1> HIDE DEF n, written
<1>7. Unheard'
  <2> SUFFICES ASSUME n # 0, route[n] \in {"none", "auth"}
               PROVE  got = -1 /\ \A s \in Sockets : \A i \in DOMAIN toPage'[s] : ~Counts(toPage'[s][i], n)
    BY <1>1 DEF Gapless, Unheard, n
  <2>1. got = -1 /\ \A s \in Sockets : \A i \in DOMAIN toPage[s] : ~Counts(toPage[s][i], n)
    BY <1>1 DEF Gapless, Unheard, n
  <2>2. n \in Listens /\ n \notin subs[h] BY <1>1 DEF Gapless, Subscribed
  <2>3. ASSUME NEW s \in Sockets, NEW i \in DOMAIN toPage'[s] PROVE ~Counts(toPage'[s][i], n)
    <3>1. PICK w \in Seq(ToPage) : toPage'[s] = toPage[s] \o w /\ \A k \in 1..Len(w) : ~Counts(w[k], n) BY <1>5, <2>2
    <3> DEFINE q == toPage[s]
               c == q \o w
    <3>2. /\ Len(q) \in Nat /\ Len(w) \in Nat /\ DOMAIN q = 1..Len(q) /\ DOMAIN c = 1..(Len(q) + Len(w))
          /\ \A j \in 1..Len(q) : c[j] = q[j]
          /\ \A j \in (Len(q) + 1)..(Len(q) + Len(w)) : j - Len(q) \in 1..Len(w) /\ c[j] = w[j - Len(q)]
      BY <1>6, ConcatPlaces
    <3> HIDE DEF q, c
    <3>3. i \in DOMAIN c /\ toPage'[s][i] = c[i] BY <2>3, <3>1 DEF c, q
    <3>4. i \in 1..Len(q) \/ i \in (Len(q) + 1)..(Len(q) + Len(w)) BY <3>2, <3>3
    <3>5. \A j \in DOMAIN q : ~Counts(q[j], n) BY <2>1 DEF q
    <3> QED BY <3>1, <3>2, <3>3, <3>4, <3>5
  <2> QED BY <2>1, <2>3
<1>8. NoGap'
  <2> SUFFICES ASSUME n # 0, line = "open"
               PROVE  /\ Chained(toPage'[sock], n, got)
                      /\ serving[sock] /\ ~cut[sock] /\ ~over[n] =>
                           \A g \in Holds : n \in subs[g] =>
                             Upto(toPage'[sock], n, got, Len(toPage'[sock]) + 1, cursor'[g])
    BY <1>1 DEF NoGap, n
  <2> DEFINE q == toPage[sock]
  <2>1. sock \in Sockets /\ n \in Listens BY <1>1 DEF Streams, Listening
  <2>2. /\ q \in Seq(ToPage) /\ Chained(q, n, got)
        /\ serving[sock] /\ ~cut[sock] /\ ~over[n] =>
             \A g \in Holds : n \in subs[g] => Upto(q, n, got, Len(q) + 1, cursor[g])
    BY <1>6, <2>1 DEF Gapless, NoGap, n
  <2>3. CASE n \notin subs[h] \/ over[n]
    <3>1. PICK w \in Seq(ToPage) : toPage'[sock] = q \o w /\ \A k \in 1..Len(w) : ~Counts(w[k], n)
      BY <1>5, <2>1, <2>3
    <3>2. Len(q \o w) = Len(q) + Len(w) /\ Len(q) \in Nat /\ Len(w) \in Nat BY <2>2, ConcatPlaces
    <3>3. Chained(q \o w, n, got) BY <2>2, <3>1, ChainGrows
    <3>4. ASSUME serving[sock], ~cut[sock], ~over[n], NEW g \in Holds, n \in subs[g]
          PROVE  Upto(q \o w, n, got, Len(q \o w) + 1, cursor'[g])
      <4>1. cursor'[g] = cursor[g] /\ Upto(q, n, got, Len(q) + 1, cursor[g]) BY <2>2, <2>3, <3>4
      <4>2. Upto(q \o w, n, got, Len(q \o w) + 1, cursor[g]) BY <2>2, <3>1, <4>1, UptoAfter
      <4> QED BY <4>1, <4>2
    <3> HIDE DEF q
    <3> QED BY <3>1, <3>3, <3>4
  <2>4. CASE n \in subs[h] /\ ~over[n]
    <3>1. of[n] = sock
      <4>1. route[n] = "streaming" BY <2>4 DEF Gapless, Subscribed
      <4>2. of[n] # 0 BY <2>1, <4>1 DEF Gapless, Subscribed
      <4> QED BY <4>2 DEF Streams, AskedLast, n
    <3>2. toPage'[sock] = IF serving[sock] /\ ~cut[sock] THEN q \o written[n] ELSE q
      <4>1. Say(written) BY DEF written
      <4> QED BY <1>2, <2>1, <2>4, <3>1, <4>1, SaysOwn
    <3>3. CASE ~(serving[sock] /\ ~cut[sock]) BY <2>2, <3>2, <3>3
    <3>4. CASE serving[sock] /\ ~cut[sock]
      <4> DEFINE w == written[n]
      <4>1. w = [i \in 1..Len(evs) |-> Event(n, evs[i].what, evs[i].at)] BY <1>3, <2>1, <2>4 DEF written, Published
      <4>2. w \in Seq(ToPage) BY <1>2, <2>1, OwnTyped
      <4>3. Len(w) = Len(evs)
        <5>1. DOMAIN w = 1..Len(evs) BY <4>1
        <5> HIDE DEF w
        <5>2. DOMAIN w = 1..Len(w) /\ Len(w) \in Nat BY <4>2, LenProperties
        <5> QED BY <1>3, <5>1, <5>2, Sums
      <4> HIDE DEF w
      <4>4. \A k \in 1..Len(w) : (Counts(w[k], n) <=> k = Len(w)) /\ w[k].what = evs[k].what /\ w[k].at = evs[k].at
        BY <4>1, <4>3 DEF Event, Counts
      <4>5. Len(w) \in 1..Len(w) /\ Len(w) # 0 BY <1>3, <4>3, Sums
      <4>6. Upto(q, n, got, Len(q) + 1, cursor[h]) BY <2>2, <2>4, <3>4
      <4>7. Chained(q \o w, n, got)
        <5>1. \A k \in 1..Len(w) : Counts(w[k], n) =>
                k = Len(w) /\ (w[k].what = "notice" => Upto(q, n, got, Len(q) + 1, w[k].at - 1))
          BY <4>3, <4>4, <4>6
        <5> HIDE DEF q
        <5> QED BY <2>2, <4>2, <5>1, ChainGrows
      <4>8. Upto(q \o w, n, got, Len(q) + Len(w) + 1, w[Len(w)].at) BY <2>2, <4>2, <4>4, <4>5, UptoLast
      <4>9. Len(q \o w) = Len(q) + Len(w) BY <2>2, <4>2, ConcatPlaces
      <4>10. w[Len(w)].at = cursor'[h] BY <4>3, <4>4, <4>5
      <4>11. \A g \in Holds : n \in subs[g] => g = h BY <2>4 DEF Gapless, Subscribed
      <4>12. toPage'[sock] = q \o w BY <3>2, <3>4 DEF w
      <4> HIDE DEF q
      <4> QED BY <4>7, <4>8, <4>9, <4>10, <4>11, <4>12
    <3> QED BY <3>3, <3>4
  <2> QED BY <2>3, <2>4
<1> QED BY <1>7, <1>8

\* A stream that is opened, or tried again, is opened from the cursor or from a snapshot.
LEMMA OpenKept ==
  ASSUME TypeOK, CursorKept, NEW h \in Holds, UNCHANGED cursor,
         gw' \in {gw, [gw EXCEPT ![h] = Opening(h)]} \/ OpenHeldStream(h)
  PROVE  CursorKept'
<1>1. gw' = gw \/ gw' = [gw EXCEPT ![h] = Opening(h)] BY DEF OpenHeldStream
<1>2. /\ Opening(h).st = "opening"
      /\ ~Opening(h).snap => Opening(h).at = cursor[h]
  BY DEF Opening
<1>3. \A k \in Holds : gw'[k] = gw[k] \/ (k = h /\ gw'[k] = Opening(h)) BY <1>1 DEF TypeOK
<1> QED BY <1>2, <1>3 DEF CursorKept

\* What a stream says of itself is nothing to count by.
LEMMA SaysNothing ==
  ASSUME TypeOK, NEW n \in Listens
  PROVE  /\ <<>> \in Seq(Silent(n)) /\ <<Ended(n)>> \in Seq(Silent(n))
         /\ <<Attached(n), Event(n, "status", 0)>> \in Seq(Silent(n))
         /\ <<Event(n, "status", 0), Ended(n)>> \in Seq(Silent(n))
         /\ \A h \in Holds : Published(h, <<Status>>)[n] \in Seq(Silent(n))
<1>1. /\ Attached(n) \in ToPage /\ Ended(n) \in ToPage /\ Event(n, "status", 0) \in ToPage
      /\ Attached(n).k = "attached" /\ Ended(n).k = "ended" /\ Event(n, "status", 0).what = "status"
  BY BoundsAssumption DEF Attached, Ended, Event, ToPage
<1>2. Attached(n) \in Silent(n) /\ Ended(n) \in Silent(n) /\ Event(n, "status", 0) \in Silent(n)
  BY <1>1 DEF Silent, Counts
<1>3. ASSUME NEW h \in Holds PROVE Published(h, <<Status>>)[n] \in Seq(Silent(n))
  <2>1. CASE n \in subs[h]
    <3>1. Published(h, <<Status>>)[n] = [i \in 1..1 |-> Event(n, "status", 0)] BY <2>1 DEF Published, Status
    <3>2. [i \in 1..1 |-> Event(n, "status", 0)] \in Seq(Silent(n)) BY <1>2, IsASeq
    <3> QED BY <3>1, <3>2
  <2>2. CASE n \notin subs[h] BY <2>2 DEF Published
  <2> QED BY <2>1, <2>2
<1> QED BY <1>2, <1>3

\* The cursor after frames of which the last carries one.
LEMMA CursorLast ==
  ASSUME NEW h \in Holds, NEW evs \in Seq(Rows), evs # <<>>,
         \A i \in 1..Len(evs) : evs[i].what # "status" <=> i = Len(evs)
  PROVE  CursorAfter(h, evs) = [cursor EXCEPT ![h] = evs[Len(evs)].at]
<1> DEFINE carrying == {i \in DOMAIN evs : evs[i].what # "status"}
           last == Len(evs)
<1>1. DOMAIN evs = 1..last /\ last \in Nat /\ last # 0 BY LenProperties, EmptySeq
<1>2. \A i \in DOMAIN evs : evs[i].what # "status" <=> i = last BY <1>1
<1> HIDE DEF last
<1>3. last \in 1..last /\ last <= last BY ONLY <1>1
<1>4. carrying = {last} BY <1>1, <1>2, <1>3
<1> HIDE DEF carrying
<1>5. (CHOOSE i \in carrying : \A j \in carrying : j <= i) = last
  <2>1. last \in carrying /\ \A j \in carrying : j <= last BY <1>3, <1>4
  <2> QED BY <1>4, <2>1
<1>6. carrying # {} BY <1>4
<1>7. CursorAfter(h, evs) = [cursor EXCEPT ![h] = evs[last].at] BY <1>5, <1>6 DEF CursorAfter, carrying
<1> QED BY <1>7 DEF last

\* A stream that is let go is over: nothing more is written for it, and it is
\* subscribed to nothing.
LEMMA GaplessBff ==
  ASSUME TypeOK, Streams, Gapless, NEW s \in Sockets, BffTakes(s) \/ BffLoses(s)
  PROVE  Gapless'
<1> DEFINE written == [n \in Listens |-> <<>>]
<1>1. /\ LetEventsGo(s) /\ UNCHANGED <<pageVars, toPage, cut, current, holds, cursor, gameVars>>
      /\ toBff' = toBff \/ (toBff[s] # <<>> /\ toBff' = [toBff EXCEPT ![s] = Tail(toBff[s])])
      /\ \/ UNCHANGED <<of, route>>
         \/ \E m \in Listens : /\ of' = [of EXCEPT ![m] = s] /\ route' = [route EXCEPT ![m] = "auth"]
                               /\ toBff[s] # <<>> /\ Head(toBff[s]) = Open(m)
                               /\ toBff' = [toBff EXCEPT ![s] = Tail(toBff[s])]
      /\ serving' = serving \/ serving' = [serving EXCEPT ![s] = FALSE]
  BY BffActs
<1>2. /\ over' = [n \in Listens |-> over[n] \/ (events[s] = n /\ ~over[n])]
      /\ subs' \in [Holds -> SUBSET Listens]
  BY <1>1, LetGoTyped
<1>3. /\ \A h \in Holds : subs'[h] \subseteq subs[h]
      /\ \A h \in Holds : gw'[h] \in {Shut, gw[h]}
  BY <1>1 DEF LetEventsGo
<1>4. ASSUME NEW m \in Listens, toBff[s] # <<>>, Head(toBff[s]) = Open(m) PROVE of[m] = 0 /\ route[m] = "none"
  <2>1. toBff[s] \in Seq(ToBff) BY DEF TypeOK
  <2>2. 1 \in DOMAIN toBff[s] /\ toBff[s][1] = Open(m) BY <1>4, <2>1, TailShifts
  <2>3. of[m] = 0 BY <2>2 DEF Gapless, AskedOnce, Open
  <2> QED BY <2>3 DEF Gapless, Subscribed
<1>5. AskedOnce'
  <2>1. CASE toBff[s] # <<>> /\ toBff' = [toBff EXCEPT ![s] = Tail(toBff[s])]
    <3>1. of' = of \/ \E m \in Listens : Head(toBff[s]) = Open(m) /\ of' = [of EXCEPT ![m] = s] BY <1>1
    <3>2. AskedOnce BY DEF Gapless
    <3> QED BY <2>1, <3>1, <3>2, AskedOnceTakes
  <2>2. CASE toBff' = toBff /\ of' = of BY <2>2 DEF Gapless, AskedOnce
  <2> QED BY <1>1, <2>1, <2>2
<1>6. \A n \in Listens : route'[n] = route[n] \/ (route[n] = "none" /\ route'[n] = "auth" /\ of'[n] = s)
  <2>1. CASE UNCHANGED <<of, route>> BY <2>1
  <2>2. ASSUME NEW m \in Listens, of' = [of EXCEPT ![m] = s], route' = [route EXCEPT ![m] = "auth"],
               toBff[s] # <<>>, Head(toBff[s]) = Open(m)
        PROVE  \A n \in Listens : route'[n] = route[n] \/ (route[n] = "none" /\ route'[n] = "auth" /\ of'[n] = s)
    BY <1>4, <2>2 DEF TypeOK
  <2> QED BY <1>1, <2>1, <2>2
<1>7. \A n \in Listens : of[n] # 0 => of'[n] # 0
  <2>1. s # 0 BY DEF Sockets
  <2> QED BY <1>1, <2>1 DEF TypeOK
<1>8. Subscribed'
  <2>1. s # 0 BY DEF Sockets
  <2>2. \A n \in Listens : route'[n] # "none" => of'[n] # 0 BY <1>6, <1>7, <2>1 DEF Gapless, Subscribed
  <2>3. \A h \in Holds : \A n \in subs'[h] : route'[n] = "streaming"
    BY <1>2, <1>3, <1>6 DEF Gapless, Subscribed
  <2>4. \A h, g \in Holds : subs'[h] \cap subs'[g] # {} => h = g BY <1>3 DEF Gapless, Subscribed
  <2> QED BY <2>2, <2>3, <2>4 DEF Subscribed
<1>9. CursorKept'
  <2>1. Shut.st = "shut" BY DEF Shut
  <2> QED BY <1>1, <1>3, <2>1 DEF Gapless, CursorKept
<1>10. NoGap' /\ Unheard'
  <2>1. \A m \in Listens : written[m] \in Seq(OfStream(m)) OBVIOUS
  <2>2. \A m \in Listens : ~over[m] => written[m] \in Seq(Silent(m)) OBVIOUS
  <2>3. \A m \in Listens : over[m] => over'[m] BY <1>2
  <2>4. \A t \in Sockets : (serving'[t] => serving[t]) /\ (cut[t] => cut'[t]) BY <1>1 DEF TypeOK
  <2>5. \A h \in Holds : \A m \in subs'[h] : cursor'[h] = cursor[h] /\ (m \in subs[h] \/ route[m] = "auth")
    BY <1>1, <1>3
  <2>6. \A m \in Listens : route'[m] \in {"none", "auth"} => route[m] \in {"none", "auth"} BY <1>6
  <2>7. UNCHANGED pageVars /\ UNCHANGED toPage BY <1>1
  <2> HIDE DEF written
  <2> QED BY ONLY TypeOK, Streams, Gapless, <1>2, <2>1, <2>2, <2>3, <2>4, <2>5, <2>6, <2>7, GapSilent
<1> QED BY <1>5, <1>8, <1>9, <1>10 DEF Gapless

\* What a route answers carries nothing to count by, and a stream is subscribed where
\* the page has heard of nothing.
LEMMA GaplessRoute ==
  ASSUME TypeOK, Streams, Gapless, NEW n \in Listens, RouteRefuses(n) \/ RouteStreams(n)
  PROVE  Gapless'
<1>1. /\ UNCHANGED <<pageVars, toBff, cut, serving, of, cursor>> /\ route[n] = "auth"
      /\ \A t \in Sockets : (serving'[t] => serving[t]) /\ (cut[t] => cut'[t])
  BY DEF RouteRefuses, RouteStreams, heldVars
<1>2. /\ AskedOnce' /\ of[n] # 0 /\ \A h \in Holds : n \notin subs[h]
      /\ subs \in [Holds -> SUBSET Listens] /\ route \in [Listens -> {"none", "auth", "streaming", "ended"}]
  BY <1>1 DEF Gapless, AskedOnce, Subscribed, TypeOK
<1>3. CASE RouteRefuses(n)
  <2> DEFINE written == [m \in Listens |-> IF m = n THEN <<Ended(n)>> ELSE <<>>]
  <2>1. /\ Say(written) /\ over' = [over EXCEPT ![n] = TRUE] /\ route' = [route EXCEPT ![n] = "ended"]
        /\ UNCHANGED <<subs, gw, cursor>>
    BY <1>3 DEF RouteRefuses, heldVars
  <2>2. \A m \in Listens : written[m] \in Seq(OfStream(m)) /\ written[m] \in Seq(Silent(m))
    BY FramesTyped, SaysNothing
  <2> HIDE DEF written
  <2>3. Subscribed' /\ CursorKept' BY <1>1, <1>2, <2>1 DEF Gapless, Subscribed, CursorKept
  <2>4. /\ \A m \in Listens : over[m] => over'[m]
        /\ \A h \in Holds : \A m \in subs'[h] : cursor'[h] = cursor[h] /\ (m \in subs[h] \/ route[m] = "auth")
        /\ \A m \in Listens : route'[m] \in {"none", "auth"} => route[m] \in {"none", "auth"}
        /\ subs' \in [Holds -> SUBSET Listens]
    BY <1>2, <2>1 DEF TypeOK
  <2>5. NoGap' /\ Unheard' BY ONLY TypeOK, Streams, Gapless, <1>1, <2>1, <2>2, <2>4, GapSilent
  <2> QED BY <1>2, <2>3, <2>5 DEF Gapless
<1>4. CASE RouteStreams(n)
  <2> DEFINE h == current
             written == [Published(h, <<Status>>) EXCEPT ![n] = <<Attached(n), Event(n, "status", 0)>>]
  <2>1. /\ Say(written) /\ OpenHeldStream(h) /\ route' = [route EXCEPT ![n] = "streaming"]
        /\ subs' = [subs EXCEPT ![h] = subs[h] \cup {n}] /\ UNCHANGED <<over, cursor>> /\ h \in Holds
    BY <1>4 DEF RouteStreams, TypeOK, Holds
  <2>2. \A m \in Listens : written[m] \in Seq(OfStream(m)) /\ written[m] \in Seq(Silent(m))
    <3>1. Status \in Rows /\ <<Status>> \in Seq(Rows) BY BoundsAssumption DEF Status, Rows
    <3>2. \A m \in Listens : Published(h, <<Status>>)[m] \in Seq(OfStream(m)) BY <2>1, <3>1, PublishedTyped
    <3>3. <<Attached(n), Event(n, "status", 0)>> \in Seq(OfStream(n)) BY FramesTyped
    <3>4. \A m \in Listens : Published(h, <<Status>>)[m] \in Seq(Silent(m)) BY <2>1, SaysNothing
    <3>5. <<Attached(n), Event(n, "status", 0)>> \in Seq(Silent(n)) BY SaysNothing
    <3>6. \A m \in Listens : written[m] = IF m = n THEN <<Attached(n), Event(n, "status", 0)>>
                                                  ELSE Published(h, <<Status>>)[m]
      BY DEF Published
    <3> HIDE DEF written
    <3> QED BY <3>2, <3>3, <3>4, <3>5, <3>6
  <2> HIDE DEF written, h
  <2>3. \A g \in Holds : \A m \in subs'[g] : m \in subs[g] \/ (m = n /\ g = h) BY <1>2, <2>1
  <2>4. Subscribed'
    <3>1. \A m \in Listens : route'[m] # "none" => of'[m] # 0 BY <1>1, <1>2, <2>1 DEF Gapless, Subscribed
    <3>2. \A g \in Holds : \A m \in subs'[g] : route'[m] = "streaming"
      <4> SUFFICES ASSUME NEW g \in Holds, NEW m \in subs'[g] PROVE route'[m] = "streaming" OBVIOUS
      <4>1. m \in Listens BY <1>2, <2>3
      <4>2. m # n => route[m] = "streaming" BY <2>3 DEF Gapless, Subscribed
      <4> QED BY <1>2, <2>1, <4>1, <4>2
    <3>3. \A g, k \in Holds : subs'[g] \cap subs'[k] # {} => g = k
      BY <1>2, <2>3 DEF Gapless, Subscribed
    <3> QED BY <3>1, <3>2, <3>3 DEF Subscribed
  <2>5. CursorKept' BY <2>1, OpenKept DEF Gapless
  <2>6. /\ \A m \in Listens : over[m] => over'[m]
        /\ \A g \in Holds : \A m \in subs'[g] : cursor'[g] = cursor[g] /\ (m \in subs[g] \/ route[m] = "auth")
        /\ \A m \in Listens : route'[m] \in {"none", "auth"} => route[m] \in {"none", "auth"}
        /\ subs' \in [Holds -> SUBSET Listens]
    BY <1>1, <1>2, <2>1, <2>3
  <2>7. NoGap' /\ Unheard' BY ONLY TypeOK, Streams, Gapless, <1>1, <2>1, <2>2, <2>6, GapSilent
  <2> QED BY <1>2, <2>4, <2>5, <2>7 DEF Gapless
<1> QED BY <1>3, <1>4

\* A session that is forgotten says it ended, and nothing to count by.
LEMMA GaplessForget ==
  ASSUME TypeOK, Streams, Gapless, Forget
  PROVE  Gapless'
<1> DEFINE h == current
           written == [n \in Listens |-> IF n \in subs[h] THEN <<Event(n, "status", 0), Ended(n)>> ELSE <<>>]
<1>1. /\ h \in Holds /\ Say(written)
      /\ over' = [n \in Listens |-> over[n] \/ n \in subs[h]]
      /\ route' = [n \in Listens |-> IF n \in subs[h] THEN "ended" ELSE route[n]]
      /\ subs' = [subs EXCEPT ![h] = {}] /\ gw' = [gw EXCEPT ![h] = Shut]
      /\ UNCHANGED <<pageVars, toBff, cut, serving, of, cursor>>
  BY DEF Forget, TypeOK, Holds
<1>2. \A m \in Listens : written[m] \in Seq(OfStream(m)) /\ written[m] \in Seq(Silent(m))
  <2>1. \A m \in Listens : <<>> \in Seq(OfStream(m)) /\ <<Event(m, "status", 0), Ended(m)>> \in Seq(OfStream(m))
    BY FramesTyped
  <2>2. \A m \in Listens : <<>> \in Seq(Silent(m)) /\ <<Event(m, "status", 0), Ended(m)>> \in Seq(Silent(m))
    BY SaysNothing
  <2> QED BY <2>1, <2>2
<1> HIDE DEF written, h
<1>3. subs \in [Holds -> SUBSET Listens] /\ gw \in [Holds -> GwStreams] BY DEF TypeOK, GwStreams
<1>4. AskedOnce' BY <1>1 DEF Gapless, AskedOnce
<1>5. \A g \in Holds : \A m \in subs'[g] : g # h /\ m \in subs[g] /\ m \in Listens /\ m \notin subs[h]
  BY <1>1, <1>3 DEF Gapless, Subscribed
<1>6. Subscribed'
  <2>1. \A m \in Listens : route'[m] # "none" => of'[m] # 0 BY <1>1 DEF Gapless, Subscribed
  <2>2. \A g \in Holds : \A m \in subs'[g] : route'[m] = "streaming" BY <1>1, <1>5 DEF Gapless, Subscribed
  <2>3. \A g, k \in Holds : subs'[g] \cap subs'[k] # {} => g = k BY <1>5 DEF Gapless, Subscribed
  <2> QED BY <2>1, <2>2, <2>3 DEF Subscribed
<1>7. CursorKept'
  <2>1. Shut.st = "shut" /\ \A g \in Holds : gw'[g] \in {Shut, gw[g]} BY <1>1, <1>3 DEF Shut
  <2> QED BY <1>1, <2>1 DEF Gapless, CursorKept
<1>8. /\ \A m \in Listens : over[m] => over'[m]
      /\ \A t \in Sockets : (serving'[t] => serving[t]) /\ (cut[t] => cut'[t])
      /\ \A g \in Holds : \A m \in subs'[g] : cursor'[g] = cursor[g] /\ (m \in subs[g] \/ route[m] = "auth")
      /\ \A m \in Listens : route'[m] \in {"none", "auth"} => route[m] \in {"none", "auth"}
      /\ subs' \in [Holds -> SUBSET Listens] /\ UNCHANGED pageVars
  BY <1>1, <1>3, <1>5
<1>9. NoGap' /\ Unheard' BY ONLY TypeOK, Streams, Gapless, <1>1, <1>2, <1>8, GapSilent
<1> QED BY <1>4, <1>6, <1>7, <1>9 DEF Gapless

\* What the game server's stream gives follows on the cursor, or is a snapshot.
LEMMA GaplessGw ==
  ASSUME TypeOK, Streams, Gapless, NEW h \in Holds,
         GwOpens(h) \/ GwNotice(h) \/ GwCloses(h, TRUE) \/ GwCloses(h, FALSE)
  PROVE  Gapless'
<1>1. UNCHANGED <<pageVars, toBff, cut, bffVars, subs>> BY DEF GwOpens, GwNotice, GwCloses
<1>2. gw \in [Holds -> GwStreams] /\ cursor \in [Holds -> -1..MaxNotices] /\ subs \in [Holds -> SUBSET Listens]
  BY DEF TypeOK, GwStreams
<1>3. AskedOnce' /\ Subscribed' BY <1>1 DEF Gapless, AskedOnce, Subscribed, bffVars
<1>4. /\ gw[h].at \in 0..MaxNotices /\ seq[h] \in 0..MaxNotices /\ Status \in Rows /\ Status.what = "status"
      /\ \A at \in 0..MaxNotices : /\ Snapshot(at) \in Rows /\ Notice(at) \in Rows
                                   /\ Snapshot(at).what = "snapshot" /\ Snapshot(at).at = at
                                   /\ Notice(at).what = "notice" /\ Notice(at).at = at
  BY <1>2, BoundsAssumption DEF TypeOK, GwStreams, Status, Snapshot, Notice, Rows
<1>5. ASSUME Say(Published(h, <<Status>>)) \/ UNCHANGED toPage, UNCHANGED cursor PROVE NoGap' /\ Unheard'
  <2> DEFINE written == Published(h, <<Status>>)
  <2>1. <<Status>> \in Seq(Rows) BY <1>4
  <2>2. \A m \in Listens : written[m] \in Seq(OfStream(m)) BY <2>1, PublishedTyped
  <2>3. \A m \in Listens : written[m] \in Seq(Silent(m)) BY SaysNothing
  <2>4. Say(written) \/ UNCHANGED toPage BY <1>5
  <2>5. /\ \A m \in Listens : over[m] => over'[m]
        /\ \A t \in Sockets : (serving'[t] => serving[t]) /\ (cut[t] => cut'[t])
        /\ \A g \in Holds : \A m \in subs'[g] : cursor'[g] = cursor[g] /\ (m \in subs[g] \/ route[m] = "auth")
        /\ \A m \in Listens : route'[m] \in {"none", "auth"} => route[m] \in {"none", "auth"}
        /\ subs' \in [Holds -> SUBSET Listens] /\ UNCHANGED pageVars
    BY <1>1, <1>2, <1>5 DEF bffVars
  <2> HIDE DEF written
  <2> QED BY ONLY TypeOK, Streams, Gapless, <2>2, <2>3, <2>4, <2>5, GapSilent
<1>6. ASSUME NEW evs \in Seq(Rows), evs # <<>>, \A i \in 1..Len(evs) : evs[i].what # "status" <=> i = Len(evs),
             evs[Len(evs)].what = "notice" => cursor[h] = evs[Len(evs)].at - 1,
             Say(Published(h, evs)), cursor' = CursorAfter(h, evs)
      PROVE  NoGap' /\ Unheard' /\ cursor' = [cursor EXCEPT ![h] = evs[Len(evs)].at]
  <2>1. cursor' = [cursor EXCEPT ![h] = evs[Len(evs)].at] BY <1>6, CursorLast
  <2> DEFINE at == evs[Len(evs)].at
  <2>2. cursor' = [cursor EXCEPT ![h] = at] BY <2>1
  <2> HIDE DEF at
  <2>3. cursor'[h] = at /\ \A k \in Holds : k # h => cursor'[k] = cursor[k] BY <1>2, <2>2
  <2>4. cursor'[h] = evs[Len(evs)].at BY <2>3 DEF at
  <2>5. NoGap' /\ Unheard' BY ONLY TypeOK, Streams, Gapless, h \in Holds, <1>1, <1>6, <2>3, <2>4, GapPublish
  <2> QED BY <2>1, <2>5
<1>7. CASE GwOpens(h)
  <2> DEFINE evs == IF gw[h].snap THEN <<Status, Snapshot(gw[h].at)>> ELSE <<Status>>
  <2>1. /\ Say(Published(h, evs)) /\ cursor' = CursorAfter(h, evs) /\ gw[h].st = "opening"
        /\ gw' = [gw EXCEPT ![h].st = "live", ![h].snap = FALSE]
    BY <1>7 DEF GwOpens, Publish
  <2>2. /\ gw'[h].st = "live" /\ ~gw'[h].snap /\ gw'[h].at = gw[h].at
        /\ \A k \in Holds : k # h => gw'[k] = gw[k]
    BY <1>2, <2>1 DEF GwStreams
  <2>3. CASE gw[h].snap
    <3>1. evs = <<Status, Snapshot(gw[h].at)>> BY <2>3
    <3>2. Len(evs) = 2 /\ evs[1] = Status /\ evs[2] = Snapshot(gw[h].at) /\ evs # <<>> /\ evs \in Seq(Rows)
      BY <1>4, <3>1
    <3> HIDE DEF evs
    <3>3. \A i \in 1..Len(evs) : evs[i].what # "status" <=> i = Len(evs)
      <4>1. \A i \in 1..2 : i = 1 \/ i = 2 OBVIOUS
      <4> QED BY <1>4, <3>2, <4>1
    <3>4. evs[Len(evs)].what = "snapshot" /\ evs[Len(evs)].at = gw[h].at BY <1>4, <3>2
    <3>5. NoGap' /\ Unheard' /\ cursor' = [cursor EXCEPT ![h] = gw[h].at] BY <1>6, <2>1, <3>2, <3>3, <3>4
    <3>6. cursor'[h] = gw[h].at /\ \A k \in Holds : k # h => cursor'[k] = cursor[k] BY <1>2, <3>5
    <3>7. CursorKept' BY <2>2, <3>6 DEF Gapless, CursorKept
    <3> QED BY <1>3, <3>5, <3>7 DEF Gapless
  <2>4. CASE ~gw[h].snap
    <3>1. evs = <<Status>> BY <2>4
    <3>2. cursor' = cursor
      <4>1. \A i \in DOMAIN <<Status>> : <<Status>>[i].what = "status" BY <1>4
      <4> QED BY <2>1, <3>1, <4>1, CursorStays
    <3>3. NoGap' /\ Unheard' BY <1>5, <2>1, <3>1, <3>2
    <3>4. CursorKept' BY <2>1, <2>2, <2>4, <3>2 DEF Gapless, CursorKept
    <3> QED BY <1>3, <3>3, <3>4 DEF Gapless
  <2> QED BY <2>3, <2>4
<1>8. CASE GwNotice(h)
  <2> DEFINE at == gw[h].at + 1
             evs == <<Notice(at)>>
  <2>1. /\ Say(Published(h, evs)) /\ cursor' = CursorAfter(h, evs) /\ gw[h].st = "live" /\ gw[h].at < seq[h]
        /\ gw' = [gw EXCEPT ![h].at = at]
    BY <1>8 DEF GwNotice, Publish
  <2>2. at \in 0..MaxNotices /\ at - 1 = gw[h].at BY <1>4, <2>1, BoundsAssumption
  <2>3. cursor[h] = gw[h].at /\ ~gw[h].snap BY <2>1 DEF Gapless, CursorKept
  <2> HIDE DEF at
  <2>4. Len(evs) = 1 /\ evs[1] = Notice(at) /\ evs # <<>> /\ evs \in Seq(Rows) BY <1>4, <2>2
  <2>5. /\ gw'[h].st = "live" /\ ~gw'[h].snap /\ gw'[h].at = at
        /\ \A k \in Holds : k # h => gw'[k] = gw[k]
    BY <1>2, <2>1, <2>3 DEF GwStreams
  <2> HIDE DEF evs
  <2>6. \A i \in 1..Len(evs) : evs[i].what # "status" <=> i = Len(evs) BY <1>4, <2>2, <2>4
  <2>7. evs[Len(evs)].what = "notice" /\ evs[Len(evs)].at = at BY <1>4, <2>2, <2>4
  <2>8. NoGap' /\ Unheard' /\ cursor' = [cursor EXCEPT ![h] = at] BY <1>6, <2>1, <2>2, <2>3, <2>4, <2>6, <2>7
  <2>9. cursor'[h] = at /\ \A k \in Holds : k # h => cursor'[k] = cursor[k] BY <1>2, <2>8
  <2>10. CursorKept' BY <2>5, <2>9 DEF Gapless, CursorKept
  <2> QED BY <1>3, <2>8, <2>10 DEF Gapless
<1>9. CASE GwCloses(h, TRUE) \/ GwCloses(h, FALSE)
  <2>1. /\ Say(Published(h, <<Status>>)) \/ UNCHANGED toPage
        /\ UNCHANGED cursor /\ gw' = [gw EXCEPT ![h] = Shut]
    BY <1>9 DEF GwCloses
  <2>2. Shut.st = "shut" /\ \A g \in Holds : gw'[g] \in {Shut, gw[g]} BY <1>2, <2>1 DEF Shut
  <2>3. CursorKept' BY <2>1, <2>2 DEF Gapless, CursorKept
  <2> QED BY <1>3, <1>5, <2>1, <2>3 DEF Gapless
<1> QED BY <1>7, <1>8, <1>9

\* Nothing is written, taken or subscribed.
LEMMA GaplessQuiet ==
  ASSUME TypeOK, Streams, Gapless,
         \/ Select \/ \E h \in Holds : Retry(h) \/ GivesOut(h) \/ GameEnds(h)
         \/ \E s \in Sockets : Cut(s)
         \/ UNCHANGED vars
  PROVE  Gapless'
<1> DEFINE written == [n \in Listens |-> <<>>]
<1>1. UNCHANGED <<pageVars, toBff, toPage, bffVars, subs, cursor>>
  BY DEF Select, Retry, GivesOut, GameEnds, Cut, vars, wireVars, heldVars
<1>2. \A t \in Sockets : cut[t] => cut'[t]
  BY DEF Select, Retry, GivesOut, GameEnds, Cut, vars, wireVars, TypeOK
<1>3. AskedOnce' /\ Subscribed' BY <1>1 DEF Gapless, AskedOnce, Subscribed, bffVars
<1>4. CursorKept'
  <2>1. CASE UNCHANGED gw BY <1>1, <2>1 DEF Gapless, CursorKept
  <2>2. ASSUME NEW h \in Holds, Retry(h) PROVE CursorKept'
    <3>1. gw' \in {gw, [gw EXCEPT ![h] = Opening(h)]} BY <2>2 DEF Retry
    <3> QED BY <1>1, <3>1, OpenKept DEF Gapless
  <2>3. UNCHANGED gw \/ \E h \in Holds : Retry(h) BY DEF Select, GivesOut, GameEnds, Cut, vars, heldVars
  <2> QED BY <2>1, <2>2, <2>3
<1>5. NoGap' /\ Unheard'
  <2>1. \A m \in Listens : written[m] \in Seq(OfStream(m)) /\ written[m] \in Seq(Silent(m)) OBVIOUS
  <2>2. /\ \A m \in Listens : over[m] => over'[m]
        /\ \A t \in Sockets : (serving'[t] => serving[t]) /\ (cut[t] => cut'[t])
        /\ \A g \in Holds : \A m \in subs'[g] : cursor'[g] = cursor[g] /\ (m \in subs[g] \/ route[m] = "auth")
        /\ \A m \in Listens : route'[m] \in {"none", "auth"} => route[m] \in {"none", "auth"}
        /\ subs' \in [Holds -> SUBSET Listens] /\ UNCHANGED pageVars /\ UNCHANGED toPage
    BY <1>1, <1>2 DEF bffVars, TypeOK
  <2> HIDE DEF written
  <2> QED BY ONLY TypeOK, Streams, Gapless, <2>1, <2>2, GapSilent
<1> QED BY <1>3, <1>4, <1>5 DEF Gapless

LEMMA GaplessStep ==
  ASSUME TypeOK, Streams, Gapless, [Next]_vars
  PROVE  Gapless'
<1>1. CASE Listen \/ HelloSaid BY <1>1, GaplessAsks
<1>2. CASE CloseListener \/ PageLoses \/ LetGo BY <1>2, GaplessLeaves
<1>3. ASSUME NEW s \in Sockets, PageTakes(s) PROVE Gapless' BY <1>3, GaplessTakes
<1>4. ASSUME NEW s \in Sockets, BffTakes(s) \/ BffLoses(s) PROVE Gapless' BY <1>4, GaplessBff
<1>5. ASSUME NEW n \in Listens, RouteRefuses(n) \/ RouteStreams(n) PROVE Gapless' BY <1>5, GaplessRoute
<1>6. CASE Forget BY <1>6, GaplessForget
<1>7. ASSUME NEW h \in Holds, GwOpens(h) \/ GwNotice(h) \/ GwCloses(h, TRUE) \/ GwCloses(h, FALSE)
      PROVE  Gapless'
  BY <1>7, GaplessGw
<1>8. CASE \/ Select \/ \E h \in Holds : Retry(h) \/ GivesOut(h) \/ GameEnds(h)
           \/ \E s \in Sockets : Cut(s)
           \/ UNCHANGED vars
  BY <1>8, GaplessQuiet
<1> QED BY <1>1, <1>2, <1>3, <1>4, <1>5, <1>6, <1>7, <1>8 DEF Next

\* A notice that is taken follows on what the listener was given.
LEMMA NothingLeftOut ==
  ASSUME TypeOK, Streams, Gapless, NEW s \in Sockets, s = sock, line = "open", listener.open, toPage[s] # <<>>,
         Head(toPage[s]).k = "event", Head(toPage[s]).what = "notice"
  PROVE  got \in {-1, Head(toPage[s]).at - 1}
<1> DEFINE q == toPage[s]
           n == listener.n
           f == Head(q)
<1>1. q \in Seq(ToPage) /\ n # 0 BY DEF TypeOK, Streams, Listening
<1>2. 1 \in DOMAIN q /\ f = q[1] BY <1>1, TailShifts
<1>3. f.n = n BY <1>1, <1>2 DEF Streams, OwnFramesOnly
<1>4. Chained(q, n, got) BY <1>1 DEF Gapless, NoGap
<1>5. Counts(q[1], n) /\ q[1].what = "notice" BY <1>2, <1>3 DEF Counts
<1> HIDE DEF q, n, f
<1>6. Upto(q, n, got, 1, q[1].at - 1) BY <1>2, <1>4, <1>5 DEF Chained
<1>7. 1..(1 - 1) = {} OBVIOUS
<1>8. got \in {-1, q[1].at - 1} BY <1>6, <1>7 DEF Upto
<1> QED BY <1>2, <1>8 DEF q, f

-----------------------------------------------------------------------------
(* The theorems.                                                           *)

\* Whose the frames and the streams of every socket are, in every state: what
\* OwnFramesAlways rests on.
THEOREM StreamsAlways == Spec => [](TypeOK /\ Streams)
<1>1. Init => TypeOK /\ Streams BY StreamsInit
<1>2. TypeOK /\ Streams /\ [Next]_vars => (TypeOK /\ Streams)' BY StepKeeps
<1> QED BY <1>1, <1>2, PTL DEF Spec

\* Every variable holds what its place in the code can hold.
THEOREM StreamsTyped == Spec => []TypeOK
BY StreamsAlways, PTL

\* A listener is given the frames of its own stream and of no other (socketFetch.ts,
\* the event branch of onmessage).
THEOREM OwnFramesAlways == Spec => []OwnFramesOnly
<1>1. Streams => OwnFramesOnly BY DEF Streams
<1> QED BY <1>1, StreamsAlways, PTL

\* What the held sessions keep, in every state (openHeldStream, forgetBridgeSession).
THEOREM HeldAlways == Spec => []HeldInv
<1>1. Init => HeldInv BY HeldInit
<1>2. TypeOK /\ HeldInv /\ [Next]_vars => HeldInv' BY HeldKeeps
<1> QED BY <1>1, <1>2, StreamsTyped, PTL DEF Spec

\* A held session somebody watches has its stream, or a retry of it to come
\* (openHeldStream and its onClose in server.js).
THEOREM NeverWedgedAlways == Spec => []NeverWedged
<1>1. HeldInv => NeverWedged BY DEF HeldInv
<1> QED BY <1>1, HeldAlways, PTL

\* A session that was forgotten keeps no stream, no retry and no subscriber
\* (forgetBridgeSession).
THEOREM ForgottenAlways == Spec => []ForgottenHoldsNothing
<1>1. HeldInv => ForgottenHoldsNothing BY DEF HeldInv
<1> QED BY <1>1, HeldAlways, PTL

\* What the listener has, with what is on its way, in every state: what NothingMissed
\* rests on.
THEOREM GaplessAlways == Spec => []Gapless
<1>1. Init => Gapless BY GaplessInit
<1>2. TypeOK /\ Streams /\ Gapless /\ [Next]_vars => Gapless' BY GaplessStep
<1> QED BY <1>1, <1>2, StreamsAlways, PTL DEF Spec

\* What a listener is given leaves no notice out and gives none twice, over streams
\* dropped and reopened (publishStreamFrame and openHeldStream in server.js).
THEOREM NothingMissed == Spec => NoNoticeMissed
<1>1. TypeOK /\ Streams /\ Gapless =>
        \A s \in Sockets :
          s = sock /\ line = "open" /\ listener.open /\ toPage[s] # <<>> /\ toPage'[s] = Tail(toPage[s])
            => LET f == Head(toPage[s]) IN f.k = "event" /\ f.what = "notice" => got \in {-1, f.at - 1}
  BY NothingLeftOut
<1> QED BY <1>1, StreamsAlways, GaplessAlways, PTL DEF NoNoticeMissed

=============================================================================
