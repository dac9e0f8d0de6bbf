-------------------------- MODULE PilotSocketProofs --------------------------
(***************************************************************************)
(* Proofs about PilotSocket, for every number of requests, sockets and     *)
(* turns: the types, the bound on a socket's operations, and that the two  *)
(* ends implement RequestOnce.                                             *)
(***************************************************************************)
EXTENDS PilotSocket, SequenceTheorems, TLAPS

LEMMA OnWireType ==
  ASSUME NEW chan \in Channels, NEW s, NEW frames \in Seq(Frames)
  PROVE  OnWire(chan, s, frames) \in Channels
<1>1. CASE cut[s] BY <1>1 DEF OnWire
<1>2. CASE ~cut[s]
  <2>1. \A t \in Sockets : chan[t] \o frames \in Seq(Frames)
    <3> SUFFICES ASSUME NEW t \in Sockets PROVE chan[t] \o frames \in Seq(Frames) OBVIOUS
    <3>1. chan[t] \in Seq(Frames) BY DEF Channels
    <3> QED BY <3>1, ConcatProperties
  <2> QED BY <1>2, <2>1 DEF OnWire, Channels
<1> QED BY <1>1, <1>2

LEMMA FrameTypes ==
  /\ Hello \in Frames
  /\ \A code \in Nat : Bye(code) \in Frames
  /\ \A id \in Nat, r \in Requests :
       Op(id, r) \in Frames /\ Error(id, r) \in Frames /\ Entry(id, r) \in Entries
  /\ \A id \in Nat, r \in Requests, ok \in BOOLEAN : Reply(id, r, ok) \in Frames
BY DEF Hello, Bye, Op, Error, Entry, Reply, Frames, Entries

LEMMA WithoutType ==
  ASSUME NEW S, NEW q \in Seq(S), NEW i \in DOMAIN q
  PROVE  Without(q, i) \in Seq(S) /\ Len(Without(q, i)) = Len(q) - 1
BY DEF Without

LEMMA SayType ==
  ASSUME TypeOK, NEW s \in Sockets, NEW f \in Frames
  PROVE  Say(s, f) \in Channels
<1>1. <<f>> \in Seq(Frames) OBVIOUS
<1>2. toPage \in Channels BY DEF TypeOK, PageOK, NetworkOK
<1> QED BY <1>1, <1>2, OnWireType DEF Say

LEMMA TypeSend ==
  ASSUME TypeOK, NEW l \in Lines, NEW rs \in Seq(Requests), NEW throws \in BOOLEAN,
         Send(l, rs, throws)
  PROVE  /\ line' \in Lines
         /\ sent' \in [Requests -> Nat]
         /\ call' \in [Requests -> Calls]
         /\ toBff' \in Channels
         /\ wire' \subseteq Requests
<1>0. /\ call \in [Requests -> Calls]
      /\ sent \in [Requests -> Nat] /\ toBff \in Channels /\ wire \subseteq Requests
  BY DEF TypeOK, PageOK, NetworkOK
<1>1. line' \in Lines
  <2>1. Len(rs) \in Nat BY LenProperties
  <2>2. line' = [l EXCEPT !.nextID = l.nextID + Len(rs)] BY DEF Send
  <2> QED BY <2>1, <2>2 DEF Lines
<1>2. CASE throws
  <2>1. \A i \in DOMAIN rs : rs[i] \in Requests BY LenProperties, ElementOfSeq
  <2>2. OverHttp({rs[i] : i \in DOMAIN rs}) /\ UNCHANGED <<sent, toBff>>
    BY <1>2 DEF Send
  <2> QED BY <1>0, <1>1, <2>1, <2>2 DEF OverHttp, Calls
<1>3. CASE ~throws
  <2>1. \A r \in Requests : InSeq(r, rs) => (CHOOSE i \in DOMAIN rs : rs[i] = r) \in 1..Len(rs)
    BY LenProperties DEF InSeq
  <2>2. FirstID(l) \in Nat /\ FirstID(l) >= 1 BY DEF FirstID, Lines
  <2>3. sent' \in [Requests -> Nat]
    <3> DEFINE At(r) == FirstID(l) + (CHOOSE i \in DOMAIN rs : rs[i] = r) - 1
    <3>1. \A r \in Requests : InSeq(r, rs) => At(r) \in Nat BY <2>1, <2>2
    <3>2. sent' = [r \in Requests |-> IF InSeq(r, rs) THEN At(r) ELSE sent[r]]
      BY <1>3 DEF Send
    <3> HIDE DEF At
    <3> QED BY <1>0, <3>1, <3>2
  <2>4. \A i \in 1..Len(rs) : Op(FirstID(l) + i - 1, rs[i]) \in Frames
    <3> SUFFICES ASSUME NEW i \in 1..Len(rs) PROVE Op(FirstID(l) + i - 1, rs[i]) \in Frames
      OBVIOUS
    <3>1. rs[i] \in Requests BY ElementOfSeq
    <3>2. FirstID(l) + i - 1 \in Nat BY <2>2, LenProperties
    <3> QED BY <3>1, <3>2, FrameTypes
  <2>5. [i \in DOMAIN rs |-> Op(FirstID(l) + i - 1, rs[i])] \in Seq(Frames)
    <3>1. Len(rs) \in Nat /\ DOMAIN rs = 1..Len(rs) BY LenProperties
    <3>2. [i \in DOMAIN rs |-> Op(FirstID(l) + i - 1, rs[i])] \in [1..Len(rs) -> Frames]
      BY <2>4, <3>1
    <3> QED BY <3>1, <3>2, SeqDef
  <2>6. toBff' \in Channels
    BY <1>0, <1>3, <2>5, OnWireType DEF Send
  <2>7. call' \in [Requests -> Calls]
    BY <1>0, <1>3 DEF Send, Calls
  <2> QED BY <1>0, <1>1, <1>3, <2>3, <2>6, <2>7 DEF Send
<1> QED BY <1>2, <1>3

LEMMA TypeDown ==
  ASSUME TypeOK, NEW refused \in BOOLEAN, Down(refused)
  PROVE  /\ line' \in Lines /\ queued' \in Seq(Requests)
         /\ sent' \in [Requests -> Nat]
         /\ call' \in [Requests -> Calls]
         /\ wire' \subseteq Requests
<1>0. line \in Lines BY DEF TypeOK, PageOK
<1>1. line' \in Lines
  <2>1. line' = [line EXCEPT !.state = "down", !.sock = 0, !.refused = refused, !.due = FALSE]
    BY DEF Down
  <2>2. 0 \in 0..MaxSockets BY BoundsAssumption
  <2> QED BY <1>0, <2>1, <2>2 DEF Lines
<1>2. queued' \in Seq(Requests) /\ sent' \in [Requests -> Nat] /\ wire' \subseteq Requests
  BY DEF TypeOK, NetworkOK, Down
<1>3. call' \in [Requests -> Calls]
  BY DEF TypeOK, PageOK, Down, Calls, Settled
<1> QED BY <1>1, <1>2, <1>3

LEMMA TypeLetGo ==
  ASSUME TypeOK, NEW answered, LetGo(answered)
  PROVE  /\ line' \in Lines /\ queued' \in Seq(Requests)
         /\ sent' \in [Requests -> Nat]
         /\ call' \in [Requests -> Calls]
         /\ wire' \subseteq Requests
         /\ pageEnd' \in [Sockets -> {"unused", "opening", "open", "closed"}]
         /\ toBff' \in Channels
<1>1. Bye(1000) \in Frames BY FrameTypes
<1>2. toBff \in Channels BY DEF TypeOK, NetworkOK
<1>3. toBff' \in Channels
  <2> DEFINE bye == Bye(1000)
  <2>1. bye \in Frames /\ <<bye>> = <<Bye(1000)>> BY <1>1
  <2> HIDE DEF bye
  <2>2. <<bye>> \in Seq(Frames) BY <2>1
  <2>3. \A s : OnWire(toBff, s, <<bye>>) \in Channels
    <3> SUFFICES ASSUME NEW s PROVE OnWire(toBff, s, <<bye>>) \in Channels OBVIOUS
    <3> QED BY <1>2, <2>2, OnWireType
  <2>4. CASE line.sock = 0 BY <1>2, <2>4 DEF LetGo
  <2>5. CASE line.sock # 0
    <3>1. toBff' = OnWire(toBff, line.sock, <<Bye(1000)>>) BY <2>5 DEF LetGo
    <3> QED BY <2>1, <2>3, <3>1
  <2> QED BY <2>4, <2>5
<1>4. line' \in Lines BY BoundsAssumption DEF LetGo, Lines, NoLine
<1>5. pageEnd' \in [Sockets -> {"unused", "opening", "open", "closed"}]
  BY DEF LetGo, TypeOK, PageOK
<1>6. queued' \in Seq(Requests) /\ wire' \subseteq Requests
  BY DEF TypeOK, NetworkOK, LetGo
<1>7. /\ sent' \in [Requests -> Nat]
      /\ call' \in [Requests -> Calls]
  BY DEF TypeOK, PageOK, LetGo, Calls, Settled
<1> QED BY <1>3, <1>4, <1>5, <1>6, <1>7

LEMMA OneRequest ==
  ASSUME NEW r \in Requests
  PROVE  <<r>> \in Seq(Requests) /\ {r} \subseteq Requests
OBVIOUS

LEMMA UnchangedParts ==
  /\ PageOK /\ UNCHANGED pageVars => PageOK'
  /\ BffOK /\ UNCHANGED <<bffVars, runs>> => BffOK'
  /\ NetworkOK /\ UNCHANGED <<toBff, toPage, cut, wire>> => NetworkOK'
<1>1. PageOK /\ UNCHANGED pageVars => PageOK' BY DEF PageOK, pageVars
<1>2. BffOK /\ UNCHANGED <<bffVars, runs>> => BffOK' BY DEF BffOK, bffVars
<1>3. NetworkOK /\ UNCHANGED <<toBff, toPage, cut, wire>> => NetworkOK' BY DEF NetworkOK
<1> QED BY <1>1, <1>2, <1>3

LEMMA TypeOverHttp ==
  ASSUME TypeOK, NEW rs \in SUBSET Requests, OverHttp(rs)
  PROVE  call' \in [Requests -> Calls] /\ wire' \subseteq Requests
BY DEF OverHttp, TypeOK, PageOK, NetworkOK, Calls

LEMMA TypeAsk ==
  ASSUME TypeOK, NEW r \in Requests, Ask(r)
  PROVE  TypeOK'
<1>0. PageOK /\ BffOK /\ NetworkOK BY DEF TypeOK
<1>a. UNCHANGED <<bffVars, runs, toPage, cut>>
  BY DEF Ask, AskWarm, AskConnect, AskDown, AskQueued, AskSent
<1>b. BffOK' BY <1>0, <1>a, UnchangedParts
<1>1. CASE AskWarm(r) \/ AskDown(r)
  <2>1. OverHttp({r}) /\ UNCHANGED <<line, queued, sent, pageEnd, toBff>>
    BY <1>1 DEF AskWarm, AskDown
  <2>2. call' \in [Requests -> Calls] /\ wire' \subseteq Requests BY <2>1, TypeOverHttp
  <2>3. asked' \in 0..WarmUp
    BY <1>0, <1>1, BoundsAssumption DEF AskWarm, AskDown, PageOK
  <2>4. PageOK' BY <1>0, <2>1, <2>2, <2>3 DEF PageOK
  <2>5. NetworkOK' BY <1>0, <1>a, <2>1, <2>2 DEF NetworkOK
  <2> QED BY <1>b, <2>4, <2>5 DEF TypeOK
<1>2. CASE AskConnect(r)
  <2>1. asked' \in 0..WarmUp
    <3>1. asked' = 0 BY <1>2 DEF AskConnect
    <3> QED BY <3>1, BoundsAssumption
  <2>2. UNCHANGED <<sent, toBff>> BY <1>2 DEF AskConnect
  <2>3. ASSUME NEW s \in Sockets,
               pageEnd' = [pageEnd EXCEPT ![s] = "opening"],
               line' = [line EXCEPT !.state = "connecting", !.sock = s, !.idle = FALSE],
               queued' = Append(queued, r),
               call' = [call EXCEPT ![r] = "waiting"],
               UNCHANGED wire
        PROVE  PageOK' /\ NetworkOK'
    <3>1. queued' \in Seq(Requests) BY <1>0, <2>3, AppendProperties DEF PageOK
    <3>2. line' \in Lines
      <4>1. line \in Lines /\ s \in 0..MaxSockets BY <1>0 DEF PageOK, Sockets
      <4> QED BY <2>3, <4>1 DEF Lines
    <3>3. call' \in [Requests -> Calls] BY <1>0, <2>3 DEF PageOK, Calls
    <3>4. pageEnd' \in [Sockets -> {"unused", "opening", "open", "closed"}]
      BY <1>0, <2>3 DEF PageOK
    <3>5. PageOK' BY <1>0, <2>1, <2>2, <3>1, <3>2, <3>3, <3>4 DEF PageOK
    <3> QED BY <1>0, <1>a, <2>2, <2>3, <3>5 DEF NetworkOK
  <2>4. ASSUME line' = [line EXCEPT !.state = "down", !.due = FALSE,
                                    !.idle = IF line.state = "none" THEN FALSE ELSE @],
               OverHttp({r}), UNCHANGED <<queued, pageEnd>>
        PROVE  PageOK' /\ NetworkOK'
    <3>1. line' \in Lines BY <1>0, <2>4 DEF PageOK, Lines
    <3>2. call' \in [Requests -> Calls] /\ wire' \subseteq Requests BY <2>4, TypeOverHttp
    <3>3. PageOK' BY <1>0, <2>1, <2>2, <2>4, <3>1, <3>2 DEF PageOK
    <3> QED BY <1>0, <1>a, <2>2, <3>2, <3>3 DEF NetworkOK
  <2>5. PageOK' /\ NetworkOK' BY <1>2, <2>3, <2>4 DEF AskConnect
  <2> QED BY <1>b, <2>5 DEF TypeOK
<1>3. CASE AskQueued(r)
  <2>1. queued' \in Seq(Requests) BY <1>0, <1>3, AppendProperties DEF PageOK, AskQueued
  <2>2. line' \in Lines BY <1>0, <1>3 DEF PageOK, Lines, AskQueued
  <2>3. call' \in [Requests -> Calls] BY <1>0, <1>3 DEF PageOK, Calls, AskQueued
  <2>4. PageOK' BY <1>0, <1>3, <2>1, <2>2, <2>3 DEF AskQueued, PageOK
  <2>5. NetworkOK' BY <1>0, <1>3 DEF AskQueued, NetworkOK
  <2> QED BY <1>b, <2>4, <2>5 DEF TypeOK
<1>4. CASE AskSent(r)
  <2>1. PICK throws \in BOOLEAN : Send([line EXCEPT !.idle = FALSE], <<r>>, throws)
    BY <1>4 DEF AskSent
  <2>2. [line EXCEPT !.idle = FALSE] \in Lines BY <1>0 DEF PageOK, Lines
  <2>3. /\ line' \in Lines /\ sent' \in [Requests -> Nat] /\ call' \in [Requests -> Calls]
        /\ toBff' \in Channels /\ wire' \subseteq Requests
    BY <2>1, <2>2, TypeSend, OneRequest
  <2>4. PageOK' BY <1>0, <1>4, <2>3 DEF AskSent, PageOK
  <2>5. NetworkOK' BY <1>0, <1>a, <2>3 DEF NetworkOK
  <2> QED BY <1>b, <2>4, <2>5 DEF TypeOK
<1> QED BY <1>1, <1>2, <1>3, <1>4 DEF Ask

LEMMA TypeAbort ==
  ASSUME TypeOK, NEW r \in Requests, Abort(r)
  PROVE  TypeOK'
<1>0. PageOK /\ BffOK /\ NetworkOK BY DEF TypeOK
<1>1. BffOK' /\ NetworkOK' BY <1>0, UnchangedParts DEF Abort
<1>2. queued' \in Seq(Requests)
  <2>1. CASE InSeq(r, queued)
    <3> DEFINE i == CHOOSE j \in DOMAIN queued : queued[j] = r
    <3>1. i \in DOMAIN queued BY <2>1 DEF InSeq
    <3>2. queued' = Without(queued, i) BY <2>1 DEF Abort
    <3> HIDE DEF i
    <3> QED BY <1>0, <3>1, <3>2, WithoutType DEF PageOK
  <2>2. CASE ~InSeq(r, queued) BY <1>0, <2>2 DEF Abort, PageOK
  <2> QED BY <2>1, <2>2
<1>3. PageOK' BY <1>0, <1>2 DEF Abort, PageOK, Calls, Settled
<1> QED BY <1>1, <1>3 DEF TypeOK

LEMMA TypeClosed ==
  ASSUME TypeOK, NEW s \in Sockets, NEW code \in Nat, Closed(s, code), asked' = asked
  PROVE  PageOK' /\ wire' \subseteq Requests
<1>0. PageOK /\ NetworkOK BY DEF TypeOK
<1>1. pageEnd' \in [Sockets -> {"unused", "opening", "open", "closed"}]
  BY <1>0 DEF Closed, PageOK
<1>2. CASE line.sock = s
  <2> DEFINE refused == line.state # "open" /\ code = 4401
  <2>1. Down(refused) BY <1>2 DEF Closed
  <2>2. refused \in BOOLEAN OBVIOUS
  <2> HIDE DEF refused
  <2>3. /\ line' \in Lines /\ queued' \in Seq(Requests) /\ sent' \in [Requests -> Nat]
        /\ call' \in [Requests -> Calls] /\ wire' \subseteq Requests
    BY <2>1, <2>2, TypeDown
  <2> QED BY <1>0, <1>1, <2>3 DEF PageOK
<1>3. CASE line.sock # s BY <1>0, <1>1, <1>3 DEF Closed, PageOK, NetworkOK
<1> QED BY <1>2, <1>3

LEMMA TypeTail ==
  ASSUME NEW chan \in Channels, NEW s \in Sockets, chan[s] # <<>>
  PROVE  Head(chan[s]) \in Frames /\ [chan EXCEPT ![s] = Tail(@)] \in Channels
<1>1. chan[s] \in Seq(Frames) BY DEF Channels
<1>2. Head(chan[s]) \in Frames /\ Tail(chan[s]) \in Seq(Frames)
  BY <1>1, HeadTailProperties
<1> QED BY <1>2 DEF Channels

LEMMA TypePageTakes ==
  ASSUME TypeOK, NEW s \in Sockets, PageTakes(s)
  PROVE  TypeOK'
<1> DEFINE f == Head(toPage[s])
<1>0. PageOK /\ BffOK /\ NetworkOK BY DEF TypeOK
<1>1. f \in Frames /\ toPage' \in Channels
  BY <1>0, TypeTail DEF PageTakes, NetworkOK
<1>2. BffOK' BY <1>0, UnchangedParts DEF PageTakes
<1>3. asked' = asked /\ cut' = cut BY DEF PageTakes
<1>4. SUFFICES PageOK' /\ toBff' \in Channels /\ wire' \subseteq Requests
  BY <1>0, <1>1, <1>2, <1>3 DEF TypeOK, NetworkOK
<1>5. CASE f.k = "close" /\ Closed(s, f.code) /\ UNCHANGED toBff
  <2>1. f.code \in Nat BY <1>1, <1>5 DEF Frames
  <2>2. Closed(s, f.code) BY <1>5
  <2> HIDE DEF f
  <2>3. PageOK' /\ wire' \subseteq Requests BY <1>3, <2>1, <2>2, TypeClosed
  <2> QED BY <1>0, <1>5, <2>3 DEF NetworkOK
<1>6. CASE TakeHelloSaid(s)
  <2>1. PICK throws \in BOOLEAN : Send([line EXCEPT !.state = "open"], queued, throws)
    BY <1>6 DEF TakeHelloSaid
  <2>2. [line EXCEPT !.state = "open"] \in Lines /\ queued \in Seq(Requests)
    BY <1>0 DEF PageOK, Lines
  <2>3. /\ line' \in Lines /\ sent' \in [Requests -> Nat] /\ call' \in [Requests -> Calls]
        /\ toBff' \in Channels /\ wire' \subseteq Requests
    BY <2>1, <2>2, TypeSend
  <2> QED BY <1>0, <1>3, <1>6, <2>3 DEF TakeHelloSaid, PageOK
<1>7. CASE TakeReply(f)
  <2>1. PICK r \in Requests :
          \/ LetGo({r})
          \/ /\ sent' = [sent EXCEPT ![r] = 0]
             /\ call' = [call EXCEPT ![r] = "answered"]
             /\ UNCHANGED <<line, queued, pageEnd, toBff, wire>>
    BY <1>7 DEF TakeReply
  <2>2. CASE LetGo({r}) BY <1>0, <1>3, <2>2, TypeLetGo DEF PageOK
  <2>3. CASE /\ sent' = [sent EXCEPT ![r] = 0]
             /\ call' = [call EXCEPT ![r] = "answered"]
             /\ UNCHANGED <<line, queued, pageEnd, toBff, wire>>
    BY <1>0, <1>3, <2>3 DEF PageOK, NetworkOK, Calls, Settled
  <2> QED BY <2>1, <2>2, <2>3
<1>8. CASE TakeError(f)
  <2>1. PICK r \in Requests : /\ sent' = [sent EXCEPT ![r] = 0]
                              /\ OverHttp({r})
                              /\ UNCHANGED <<line, queued, pageEnd, toBff>>
    BY <1>8 DEF TakeError
  <2>2. call' \in [Requests -> Calls] /\ wire' \subseteq Requests BY <2>1, TypeOverHttp
  <2> QED BY <1>0, <1>3, <2>1, <2>2 DEF PageOK, NetworkOK
<1>9. CASE UNCHANGED <<line, queued, sent, call, pageEnd, toBff, wire>>
  BY <1>0, <1>3, <1>9 DEF PageOK, NetworkOK
<1> QED BY <1>5, <1>6, <1>7, <1>8, <1>9 DEF PageTakes

LEMMA TypePage ==
  ASSUME TypeOK, Page
  PROVE  TypeOK'
<1>0. PageOK /\ BffOK /\ NetworkOK BY DEF TypeOK
<1>1. ASSUME NEW s \in Sockets, Opened(s) PROVE TypeOK'
  <2>1. BffOK' BY <1>0, <1>1, UnchangedParts DEF Opened
  <2>2. PageOK' BY <1>0, <1>1 DEF Opened, PageOK
  <2>3. toBff' \in Channels
    <3>1. <<Hello>> \in Seq(Frames) BY FrameTypes
    <3>2. OnWire(toBff, s, <<Hello>>) \in Channels BY <1>0, <3>1, OnWireType DEF NetworkOK
    <3> QED BY <1>0, <1>1, <3>2 DEF Opened, NetworkOK
  <2> QED BY <1>0, <1>1, <2>1, <2>2, <2>3 DEF Opened, NetworkOK, TypeOK
<1>2. ASSUME NEW s \in Sockets, PageLoses(s) PROVE TypeOK'
  <2>1. Closed(s, 1006) /\ asked' = asked BY <1>2 DEF PageLoses
  <2>2. PageOK' /\ wire' \subseteq Requests
    <3> DEFINE code == 1006
    <3>1. code \in Nat /\ Closed(s, code) BY <2>1
    <3> HIDE DEF code
    <3> QED BY <2>1, <3>1, TypeClosed
  <2>3. BffOK' BY <1>0, <1>2, UnchangedParts DEF PageLoses
  <2> QED BY <1>0, <1>2, <2>2, <2>3 DEF PageLoses, NetworkOK, TypeOK
<1>3. ASSUME RetryDue \/ IdleElapses PROVE TypeOK'
  <2>1. BffOK' /\ NetworkOK' BY <1>0, <1>3, UnchangedParts DEF RetryDue, IdleElapses
  <2>2. line' \in Lines BY <1>0, <1>3 DEF RetryDue, IdleElapses, PageOK, Lines
  <2>3. PageOK' BY <1>0, <1>3, <2>2 DEF RetryDue, IdleElapses, PageOK
  <2> QED BY <2>1, <2>3 DEF TypeOK
<1>4. ASSUME Sweep PROVE TypeOK'
  <2>1. LetGo({}) BY <1>4 DEF Sweep
  <2>2. BffOK' BY <1>0, <1>4, UnchangedParts DEF Sweep
  <2>3. PageOK' BY <1>0, <1>4, <2>1, TypeLetGo DEF Sweep, PageOK
  <2>4. NetworkOK' BY <1>0, <1>4, <2>1, TypeLetGo DEF Sweep, NetworkOK
  <2> QED BY <2>2, <2>3, <2>4 DEF TypeOK
<1> QED BY <1>1, <1>2, <1>3, <1>4, TypeAsk, TypeAbort, TypePageTakes DEF Page

LEMMA TypeBffTakes ==
  ASSUME TypeOK, NEW s \in Sockets, BffTakes(s)
  PROVE  TypeOK'
<1> DEFINE f == Head(toBff[s])
<1>0. PageOK /\ BffOK /\ NetworkOK BY DEF TypeOK
<1>1. f \in Frames /\ toBff' \in Channels BY <1>0, TypeTail DEF BffTakes, NetworkOK
<1>2. PageOK' BY <1>0, UnchangedParts DEF BffTakes
<1>3. UNCHANGED <<tokenKnown, cut, wire>> BY DEF BffTakes
<1>4. SUFFICES BffOK' /\ toPage' \in Channels
  BY <1>0, <1>1, <1>2, <1>3 DEF TypeOK, NetworkOK
<1>5. CASE TakeHello(s)
  <2>1. BffOK' BY <1>0, <1>3, <1>5 DEF TakeHello, BffOK
  <2>2. PICK g \in {Hello, Bye(4401)} : toPage' = Say(s, g) BY <1>5 DEF TakeHello
  <2>3. g \in Frames BY <2>2, FrameTypes
  <2> QED BY <2>1, <2>2, <2>3, SayType
<1>6. CASE f.k = "op" /\ TakeOperation(s, f)
  <2> DEFINE e == Entry(f.id, f.req)
  <2>1. f.id \in Nat /\ f.req \in Requests BY <1>1, <1>6 DEF Frames
  <2>2. e \in Entries /\ e.req \in Requests BY <2>1 DEF Entry, Entries
  <2>3. running[s] \in Seq(Entries) /\ turns[s] \in Seq(Entries) BY <1>0 DEF BffOK
  <2>4. Append(running[s], e) \in Seq(Entries) /\ Append(turns[s], e) \in Seq(Entries)
    BY <2>2, <2>3, AppendProperties
  <2>5. CASE Start(s, e) /\ UNCHANGED <<turns, toPage, bffEnd>>
    BY <1>0, <1>3, <2>2, <2>4, <2>5 DEF Start, BffOK, NetworkOK
  <2>6. CASE turns' = [turns EXCEPT ![s] = Append(@, e)] /\ UNCHANGED <<running, runs, toPage, bffEnd>>
    BY <1>0, <1>3, <2>4, <2>6 DEF BffOK, NetworkOK
  <2>7. CASE toPage' = Say(s, Error(f.id, f.req)) /\ UNCHANGED <<running, turns, runs, bffEnd>>
    <3>1. Error(f.id, f.req) \in Frames BY <2>1, FrameTypes
    <3>2. toPage' \in Channels BY <2>7, <3>1, SayType
    <3> QED BY <1>0, <1>3, <2>7, <3>2 DEF BffOK
  <2> QED BY <1>6, <2>5, <2>6, <2>7 DEF TakeOperation
<1>7. CASE BffCloses(s) BY <1>0, <1>3, <1>7 DEF BffCloses, BffOK, NetworkOK
<1> QED BY <1>5, <1>6, <1>7 DEF BffTakes

LEMMA TypeFinish ==
  ASSUME TypeOK, NEW s \in Sockets, NEW i \in DOMAIN running[s], Finish(s, i)
  PROVE  TypeOK'
<1>0. PageOK /\ BffOK /\ NetworkOK BY DEF TypeOK
<1>1. PageOK' BY <1>0, UnchangedParts DEF Finish
<1>2. running[s] \in Seq(Entries) /\ turns[s] \in Seq(Entries) BY <1>0 DEF BffOK
<1>3. running[s][i] \in Entries
  <2>1. i \in 1..Len(running[s]) BY <1>2, LenProperties
  <2> QED BY <1>2, <2>1, ElementOfSeq
<1>4. NetworkOK'
  <2> DEFINE e == running[s][i]
  <2>1. PICK ok \in BOOLEAN : toPage' = Say(s, Reply(e.id, e.req, ok)) BY DEF Finish
  <2>2. e.id \in Nat /\ e.req \in Requests BY <1>3 DEF Entries
  <2>3. Reply(e.id, e.req, ok) \in Frames BY <2>2, FrameTypes
  <2>4. toPage' \in Channels BY <2>1, <2>3, SayType
  <2> QED BY <1>0, <2>4 DEF Finish, NetworkOK
<1>5. Without(running[s], i) \in Seq(Entries) BY <1>2, WithoutType
<1>6. CASE turns[s] = <<>>
  <2>1. running' = [running EXCEPT ![s] = Without(@, i)] /\ UNCHANGED <<turns, runs, bffEnd, tokenKnown>>
    BY <1>6 DEF Finish
  <2>2. BffOK' BY <1>0, <1>5, <2>1 DEF BffOK
  <2> QED BY <1>1, <1>4, <2>2 DEF TypeOK
<1>7. CASE turns[s] # <<>>
  <2> DEFINE next == Head(turns[s])
  <2>1. next \in Entries /\ Tail(turns[s]) \in Seq(Entries)
    BY <1>2, <1>7, HeadTailProperties
  <2>2. /\ running' = [running EXCEPT ![s] = Append(Without(@, i), next)]
        /\ runs' = [runs EXCEPT ![next.req] = @ + 1]
        /\ turns' = [turns EXCEPT ![s] = Tail(turns[s])]
        /\ UNCHANGED <<bffEnd, tokenKnown>>
    BY <1>7 DEF Finish, TakeTurn
  <2> HIDE DEF next
  <2>3. Append(Without(running[s], i), next) \in Seq(Entries) BY <1>5, <2>1, AppendProperties
  <2>4. running' \in [Sockets -> Seq(Entries)] BY <1>0, <2>2, <2>3 DEF BffOK
  <2>5. turns' \in [Sockets -> Seq(Entries)] BY <1>0, <2>1, <2>2 DEF BffOK
  <2>6. runs' \in [Requests -> Nat]
    <3>1. next.req \in Requests BY <2>1 DEF Entries
    <3> QED BY <1>0, <2>2, <3>1 DEF BffOK
  <2>7. BffOK' BY <1>0, <2>2, <2>4, <2>5, <2>6 DEF BffOK
  <2> QED BY <1>1, <1>4, <2>7 DEF TypeOK
<1> QED BY <1>6, <1>7

LEMMA TypeBff ==
  ASSUME TypeOK, Bff
  PROVE  TypeOK'
<1>0. PageOK /\ BffOK /\ NetworkOK BY DEF TypeOK
<1>1. ASSUME NEW s \in Sockets, Accept(s) PROVE TypeOK'
  <2>1. PageOK' BY <1>0, <1>1, UnchangedParts DEF Accept
  <2> QED BY <1>0, <1>1, <2>1 DEF Accept, BffOK, NetworkOK, TypeOK
<1>2. ASSUME NEW s \in Sockets, HelloTimeout(s) PROVE TypeOK'
  <2>1. PageOK' BY <1>0, <1>2, UnchangedParts DEF HelloTimeout
  <2>2. toPage' \in Channels
    <3> DEFINE bye == Bye(4400)
    <3>1. bye \in Frames /\ toPage' = Say(s, bye) BY <1>2, FrameTypes DEF HelloTimeout
    <3> HIDE DEF bye
    <3> QED BY <3>1, SayType
  <2> QED BY <1>0, <1>2, <2>1, <2>2 DEF HelloTimeout, BffOK, NetworkOK, TypeOK
<1>3. ASSUME NEW s \in Sockets, BffLoses(s) PROVE TypeOK'
  <2>1. PageOK' BY <1>0, <1>3, UnchangedParts DEF BffLoses
  <2> QED BY <1>0, <1>3, <2>1 DEF BffLoses, BffCloses, BffOK, NetworkOK, TypeOK
<1>4. ASSUME TokenExpires PROVE TypeOK'
  <2>1. PageOK' /\ NetworkOK' BY <1>0, <1>4, UnchangedParts DEF TokenExpires
  <2> QED BY <1>0, <1>4, <2>1 DEF TokenExpires, BffOK, TypeOK
<1> QED BY <1>1, <1>2, <1>3, <1>4, TypeBffTakes, TypeFinish DEF Bff

LEMMA TypeNetwork ==
  ASSUME TypeOK, Network
  PROVE  TypeOK'
<1>0. PageOK /\ BffOK /\ NetworkOK BY DEF TypeOK
<1>1. ASSUME NEW r \in Requests, HttpRun(r) PROVE TypeOK'
  <2>1. PageOK' BY <1>0, <1>1, UnchangedParts DEF HttpRun
  <2>2. BffOK' BY <1>0, <1>1 DEF HttpRun, bffVars, BffOK
  <2> QED BY <1>0, <1>1, <2>1, <2>2 DEF HttpRun, NetworkOK, TypeOK
<1>2. ASSUME NEW r \in Requests, HttpAnswer(r) \/ HttpFail(r) PROVE TypeOK'
  <2>1. BffOK' BY <1>0, <1>2, UnchangedParts DEF HttpAnswer, HttpFail
  <2>2. PageOK' BY <1>0, <1>2 DEF HttpAnswer, HttpFail, PageOK, Calls, Settled
  <2> QED BY <1>0, <1>2, <2>1, <2>2 DEF HttpAnswer, HttpFail, NetworkOK, TypeOK
<1>3. ASSUME NEW s \in Sockets, Cut(s) PROVE TypeOK'
  <2>1. PageOK' /\ BffOK' BY <1>0, <1>3, UnchangedParts DEF Cut
  <2> QED BY <1>0, <1>3, <2>1 DEF Cut, NetworkOK, TypeOK
<1> QED BY <1>1, <1>2, <1>3 DEF Network

\* Every variable holds what its place in the code can hold, in every state.
THEOREM TypeCorrect == Spec => []TypeOK
<1>1. Init => TypeOK
  <2> SUFFICES ASSUME Init PROVE TypeOK OBVIOUS
  <2>1. PageOK
    <3>1. 0 \in 0..WarmUp /\ 0 \in 0..MaxSockets BY BoundsAssumption
    <3>2. line \in Lines BY <3>1 DEF Init, NoLine, Lines
    <3> QED BY <3>1, <3>2 DEF Init, PageOK, Calls
  <2>2. BffOK BY DEF Init, BffOK
  <2>3. NetworkOK BY DEF Init, NetworkOK, Channels
  <2> QED BY <2>1, <2>2, <2>3 DEF TypeOK
<1>2. TypeOK /\ [Next]_vars => TypeOK'
  <2>1. TypeOK /\ UNCHANGED vars => TypeOK'
    BY UnchangedParts DEF TypeOK, vars, pageVars, bffVars
  <2> QED BY <2>1, TypePage, TypeBff, TypeNetwork DEF Next
<1> QED BY <1>1, <1>2, PTL DEF Spec

(***************************************************************************)
(* A socket's bounds.  OperationsBounded is inductive with the types: what *)
(* waits has a full socket before it, so freeing a place takes its turn.   *)
(***************************************************************************)

Within(s) ==
  /\ Len(running[s]) <= MaxRunning
  /\ Len(turns[s]) <= MaxWaiting
  /\ turns[s] # <<>> => Len(running[s]) = MaxRunning /\ bffEnd[s] = "ready"

LEMMA SocketLengths ==
  ASSUME TypeOK, NEW s \in Sockets
  PROVE  /\ running[s] \in Seq(Entries) /\ turns[s] \in Seq(Entries)
         /\ Len(running[s]) \in Nat /\ Len(turns[s]) \in Nat
         /\ DOMAIN running[s] = 1..Len(running[s])
         /\ Len(turns[s]) = 0 <=> turns[s] = <<>>
<1>1. running[s] \in Seq(Entries) /\ turns[s] \in Seq(Entries) BY DEF TypeOK, BffOK
<1> QED BY <1>1, LenProperties, EmptySeq

LEMMA BoundedTakeOperation ==
  ASSUME TypeOK, NEW s \in Sockets, Within(s), NEW f \in Frames, f.k = "op", TakeOperation(s, f)
  PROVE  Within(s)'
<1> DEFINE e == Entry(f.id, f.req)
<1>0. e \in Entries BY DEF Entry, Entries, Frames
<1>1. /\ running[s] \in Seq(Entries) /\ turns[s] \in Seq(Entries)
      /\ Len(running[s]) \in Nat /\ Len(turns[s]) \in Nat
      /\ Len(turns[s]) = 0 <=> turns[s] = <<>>
  BY SocketLengths
<1>2. /\ Len(Append(running[s], e)) = Len(running[s]) + 1
      /\ Len(Append(turns[s], e)) = Len(turns[s]) + 1
  BY <1>0, <1>1, AppendProperties
<1>3. running \in [Sockets -> Seq(Entries)] /\ turns \in [Sockets -> Seq(Entries)]
  BY DEF TypeOK, BffOK
<1>4. bffEnd[s] = "ready" /\ bffEnd' = bffEnd BY DEF TakeOperation
<1>5. MaxRunning \in Nat /\ MaxWaiting \in Nat BY BoundsAssumption
<1>6. CASE Free(s) /\ Start(s, e) /\ UNCHANGED turns
  <2>1. running'[s] = Append(running[s], e) /\ turns'[s] = turns[s] BY <1>3, <1>6 DEF Start
  <2> HIDE DEF e
  <2> QED BY <1>1, <1>2, <1>5, <1>6, <2>1 DEF Free, Within
<1>7. CASE ~Free(s) /\ Len(turns[s]) < MaxWaiting
             /\ turns' = [turns EXCEPT ![s] = Append(@, e)] /\ UNCHANGED running
  <2>1. turns'[s] = Append(turns[s], e) /\ running'[s] = running[s] BY <1>3, <1>7
  <2> HIDE DEF e
  <2> QED BY <1>1, <1>2, <1>4, <1>5, <1>7, <2>1 DEF Free, Within
<1>8. CASE UNCHANGED <<running, turns>> BY <1>4, <1>8 DEF Within
<1> QED BY <1>6, <1>7, <1>8 DEF TakeOperation

LEMMA BoundedFinish ==
  ASSUME TypeOK, NEW s \in Sockets, Within(s), NEW i \in DOMAIN running[s], Finish(s, i)
  PROVE  Within(s)'
<1>1. /\ running[s] \in Seq(Entries) /\ turns[s] \in Seq(Entries)
      /\ Len(running[s]) \in Nat /\ Len(turns[s]) \in Nat
      /\ Len(turns[s]) = 0 <=> turns[s] = <<>>
  BY SocketLengths
<1>2. running \in [Sockets -> Seq(Entries)] /\ turns \in [Sockets -> Seq(Entries)]
  BY DEF TypeOK, BffOK
<1>3. /\ Without(running[s], i) \in Seq(Entries)
      /\ Len(Without(running[s], i)) = Len(running[s]) - 1
  BY <1>1, WithoutType
<1>4. MaxRunning \in Nat /\ MaxWaiting \in Nat /\ bffEnd' = bffEnd
  BY BoundsAssumption DEF Finish
<1>5. CASE turns[s] = <<>>
  <2>1. running'[s] = Without(running[s], i) /\ turns'[s] = turns[s] BY <1>2, <1>5 DEF Finish
  <2> QED BY <1>1, <1>3, <1>4, <1>5, <2>1 DEF Within
<1>6. CASE turns[s] # <<>>
  <2> DEFINE next == Head(turns[s])
  <2>1. next \in Entries /\ Len(Tail(turns[s])) = Len(turns[s]) - 1
    BY <1>1, <1>6, HeadTailProperties
  <2>2. /\ running'[s] = Append(Without(running[s], i), next)
        /\ turns'[s] = Tail(turns[s])
    BY <1>2, <1>6 DEF Finish, TakeTurn
  <2> HIDE DEF next
  <2>3. Len(Append(Without(running[s], i), next)) = Len(running[s])
    BY <1>1, <1>3, <2>1, AppendProperties
  <2> QED BY <1>1, <1>4, <1>6, <2>1, <2>2, <2>3 DEF Within
<1> QED BY <1>5, <1>6

LEMMA BoundedStep ==
  ASSUME TypeOK, NEW s \in Sockets, Within(s), [Next]_vars
  PROVE  Within(s)'
<1>0. /\ bffEnd \in [Sockets -> {"none", "hello", "ready", "closed"}]
      /\ turns \in [Sockets -> Seq(Entries)] /\ running \in [Sockets -> Seq(Entries)]
      /\ Len(running[s]) \in Nat /\ Len(turns[s]) \in Nat /\ MaxWaiting \in Nat
  BY SocketLengths, BoundsAssumption DEF TypeOK, BffOK
<1>1. CASE UNCHANGED <<bffEnd, running, turns>> BY <1>1 DEF Within
<1>2. ASSUME Page \/ Network \/ TokenExpires \/ UNCHANGED vars
      PROVE  UNCHANGED <<bffEnd, running, turns>>
  BY <1>2 DEF Page, Network, Ask, AskWarm, AskConnect, AskDown, AskQueued, AskSent, Abort,
              Opened, PageTakes, PageLoses, RetryDue, IdleElapses, Sweep, HttpRun,
              HttpAnswer, HttpFail, Cut, TokenExpires, vars, bffVars
<1>3. ASSUME NEW t \in Sockets, Accept(t) \/ HelloTimeout(t) \/ (BffTakes(t) /\ TakeHello(t))
      PROVE  Within(s)'
  <2>1. /\ UNCHANGED <<running, turns>> /\ bffEnd[t] # "ready"
        /\ \A u \in Sockets \ {t} : bffEnd'[u] = bffEnd[u]
    BY <1>0, <1>3 DEF Accept, HelloTimeout, TakeHello
  <2> QED BY <1>0, <2>1 DEF Within
<1>4. ASSUME NEW t \in Sockets, BffCloses(t) PROVE Within(s)'
  <2>1. CASE t = s
    <3>1. running' = running /\ turns'[s] = <<>> BY <1>0, <1>4, <2>1 DEF BffCloses
    <3>2. Len(<<>>) = 0 OBVIOUS
    <3> QED BY <1>0, <3>1, <3>2 DEF Within
  <2>2. CASE t # s
    <3>1. running' = running /\ turns'[s] = turns[s] /\ bffEnd'[s] = bffEnd[s]
      BY <1>0, <1>4, <2>2 DEF BffCloses
    <3> QED BY <3>1 DEF Within
  <2> QED BY <2>1, <2>2
<1>5. ASSUME NEW t \in Sockets, BffTakes(t) PROVE Within(s)'
  <2> DEFINE f == Head(toBff[t])
  <2>1. TakeHello(t) \/ (f.k = "op" /\ TakeOperation(t, f)) \/ BffCloses(t)
    BY <1>5 DEF BffTakes
  <2>2. ASSUME f.k = "op", TakeOperation(t, f) PROVE Within(s)'
    <3>1. f \in Frames BY <1>5, TypeTail DEF BffTakes, TypeOK, NetworkOK
    <3> HIDE DEF f
    <3>2. CASE t = s BY <2>2, <3>1, <3>2, BoundedTakeOperation
    <3>3. CASE t # s
      <4>1. running'[s] = running[s] /\ turns'[s] = turns[s] /\ bffEnd'[s] = bffEnd[s]
        BY <1>0, <2>2, <3>3 DEF TakeOperation, Start
      <4> QED BY <4>1 DEF Within
    <3> QED BY <3>2, <3>3
  <2> QED BY <1>3, <1>4, <1>5, <2>1, <2>2
<1>6. ASSUME NEW t \in Sockets, NEW i \in DOMAIN running[t], Finish(t, i) PROVE Within(s)'
  <2>1. CASE t = s BY <1>6, <2>1, BoundedFinish
  <2>2. CASE t # s
    <3>1. running'[s] = running[s] /\ turns'[s] = turns[s] /\ bffEnd'[s] = bffEnd[s]
      BY <1>0, <1>6, <2>2 DEF Finish
    <3> QED BY <3>1 DEF Within
  <2> QED BY <2>1, <2>2
<1>7. ASSUME NEW t \in Sockets, BffLoses(t) PROVE Within(s)'
  BY <1>4, <1>7 DEF BffLoses
<1> QED BY <1>1, <1>2, <1>3, <1>5, <1>6, <1>7 DEF Next, Bff

\* A socket never has more than MaxRunning operations at work or MaxWaiting
\* waiting, and none waits beside a free place or on a closed socket
\* (pilotSocket.js, run and the close handler).
THEOREM BoundedOperations == Spec => []OperationsBounded
<1>1. Init => OperationsBounded
  BY BoundsAssumption DEF Init, OperationsBounded
<1>2. TypeOK /\ OperationsBounded /\ [Next]_vars => OperationsBounded'
  <2> SUFFICES ASSUME TypeOK, OperationsBounded, [Next]_vars, NEW s \in Sockets
               PROVE  Within(s)'
    BY DEF OperationsBounded, Within
  <2>1. Within(s) BY DEF OperationsBounded, Within
  <2> QED BY <2>1, BoundedStep
<1> QED BY <1>1, <1>2, TypeCorrect, PTL DEF Spec

-----------------------------------------------------------------------------
(* PilotSocket implements RequestOnce: a request is run at most once, and  *)
(* what its asker is told of it is true.                                   *)

\* What a sequence holds, the requests of those of its elements that are in F, and that
\* no two of these are of the same request.
Els(q) == {q[i] : i \in DOMAIN q}
Reqs(q, F) == {e.req : e \in Els(q) \cap F}
Each(q, F) == \A i, j \in DOMAIN q : q[i] \in F /\ q[j] \in F /\ q[i].req = q[j].req => i = j

OfKind(k) == {f \in Frames : f.k = k}

\* The places where a request may be whose route is still to be started.
Places == {<<"queue", 0>>, <<"wire", 0>>} \cup ({"op", "turn", "refusal"} \X Sockets)

Holds(p) == CASE p[1] = "queue"   -> Els(queued)
              [] p[1] = "wire"    -> wire
              [] p[1] = "op"      -> Reqs(toBff[p[2]], OfKind("op"))
              [] p[1] = "turn"    -> Reqs(turns[p[2]], Entries)
              [] p[1] = "refusal" -> Reqs(toPage[p[2]], OfKind("error"))

\* A request is in one place only, and there once.
Apart == \A p, g \in Places : p # g => Holds(p) \cap Holds(g) = {}

Single ==
  /\ \A i, j \in DOMAIN queued : queued[i] = queued[j] => i = j
  /\ \A s \in Sockets : /\ Each(toBff[s], OfKind("op")) /\ Each(turns[s], Entries)
                        /\ Each(toPage[s], OfKind("error"))

\* What has become of each request.
Unrun == \A p \in Places : \A r \in Holds(p) : runs[r] = 0 /\ call[r] # "unasked"

Fate(r) ==
  /\ runs[r] \in {0, 1}
  /\ call[r] = "unasked" => runs[r] = 0
  /\ call[r] = "http" => r \in wire \/ runs[r] = 1
  /\ r \in Els(queued) \/ sent[r] # 0 => call[r] = "waiting"
  /\ r \in Els(queued) => sent[r] = 0

\* What is at work or answered was run.
Ran == \A s \in Sockets :
         /\ \A e \in Els(running[s]) : runs[e.req] = 1
         /\ \A f \in Els(toPage[s]) : f.k = "reply" => runs[f.req] = 1

\* Everything on a socket under an id, and whose it is.
Named(f) == f.k \in {"op", "reply", "error"}
OnSocket(s) == Els(running[s]) \cup Els(turns[s])
                 \cup {Entry(f.id, f.req) : f \in {g \in Els(toBff[s]) \cup Els(toPage[s]) : Named(g)}}

\* The ids on the line's socket were given by the line, each to one request.
Numbered ==
  /\ \A r \in Requests : sent[r] <= line.nextID
  /\ line.sock # 0 => \A e \in OnSocket(line.sock) :
                         /\ e.id \in 1..line.nextID
                         /\ \A r \in Requests : sent[r] = e.id => r = e.req

\* A socket not opened is empty, and the line's is opened.
Unopened ==
  /\ \A s \in Sockets : pageEnd[s] = "unused" =>
       bffEnd[s] = "none" /\ toBff[s] = <<>> /\ toPage[s] = <<>> /\ running[s] = <<>> /\ turns[s] = <<>>
  /\ line.sock # 0 => pageEnd[line.sock] # "unused"

Inv == TypeOK /\ Apart /\ Single /\ Unrun /\ (\A r \in Requests : Fate(r)) /\ Ran /\ Numbered /\ Unopened

-----------------------------------------------------------------------------
(* Sequences: what they hold after an element is put on, or taken off.     *)

LEMMA SeqEls ==
  ASSUME NEW X, NEW q \in Seq(X)
  PROVE  Els(q) \subseteq X /\ (\A e \in Els(q) : \E i \in DOMAIN q : q[i] = e)
BY DEF Els

LEMMA AppendEls ==
  ASSUME NEW X, NEW q \in Seq(X), NEW e \in X
  PROVE  /\ Els(Append(q, e)) = Els(q) \cup {e}
         /\ \A F : Each(q, F) /\ (e \in F => e.req \notin Reqs(q, F)) => Each(Append(q, e), F)
<1> DEFINE new == Append(q, e)
<1>1. /\ Len(new) = Len(q) + 1 /\ DOMAIN new = 1..Len(new) /\ DOMAIN q = 1..Len(q) /\ Len(q) \in Nat
      /\ \A i \in 1..Len(q) : new[i] = q[i]
      /\ new[Len(q) + 1] = e
  OBVIOUS
<1>2. \A i \in DOMAIN new : i = Len(q) + 1 \/ (i \in DOMAIN q /\ new[i] = q[i]) BY <1>1
<1>3. Len(q) + 1 \in DOMAIN new /\ \A i \in DOMAIN q : i \in DOMAIN new BY <1>1
<1> HIDE DEF new
<1>4. Els(new) = Els(q) \cup {e} BY <1>1, <1>2, <1>3 DEF Els
<1>5. ASSUME NEW F, Each(q, F), e \in F => e.req \notin Reqs(q, F) PROVE Each(new, F)
  <2>1. e \in F => \A i \in DOMAIN q : q[i] \in F => q[i].req # e.req BY <1>5 DEF Reqs, Els
  <2> QED BY <1>1, <1>2, <1>5, <2>1 DEF Each
<1> QED BY <1>4, <1>5 DEF new

LEMMA TailEls ==
  ASSUME NEW X, NEW q \in Seq(X), q # <<>>
  PROVE  /\ Head(q) \in Els(q) /\ Els(q) = Els(Tail(q)) \cup {Head(q)}
         /\ \A F : Each(q, F) => /\ Each(Tail(q), F)
                                 /\ Head(q) \in F => Head(q).req \notin Reqs(Tail(q), F)
<1> DEFINE new == Tail(q)
<1>1. /\ Len(new) = Len(q) - 1 /\ DOMAIN new = 1..Len(new) /\ DOMAIN q = 1..Len(q) /\ Len(q) \in Nat
      /\ Len(q) > 0 /\ \A i \in 1..Len(new) : new[i] = q[i + 1]
      /\ Head(q) = q[1]
  OBVIOUS
<1>2. \A i \in DOMAIN q : i = 1 \/ (i - 1 \in DOMAIN new /\ new[i - 1] = q[i]) BY <1>1
<1>3. 1 \in DOMAIN q /\ \A i \in DOMAIN new : i + 1 \in DOMAIN q /\ i + 1 # 1 /\ new[i] = q[i + 1] BY <1>1
<1> HIDE DEF new
<1>4. Head(q) \in Els(q) /\ Els(q) = Els(new) \cup {Head(q)}
  <2>1. Head(q) \in Els(q) BY <1>1, <1>3 DEF Els
  <2>2. Els(new) \subseteq Els(q) BY <1>3 DEF Els
  <2>3. ASSUME NEW i \in DOMAIN q PROVE q[i] \in Els(new) \cup {Head(q)}
    <3>1. CASE i = 1 BY <1>1, <3>1
    <3>2. CASE i # 1 BY <1>2, <3>2 DEF Els
    <3> QED BY <3>1, <3>2
  <2>4. Els(q) \subseteq Els(new) \cup {Head(q)} BY <2>3 DEF Els
  <2> QED BY <2>1, <2>2, <2>4
<1>5. ASSUME NEW F, Each(q, F) PROVE Each(new, F) /\ (Head(q) \in F => Head(q).req \notin Reqs(new, F))
  <2>1. Each(new, F) BY <1>1, <1>3, <1>5 DEF Each
  <2>2. ASSUME Head(q) \in F, Head(q).req \in Reqs(new, F) PROVE FALSE
    <3>1. PICK i \in DOMAIN new : new[i] \in F /\ new[i].req = Head(q).req BY <2>2 DEF Reqs, Els
    <3> QED BY <1>1, <1>3, <1>5, <2>2, <3>1 DEF Each
  <2> QED BY <2>1, <2>2
<1> QED BY <1>4, <1>5 DEF new

LEMMA ConcatEls ==
  ASSUME NEW X, NEW q \in Seq(X), NEW p \in Seq(X)
  PROVE  /\ Els(q \o p) = Els(q) \cup Els(p)
         /\ \A F : Each(q, F) /\ Each(p, F) /\ Reqs(q, F) \cap Reqs(p, F) = {} => Each(q \o p, F)
<1> DEFINE new == q \o p
<1>1. /\ Len(new) = Len(q) + Len(p) /\ DOMAIN new = 1..Len(new) /\ DOMAIN q = 1..Len(q)
      /\ DOMAIN p = 1..Len(p) /\ Len(q) \in Nat /\ Len(p) \in Nat
      /\ \A i \in 1..Len(q) : new[i] = q[i]
      /\ \A i \in 1..Len(p) : new[i + Len(q)] = p[i]
  OBVIOUS
<1>2. \A i \in DOMAIN new : \/ i \in DOMAIN q /\ new[i] = q[i]
                            \/ i - Len(q) \in DOMAIN p /\ new[i] = p[i - Len(q)] BY <1>1
<1>3. /\ \A i \in DOMAIN q : i \in DOMAIN new
      /\ \A i \in DOMAIN p : i + Len(q) \in DOMAIN new
      /\ \A i, j \in DOMAIN new : i - Len(q) = j - Len(q) => i = j BY <1>1
<1> HIDE DEF new
<1>4. Els(new) = Els(q) \cup Els(p) BY <1>1, <1>2, <1>3 DEF Els
<1>5. ASSUME NEW F, Each(q, F), Each(p, F), Reqs(q, F) \cap Reqs(p, F) = {} PROVE Each(new, F)
  <2>1. \A i \in DOMAIN q, j \in DOMAIN p : q[i] \in F /\ p[j] \in F => q[i].req # p[j].req
    BY <1>5 DEF Reqs, Els
  <2> QED BY <1>2, <1>3, <1>5, <2>1 DEF Each
<1> QED BY <1>4, <1>5 DEF new

\* The queue: each of its requests once, and one taken out is out.
LEMMA WithoutEls ==
  ASSUME NEW X, NEW q \in Seq(X), NEW i \in DOMAIN q
  PROVE  /\ Els(Without(q, i)) \subseteq Els(q)
         /\ (\A j, k \in DOMAIN q : q[j] = q[k] => j = k) =>
              /\ Els(Without(q, i)) = Els(q) \ {q[i]}
              /\ \A j, k \in DOMAIN Without(q, i) : Without(q, i)[j] = Without(q, i)[k] => j = k
<1> DEFINE new == Without(q, i)
           Old(j) == IF j < i THEN j ELSE j + 1
<1>0. DOMAIN q = 1..Len(q) /\ Len(q) \in Nat OBVIOUS
<1>1. DOMAIN new = 1..(Len(q) - 1) /\ \A j \in 1..(Len(q) - 1) : new[j] = q[Old(j)] BY DEF Without
<1>2. \A j \in DOMAIN new : Old(j) \in DOMAIN q /\ Old(j) # i BY <1>0, <1>1
<1>3. \A j, k \in DOMAIN new : Old(j) = Old(k) => j = k BY <1>0, <1>1
<1>4. \A j \in DOMAIN q \ {i} : \E k \in DOMAIN new : Old(k) = j
  <2> SUFFICES ASSUME NEW j \in DOMAIN q \ {i} PROVE \E k \in DOMAIN new : Old(k) = j OBVIOUS
  <2>1. CASE j < i BY <1>0, <1>1, <2>1
  <2>2. CASE j > i
    <3>1. j - 1 \in DOMAIN new /\ Old(j - 1) = j BY <1>0, <1>1, <2>2
    <3> QED BY <3>1
  <2> QED BY <1>0, <2>1, <2>2
<1> HIDE DEF new, Old
<1>5. Els(new) \subseteq Els(q) BY <1>1, <1>2 DEF Els
<1>6. ASSUME \A j, k \in DOMAIN q : q[j] = q[k] => j = k
      PROVE  Els(new) = Els(q) \ {q[i]} /\ \A j, k \in DOMAIN new : new[j] = new[k] => j = k
  <2>1. \A j \in DOMAIN q : q[j] # q[i] => \E k \in DOMAIN new : new[k] = q[j]
    BY <1>1, <1>4, <1>6
  <2>2. \A j \in DOMAIN new : new[j] # q[i] BY <1>1, <1>2, <1>6
  <2>3. Els(new) = Els(q) \ {q[i]} BY <1>5, <2>1, <2>2 DEF Els
  <2>4. \A j, k \in DOMAIN new : new[j] = new[k] => j = k BY <1>1, <1>2, <1>3, <1>6
  <2> QED BY <2>3, <2>4
<1> QED BY <1>5, <1>6 DEF new

-----------------------------------------------------------------------------
(* Channels: what is said is put at the end, what is taken is the first.   *)

\* What a step may do to a channel that a request's place depends on: frames that are
\* not of kind k are put on, and what is on it is taken off.
Calm(chan, new, k) ==
  \A s \in Sockets :
    /\ Reqs(new[s], OfKind(k)) \subseteq Reqs(chan[s], OfKind(k))
    /\ Each(chan[s], OfKind(k)) => Each(new[s], OfKind(k))

LEMMA WireSays ==
  ASSUME NEW chan \in Channels, NEW s \in Sockets, NEW f \in Frames
  PROVE  LET new == OnWire(chan, s, <<f>>) IN
         /\ \A t \in Sockets \ {s} : new[t] = chan[t]
         /\ new[s] = chan[s] \/ new[s] = Append(chan[s], f)
<1>1. chan[s] \in Seq(Frames) BY DEF Channels
<1>2. chan[s] \o <<f>> = Append(chan[s], f) BY <1>1
<1> QED BY <1>2 DEF OnWire, Channels

LEMMA WireAdds ==
  ASSUME NEW chan \in Channels, NEW s \in Sockets, NEW f \in Frames
  PROVE  LET new == OnWire(chan, s, <<f>>) IN
         /\ \A t \in Sockets \ {s} : new[t] = chan[t]
         /\ Els(new[s]) \subseteq Els(chan[s]) \cup {f}
         /\ \A F : Each(chan[s], F) /\ (f \in F => f.req \notin Reqs(chan[s], F)) => Each(new[s], F)
<1> DEFINE new == OnWire(chan, s, <<f>>)
<1>1. chan[s] \in Seq(Frames) BY DEF Channels
<1>2. /\ \A t \in Sockets \ {s} : new[t] = chan[t]
      /\ new[s] = chan[s] \/ new[s] = Append(chan[s], f)
  BY WireSays
<1> HIDE DEF new
<1>3. /\ Els(Append(chan[s], f)) = Els(chan[s]) \cup {f}
      /\ \A F : Each(chan[s], F) /\ (f \in F => f.req \notin Reqs(chan[s], F)) => Each(Append(chan[s], f), F)
  BY <1>1, AppendEls
<1>4. Els(new[s]) \subseteq Els(chan[s]) \cup {f} BY <1>2, <1>3
<1>5. \A F : Each(chan[s], F) /\ (f \in F => f.req \notin Reqs(chan[s], F)) => Each(new[s], F)
  BY <1>2, <1>3
<1> QED BY <1>2, <1>4, <1>5 DEF new

LEMMA WireCalm ==
  ASSUME NEW chan \in Channels, NEW s \in Sockets, NEW f \in Frames, NEW k, f.k # k
  PROVE  Calm(chan, OnWire(chan, s, <<f>>), k)
<1> DEFINE new == OnWire(chan, s, <<f>>)
<1>1. /\ \A t \in Sockets \ {s} : new[t] = chan[t]
      /\ Els(new[s]) \subseteq Els(chan[s]) \cup {f}
      /\ \A F : Each(chan[s], F) /\ (f \in F => f.req \notin Reqs(chan[s], F)) => Each(new[s], F)
  BY WireAdds
<1> HIDE DEF new
<1>2. f \notin OfKind(k) BY DEF OfKind
<1>3. Reqs(new[s], OfKind(k)) \subseteq Reqs(chan[s], OfKind(k)) BY <1>1, <1>2 DEF Reqs
<1>4. Each(chan[s], OfKind(k)) => Each(new[s], OfKind(k)) BY <1>1, <1>2
<1> QED BY <1>1, <1>3, <1>4 DEF new, Calm

LEMMA TailTakes ==
  ASSUME NEW chan \in Channels, NEW s \in Sockets, chan[s] # <<>>
  PROVE  LET new == [chan EXCEPT ![s] = Tail(@)]
             f == Head(chan[s])
         IN /\ \A t \in Sockets \ {s} : new[t] = chan[t]
            /\ f \in Frames /\ Els(chan[s]) = Els(new[s]) \cup {f}
            /\ \A k : Calm(chan, new, k)
            /\ \A F : Each(chan[s], F) /\ f \in F => f.req \notin Reqs(new[s], F)
<1> DEFINE new == [chan EXCEPT ![s] = Tail(@)]
           f == Head(chan[s])
<1>1. chan[s] \in Seq(Frames) BY DEF Channels
<1>2. new[s] = Tail(chan[s]) /\ \A t \in Sockets \ {s} : new[t] = chan[t] BY DEF Channels
<1>3. /\ f \in Els(chan[s]) /\ Els(chan[s]) = Els(Tail(chan[s])) \cup {f}
      /\ \A F : Each(chan[s], F) => /\ Each(Tail(chan[s]), F)
                                    /\ f \in F => f.req \notin Reqs(Tail(chan[s]), F)
  BY <1>1, TailEls
<1>4. f \in Frames BY <1>1, <1>3, SeqEls
<1> HIDE DEF new, f
<1>5. ASSUME NEW k PROVE Calm(chan, new, k)
  <2>1. Reqs(new[s], OfKind(k)) \subseteq Reqs(chan[s], OfKind(k)) BY <1>2, <1>3 DEF Reqs
  <2> QED BY <1>2, <1>3, <2>1 DEF Calm
<1> QED BY <1>2, <1>3, <1>4, <1>5 DEF new, f

LEMMA CalmItself == \A chan, k : Calm(chan, chan, k)
BY DEF Calm

-----------------------------------------------------------------------------
(* Places: a request that is moved, asked or run is in one place still.    *)

LEMMA PlaceCases ==
  ASSUME NEW p \in Places
  PROVE  \/ p = <<"queue", 0>> \/ p = <<"wire", 0>>
         \/ \E s \in Sockets : p = <<"op", s>> \/ p = <<"turn", s>> \/ p = <<"refusal", s>>
BY DEF Places

\* Nothing comes to any place but g.
Least(g) == \A p \in Places \ {g} : Holds(p)' \subseteq Holds(p)

LEMMA LeastBut ==
  ASSUME NEW g \in Places,
         g # <<"queue", 0>> => Els(queued)' \subseteq Els(queued),
         g # <<"wire", 0>> => wire' \subseteq wire,
         \A s \in Sockets : g # <<"op", s>> =>
           Reqs(toBff'[s], OfKind("op")) \subseteq Reqs(toBff[s], OfKind("op")),
         \A s \in Sockets : g # <<"turn", s>> =>
           Reqs(turns'[s], Entries) \subseteq Reqs(turns[s], Entries),
         \A s \in Sockets : g # <<"refusal", s>> =>
           Reqs(toPage'[s], OfKind("error")) \subseteq Reqs(toPage[s], OfKind("error"))
  PROVE  Least(g)
<1> SUFFICES ASSUME NEW p \in Places, p # g PROVE Holds(p)' \subseteq Holds(p) BY DEF Least
<1>1. CASE p = <<"queue", 0>> BY <1>1 DEF Holds
<1>2. CASE p = <<"wire", 0>> BY <1>2 DEF Holds
<1>3. ASSUME NEW s \in Sockets, p = <<"op", s>> PROVE Holds(p)' \subseteq Holds(p)
  BY <1>3 DEF Holds
<1>4. ASSUME NEW s \in Sockets, p = <<"turn", s>> PROVE Holds(p)' \subseteq Holds(p)
  BY <1>4 DEF Holds
<1>5. ASSUME NEW s \in Sockets, p = <<"refusal", s>> PROVE Holds(p)' \subseteq Holds(p)
  BY <1>5 DEF Holds
<1> QED BY <1>1, <1>2, <1>3, <1>4, <1>5, PlaceCases

\* Nobody who has asked is as if he had not.
Asking == \A r \in Requests : call[r] # "unasked" => call'[r] # "unasked"

LEMMA HoldRequests ==
  ASSUME TypeOK, NEW p \in Places
  PROVE  Holds(p) \subseteq Requests
<1>1. CASE p = <<"queue", 0>> BY <1>1, SeqEls DEF Holds, TypeOK, PageOK
<1>2. CASE p = <<"wire", 0>> BY <1>2 DEF Holds, TypeOK, NetworkOK
<1>3. CASE \E s \in Sockets : p = <<"op", s>> \/ p = <<"refusal", s>>
  BY <1>3 DEF Holds, Reqs, OfKind, Frames
<1>4. CASE \E s \in Sockets : p = <<"turn", s>>
  BY <1>4 DEF Holds, Reqs, Entries
<1> QED BY <1>1, <1>2, <1>3, <1>4, PlaceCases

\* Requests come to one place, from another that they leave or from nowhere.
LEMMA MoveKeeps ==
  ASSUME TypeOK, Apart, Unrun, NEW g \in Places, NEW h \in Places, NEW R,
         Least(g), Holds(g)' \subseteq Holds(g) \cup R,
         \A r \in R : \/ h # g /\ r \in Holds(h) /\ r \notin Holds(h)'
                      \/ call[r] = "unasked" /\ call'[r] # "unasked" /\ runs[r] = 0,
         Asking, runs' = runs
  PROVE  Apart' /\ Unrun'
<1>1. ASSUME NEW r \in R, NEW p \in Places \ {g} PROVE r \notin Holds(p)'
  BY <1>1 DEF Apart, Unrun, Least
<1>2. Apart' BY <1>1 DEF Apart, Least
<1>3. ASSUME NEW p \in Places, NEW r \in Holds(p)' PROVE runs[r] = 0 /\ call'[r] # "unasked"
  <2>1. ASSUME NEW q \in Places, r \in Holds(q) PROVE runs[r] = 0 /\ call'[r] # "unasked"
    BY <2>1, HoldRequests DEF Unrun, Asking
  <2> QED BY <1>3, <2>1 DEF Least
<1>4. Unrun' BY <1>3 DEF Unrun
<1> QED BY <1>2, <1>4

\* Nothing comes to any place.
LEMMA LessKeeps ==
  ASSUME TypeOK, Apart, Unrun, \A p \in Places : Holds(p)' \subseteq Holds(p), Asking, runs' = runs
  PROVE  Apart' /\ Unrun'
<1>1. <<"wire", 0>> \in Places BY DEF Places
<1> DEFINE g == <<"wire", 0>>
           R == {}
<1>2. Least(g) /\ Holds(g)' \subseteq Holds(g) \cup R BY <1>1 DEF Least
<1>3. \A r \in R : FALSE OBVIOUS
<1> HIDE DEF g, R
<1> QED BY <1>1, <1>2, <1>3, MoveKeeps DEF g

\* One leaves its place and is run.
LEMMA RunKeeps ==
  ASSUME TypeOK, Apart, Unrun, NEW h \in Places, NEW r \in Holds(h), r \notin Holds(h)',
         \A p \in Places : Holds(p)' \subseteq Holds(p),
         runs' = [runs EXCEPT ![r] = @ + 1], call' = call
  PROVE  Apart' /\ Unrun' /\ runs[r] = 0 /\ call[r] # "unasked" /\ runs' = [runs EXCEPT ![r] = 1]
<1>1. Apart' BY DEF Apart
<1>2. runs[r] = 0 /\ call[r] # "unasked" BY DEF Unrun
<1>3. runs' = [runs EXCEPT ![r] = 1] BY <1>2
<1>4. ASSUME NEW p \in Places, NEW q \in Holds(p)' PROVE runs'[q] = 0 /\ call'[q] # "unasked"
  <2>1. q # r BY <1>4 DEF Apart
  <2>2. q \in Requests /\ runs \in [Requests -> Nat] BY HoldRequests DEF TypeOK, BffOK
  <2> QED BY <1>3, <2>1, <2>2 DEF Unrun
<1>5. Unrun' BY <1>4 DEF Unrun
<1> QED BY <1>1, <1>2, <1>3, <1>5

-----------------------------------------------------------------------------
(* What is done with requests, in terms of what is where.                  *)

LEMMA InSeqEls == \A x, q : InSeq(x, q) <=> x \in Els(q)
BY DEF InSeq, Els

LEMMA ThePlaces ==
  /\ <<"queue", 0>> \in Places /\ <<"wire", 0>> \in Places
  /\ \A s \in Sockets : <<"op", s>> \in Places /\ <<"turn", s>> \in Places /\ <<"refusal", s>> \in Places
BY DEF Places

\* What the socket does with what is sent on it.
SentAs(l, rs) ==
  /\ wire' = wire
  /\ call' = [r \in Requests |-> IF r \in Els(rs) THEN "waiting" ELSE call[r]]
  /\ \A r \in Requests : r \notin Els(rs) => sent'[r] = sent[r]
  /\ \A i \in DOMAIN rs : sent'[rs[i]] = l.nextID + i
  /\ \A s \in Sockets :
       /\ s # l.sock => toBff'[s] = toBff[s]
       /\ Els(toBff'[s]) \subseteq Els(toBff[s]) \cup {Op(l.nextID + i, rs[i]) : i \in DOMAIN rs}
       /\ Reqs(toBff'[s], OfKind("op")) \subseteq Reqs(toBff[s], OfKind("op")) \cup Els(rs)
       /\ Each(toBff[s], OfKind("op")) /\ Reqs(toBff[s], OfKind("op")) \cap Els(rs) = {}
            => Each(toBff'[s], OfKind("op"))

\* Sent are the requests under the ids that follow, or they all go over HTTP.
LEMMA SendDoes ==
  ASSUME TypeOK, NEW l \in Lines, NEW rs \in Seq(Requests),
         \A i, j \in DOMAIN rs : rs[i] = rs[j] => i = j,
         NEW throws \in BOOLEAN, Send(l, rs, throws)
  PROVE  /\ line' = [l EXCEPT !.nextID = @ + Len(rs)]
         /\ \/ /\ wire' = wire \cup Els(rs) /\ UNCHANGED <<sent, toBff>>
               /\ call' = [r \in Requests |-> IF r \in Els(rs) THEN "http" ELSE call[r]]
            \/ SentAs(l, rs)
<1>0. /\ sent \in [Requests -> Nat] /\ toBff \in Channels /\ l.nextID \in Nat
      /\ DOMAIN rs = 1..Len(rs) /\ Len(rs) \in Nat /\ \A i \in DOMAIN rs : rs[i] \in Requests
      /\ FirstID(l) = l.nextID + 1
  BY DEF TypeOK, PageOK, NetworkOK, Lines, FirstID
<1>1. line' = [l EXCEPT !.nextID = @ + Len(rs)] BY DEF Send
<1>2. CASE throws
  BY <1>2 DEF Send, OverHttp, Els
<1>3. CASE ~throws
  <2> DEFINE ops == [i \in DOMAIN rs |-> Op(FirstID(l) + i - 1, rs[i])]
             new == OnWire(toBff, l.sock, ops)
  <2>1. ASSUME NEW i \in DOMAIN rs PROVE FirstID(l) + i - 1 = l.nextID + i /\ l.nextID + i \in Nat
    <3>1. i \in Nat BY <1>0
    <3> QED BY <1>0, <3>1 DEF FirstID
  <2>2. /\ ops = [i \in DOMAIN rs |-> Op(l.nextID + i, rs[i])] /\ DOMAIN ops = DOMAIN rs
        /\ \A i \in DOMAIN rs : ops[i] = Op(l.nextID + i, rs[i])
    BY <2>1
  <2>3. \A i \in DOMAIN rs : ops[i] \in OfKind("op") /\ ops[i].req = rs[i]
    BY <1>0, <2>1, <2>2, FrameTypes DEF OfKind, Op
  <2>4. ops \in Seq(Frames)
    <3>1. ops \in [1..Len(rs) -> Frames] BY <1>0, <2>2, <2>3 DEF OfKind
    <3> QED BY <1>0, <3>1, SeqDef
  <2>5. wire' = wire /\ toBff' = new BY <1>3 DEF Send
  <2>6. call' = [r \in Requests |-> IF r \in Els(rs) THEN "waiting" ELSE call[r]]
    BY <1>3, InSeqEls DEF Send
  <2>7. sent' = [r \in Requests |->
                   IF InSeq(r, rs) THEN FirstID(l) + (CHOOSE i \in DOMAIN rs : rs[i] = r) - 1 ELSE sent[r]]
    BY <1>3 DEF Send
  <2>8. \A r \in Requests : r \notin Els(rs) => sent'[r] = sent[r] BY <2>7, InSeqEls
  <2>9. ASSUME NEW i \in DOMAIN rs PROVE sent'[rs[i]] = l.nextID + i
    <3>1. rs[i] \in Requests /\ InSeq(rs[i], rs) BY <1>0 DEF InSeq
    <3>2. (CHOOSE j \in DOMAIN rs : rs[j] = rs[i]) = i OBVIOUS
    <3> QED BY <2>1, <2>7, <3>1, <3>2
  <2>10. Els(ops) = {Op(l.nextID + i, rs[i]) : i \in DOMAIN rs} BY <2>2 DEF Els
  <2>11. Each(ops, OfKind("op")) /\ Reqs(ops, OfKind("op")) = Els(rs)
    <3>1. Each(ops, OfKind("op")) BY <2>2, <2>3 DEF Each
    <3>2. Reqs(ops, OfKind("op")) \subseteq Els(rs) BY <2>2, <2>3 DEF Reqs, Els
    <3>3. ASSUME NEW i \in DOMAIN rs PROVE rs[i] \in Reqs(ops, OfKind("op"))
      <4>1. ops[i] \in Els(ops) /\ ops[i] \in OfKind("op") /\ ops[i].req = rs[i] BY <2>2, <2>3 DEF Els
      <4> QED BY <4>1 DEF Reqs
    <3>4. Els(rs) \subseteq Reqs(ops, OfKind("op")) BY <3>3 DEF Els
    <3> QED BY <3>1, <3>2, <3>4
  <2> HIDE DEF ops
  <2>12. \A s \in Sockets : new[s] = toBff[s] \/ (s = l.sock /\ new[s] = toBff[s] \o ops)
    BY <1>0 DEF OnWire, Channels
  <2> HIDE DEF new
  <2>13. ASSUME NEW s \in Sockets
         PROVE  /\ s # l.sock => new[s] = toBff[s]
                /\ Els(new[s]) \subseteq Els(toBff[s]) \cup Els(ops)
                /\ Reqs(new[s], OfKind("op")) \subseteq Reqs(toBff[s], OfKind("op")) \cup Els(rs)
                /\ Each(toBff[s], OfKind("op")) /\ Reqs(toBff[s], OfKind("op")) \cap Els(rs) = {}
                   => Each(new[s], OfKind("op"))
    <3>1. toBff[s] \in Seq(Frames) BY <1>0 DEF Channels
    <3>2. /\ Els(toBff[s] \o ops) = Els(toBff[s]) \cup Els(ops)
          /\ \A F : /\ Each(toBff[s], F) /\ Each(ops, F) /\ Reqs(toBff[s], F) \cap Reqs(ops, F) = {}
                    => Each(toBff[s] \o ops, F)
      BY <2>4, <3>1, ConcatEls
    <3>5. Each(toBff[s], OfKind("op")) /\ Reqs(toBff[s], OfKind("op")) \cap Els(rs) = {}
            => Each(toBff[s] \o ops, OfKind("op"))
      BY <2>11, <3>2
    <3>3. Els(new[s]) \subseteq Els(toBff[s]) \cup Els(ops) BY <2>12, <3>2
    <3>4. Reqs(new[s], OfKind("op")) \subseteq Reqs(toBff[s], OfKind("op")) \cup Reqs(ops, OfKind("op"))
      BY <3>3 DEF Reqs
    <3> QED BY <2>11, <2>12, <3>3, <3>4, <3>5
  <2> QED BY <1>1, <2>5, <2>6, <2>8, <2>9, <2>10, <2>13 DEF SentAs
<1> QED BY <1>1, <1>2, <1>3

Placed == Apart /\ Single /\ Unrun

\* Nothing on the socket's way moves: what a step that touches only the page does.
LEMMA QuietPlaces ==
  ASSUME Calm(toBff, toBff', "op"), Calm(toPage, toPage', "error"), turns' = turns,
         NEW g \in Places, g # <<"queue", 0>> => Els(queued)' \subseteq Els(queued),
         g # <<"wire", 0>> => wire' \subseteq wire
  PROVE  Least(g)
BY LeastBut DEF Calm

LEMMA QuietSingle ==
  ASSUME Single, Calm(toBff, toBff', "op"), Calm(toPage, toPage', "error"), turns' = turns,
         \A i, j \in DOMAIN queued' : queued'[i] = queued'[j] => i = j
  PROVE  Single'
BY DEF Single, Calm

\* What is fetched over HTTP instead was queued, or had not been asked.
LEMMA PlacedFetched ==
  ASSUME TypeOK, Placed, NEW R, wire' \subseteq wire \cup R,
         Calm(toBff, toBff', "op"), Calm(toPage, toPage', "error"), UNCHANGED <<turns, runs>>, Asking,
         \/ queued' = queued /\ \A r \in R : call[r] = "unasked" /\ call'[r] # "unasked" /\ runs[r] = 0
         \/ queued' = <<>> /\ R \subseteq Els(queued)
  PROVE  Placed'
<1> DEFINE g == <<"wire", 0>>
           h == <<"queue", 0>>
<1>1. g \in Places /\ h \in Places /\ g # h BY ThePlaces
<1>2. Els(queued)' \subseteq Els(queued) BY DEF Els
<1>3. Least(g) BY <1>1, <1>2, QuietPlaces
<1>4. Holds(g)' \subseteq Holds(g) \cup R BY DEF Holds
<1>5. Holds(h) = Els(queued) /\ Holds(h)' = Els(queued') BY DEF Holds
<1> HIDE DEF g, h
<1>6. \A r \in R : \/ h # g /\ r \in Holds(h) /\ r \notin Holds(h)'
                   \/ call[r] = "unasked" /\ call'[r] # "unasked" /\ runs[r] = 0
  BY <1>1, <1>5 DEF Els
<1>7. Apart' /\ Unrun' BY <1>1, <1>3, <1>4, <1>6, MoveKeeps DEF Placed
<1>8. Single' BY QuietSingle DEF Placed, Single
<1> QED BY <1>7, <1>8 DEF Placed

\* One put at the end of a queue it is not in.
LEMMA QueueEls ==
  ASSUME NEW X, NEW q \in Seq(X), NEW r \in X
  PROVE  /\ Els(Append(q, r)) = Els(q) \cup {r}
         /\ r \notin Els(q) /\ (\A i, j \in DOMAIN q : q[i] = q[j] => i = j) =>
              \A i, j \in DOMAIN Append(q, r) : Append(q, r)[i] = Append(q, r)[j] => i = j
<1>1. Els(Append(q, r)) = Els(q) \cup {r} BY AppendEls
<1>2. ASSUME r \notin Els(q), \A i, j \in DOMAIN q : q[i] = q[j] => i = j
      PROVE  \A i, j \in DOMAIN Append(q, r) : Append(q, r)[i] = Append(q, r)[j] => i = j
  <2>1. \A i \in DOMAIN q : q[i] # r BY <1>2 DEF Els
  <2>2. /\ DOMAIN Append(q, r) = 1..(Len(q) + 1) /\ DOMAIN q = 1..Len(q)
        /\ Len(q) \in Nat /\ Append(q, r)[Len(q) + 1] = r
        /\ \A i \in 1..Len(q) : Append(q, r)[i] = q[i]
    OBVIOUS
  <2> QED BY <1>2, <2>1, <2>2
<1> QED BY <1>1, <1>2

\* One joins the queue that had not been asked.
LEMMA PlacedQueued ==
  ASSUME TypeOK, Placed, NEW r \in Requests, call[r] = "unasked", call' = [call EXCEPT ![r] = "waiting"],
         runs[r] = 0, Els(queued)' \subseteq Els(queued) \cup {r},
         r \notin Els(queued) => \A i, j \in DOMAIN queued' : queued'[i] = queued'[j] => i = j,
         UNCHANGED <<toBff, toPage, turns, runs, wire>>
  PROVE  Placed'
<1> DEFINE g == <<"queue", 0>>
           R == {r}
<1>1. g \in Places BY ThePlaces
<1>2. call \in [Requests -> Calls] BY DEF TypeOK, PageOK
<1>3. Least(g) BY <1>1, CalmItself, QuietPlaces
<1>4. Holds(g)' \subseteq Holds(g) \cup R BY DEF Holds
<1>5. \A q \in R : \/ g # g /\ q \in Holds(g) /\ q \notin Holds(g)'
                   \/ call[q] = "unasked" /\ call'[q] # "unasked" /\ runs[q] = 0
  BY <1>2
<1>6. Asking BY <1>2 DEF Asking
<1>7. r \notin Els(queued) BY <1>1 DEF Placed, Unrun, Holds
<1> HIDE DEF g, R
<1>8. Apart' /\ Unrun' BY <1>1, <1>3, <1>4, <1>5, <1>6, MoveKeeps DEF Placed
<1>9. Single' BY <1>7, CalmItself, QuietSingle DEF Placed
<1> QED BY <1>8, <1>9 DEF Placed

\* What is sent was queued, or had not been asked.
LEMMA PlacedSent ==
  ASSUME TypeOK, Placed, NEW l \in Lines, NEW rs \in Seq(Requests),
         \A i, j \in DOMAIN rs : rs[i] = rs[j] => i = j,
         NEW throws \in BOOLEAN, Send(l, rs, throws),
         Calm(toPage, toPage', "error"), UNCHANGED <<turns, runs>>, l.sock \in Sockets,
         \/ queued' = queued /\ \A r \in Els(rs) : call[r] = "unasked" /\ runs[r] = 0
         \/ queued' = <<>> /\ rs = queued
  PROVE  Placed'
<1> DEFINE R == Els(rs)
           s == l.sock
           g == <<"op", s>>
           h == <<"queue", 0>>
<1>0. R \subseteq Requests /\ call \in [Requests -> Calls] BY SeqEls DEF TypeOK, PageOK
<1>1. CASE wire' = wire \cup R /\ UNCHANGED <<sent, toBff>>
           /\ call' = [r \in Requests |-> IF r \in R THEN "http" ELSE call[r]]
  <2>1. Asking /\ \A r \in R : call'[r] # "unasked" BY <1>0, <1>1 DEF Asking
  <2> HIDE DEF s
  <2> QED BY <1>0, <1>1, <2>1, CalmItself, PlacedFetched
<1>2. CASE SentAs(l, rs)
  <2>1. g \in Places /\ h \in Places /\ g # h BY ThePlaces
  <2>2. Asking /\ \A r \in R : call'[r] # "unasked" BY <1>0, <1>2 DEF Asking, SentAs
  <2>3. Els(queued)' \subseteq Els(queued) BY DEF Els
  <2>4. \A t \in Sockets : g # <<"op", t>> => toBff'[t] = toBff[t] BY <1>2 DEF SentAs
  <2>5. Holds(h) = Els(queued) /\ Holds(h)' = Els(queued')
        /\ Holds(g) = Reqs(toBff[s], OfKind("op")) /\ Holds(g)' = Reqs(toBff'[s], OfKind("op"))
    BY DEF Holds
  <2>6. Holds(g)' \subseteq Holds(g) \cup R BY <1>2, <2>5 DEF SentAs
  <2>7. s \in Sockets OBVIOUS
  <2> HIDE DEF g, h, s
  <2>8. Least(g) BY <1>2, <2>1, <2>3, <2>4, LeastBut DEF Calm, SentAs
  <2>9. \A r \in R : \/ h # g /\ r \in Holds(h) /\ r \notin Holds(h)'
                     \/ call[r] = "unasked" /\ call'[r] # "unasked" /\ runs[r] = 0
    BY <2>1, <2>2, <2>5 DEF Els
  <2>10. Apart' /\ Unrun' BY <2>1, <2>2, <2>6, <2>8, <2>9, MoveKeeps DEF Placed
  <2>11. Holds(g) \cap R = {}
    <3> SUFFICES ASSUME NEW r \in R, r \in Holds(g) PROVE FALSE OBVIOUS
    <3>1. call[r] # "unasked" BY <2>1 DEF Placed, Unrun
    <3>2. r \in Holds(h) BY <2>5, <3>1
    <3> QED BY <2>1, <3>2 DEF Placed, Apart
  <2>12. \A t \in Sockets : Each(toBff[t], OfKind("op")) => Each(toBff'[t], OfKind("op"))
    BY <1>2, <2>5, <2>11 DEF SentAs, s
  <2>13. \A i, j \in DOMAIN queued' : queued'[i] = queued'[j] => i = j
    BY DEF Placed, Single
  <2>14. Single' BY <2>12, <2>13 DEF Placed, Single, Calm
  <2> QED BY <2>10, <2>14 DEF Placed
<1> QED BY <1>1, <1>2, SendDoes

-----------------------------------------------------------------------------
(* Each step keeps requests in their places.                               *)

\* Nothing comes to any place, and nothing is run.
LEMMA PlacedLess ==
  ASSUME TypeOK, Placed, Calm(toBff, toBff', "op"), Calm(toPage, toPage', "error"),
         \A s \in Sockets : turns'[s] = turns[s] \/ turns'[s] = <<>>,
         Els(queued)' \subseteq Els(queued),
         \A i, j \in DOMAIN queued' : queued'[i] = queued'[j] => i = j,
         wire' \subseteq wire, Asking, runs' = runs
  PROVE  Placed'
<1>1. \A s \in Sockets : /\ Reqs(turns'[s], Entries) \subseteq Reqs(turns[s], Entries)
                         /\ Each(turns[s], Entries) => Each(turns'[s], Entries)
  BY DEF Reqs, Els, Each
<1>2. \A p \in Places : Holds(p)' \subseteq Holds(p)
  <2>1. Least(<<"wire", 0>>) BY <1>1, ThePlaces, LeastBut DEF Calm
  <2>2. Holds(<<"wire", 0>>)' \subseteq Holds(<<"wire", 0>>) BY DEF Holds
  <2> QED BY <2>1, <2>2 DEF Least
<1>3. Apart' /\ Unrun' BY <1>2, LessKeeps DEF Placed
<1>4. Single' BY <1>1 DEF Placed, Single, Calm
<1> QED BY <1>3, <1>4 DEF Placed

LEMMA Distinct ==
  ASSUME Placed
  PROVE  \A i, j \in DOMAIN queued : queued[i] = queued[j] => i = j
BY DEF Placed, Single

LEMMA SayCalm ==
  ASSUME TypeOK, NEW s \in Sockets, NEW f \in Frames, NEW k, f.k # k
  PROVE  Calm(toPage, Say(s, f), k)
<1>1. toPage \in Channels BY DEF TypeOK, NetworkOK
<1> QED BY <1>1, WireCalm, CalmItself DEF Say

LEMMA TakeCalm ==
  ASSUME TypeOK, NEW s \in Sockets
  PROVE  /\ toPage[s] # <<>> => \A k : Calm(toPage, [toPage EXCEPT ![s] = Tail(@)], k)
         /\ toBff[s] # <<>> => \A k : Calm(toBff, [toBff EXCEPT ![s] = Tail(@)], k)
<1>1. toPage \in Channels /\ toBff \in Channels BY DEF TypeOK, NetworkOK
<1> QED BY <1>1, TailTakes

LEMMA PlacedAsk ==
  ASSUME TypeOK, Placed, NEW r \in Requests, Fate(r), Ask(r)
  PROVE  Placed'
<1>0. call[r] = "unasked" /\ runs[r] = 0 /\ call \in [Requests -> Calls]
      /\ UNCHANGED <<turns, runs, toPage>>
  BY DEF Ask, AskWarm, AskConnect, AskDown, AskQueued, AskSent, Fate, TypeOK, PageOK, bffVars
<1>1. CASE OverHttp({r}) /\ UNCHANGED <<queued, toBff>>
  <2>1. wire' = wire \cup {r} /\ Asking /\ call'[r] # "unasked" BY <1>0, <1>1 DEF OverHttp, Asking
  <2> QED BY <1>0, <1>1, <2>1, CalmItself, PlacedFetched
<1>2. CASE queued' = Append(queued, r) /\ call' = [call EXCEPT ![r] = "waiting"] /\ UNCHANGED <<toBff, wire>>
  <2>1. queued \in Seq(Requests) BY DEF TypeOK, PageOK
  <2>2. /\ Els(queued)' \subseteq Els(queued) \cup {r}
        /\ r \notin Els(queued) => \A i, j \in DOMAIN queued' : queued'[i] = queued'[j] => i = j
    BY <1>2, <2>1, Distinct, QueueEls
  <2> QED BY <1>0, <1>2, <2>2, PlacedQueued
<1>3. CASE AskSent(r)
  <2> DEFINE l == [line EXCEPT !.idle = FALSE]
             rs == <<r>>
  <2>1. l \in Lines /\ l.sock = line.sock BY DEF TypeOK, PageOK, Lines
  <2>2. rs \in Seq(Requests) /\ Els(rs) = {r} /\ \A i, j \in DOMAIN rs : rs[i] = rs[j] => i = j BY DEF Els
  <2>3. PICK throws \in BOOLEAN : Send(l, rs, throws) BY <1>3 DEF AskSent
  <2>4. queued' = queued BY <1>3 DEF AskSent
  <2> HIDE DEF l, rs
  <2>5. CASE l.sock \in Sockets BY <1>0, <2>1, <2>2, <2>3, <2>4, <2>5, CalmItself, PlacedSent
  <2>6. CASE l.sock \notin Sockets
    <3>1. toBff' = toBff \/ \A t \in Sockets : toBff'[t] = toBff[t] BY <2>1, <2>2, <2>3, <2>6, SendDoes DEF SentAs
    <3>2. Calm(toBff, toBff', "op") BY <3>1, CalmItself DEF Calm
    <3>3. wire' \subseteq wire \cup {r} /\ \A q \in Requests : q # r => call'[q] = call[q]
      BY <2>1, <2>2, <2>3, SendDoes DEF SentAs
    <3>4. call'[r] # "unasked" BY <2>1, <2>2, <2>3, SendDoes DEF SentAs
    <3>5. Asking BY <3>3, <3>4 DEF Asking
    <3> QED BY <1>0, <2>4, <3>2, <3>3, <3>4, <3>5, CalmItself, PlacedFetched
  <2> QED BY <2>5, <2>6
<1> QED BY <1>1, <1>2, <1>3 DEF Ask, AskWarm, AskConnect, AskDown, AskQueued

LEMMA PlacedAbort ==
  ASSUME TypeOK, Placed, NEW r \in Requests, Abort(r)
  PROVE  Placed'
<1>1. /\ Els(queued)' \subseteq Els(queued)
      /\ \A i, j \in DOMAIN queued' : queued'[i] = queued'[j] => i = j
  <2>1. CASE InSeq(r, queued)
    <3> DEFINE i == CHOOSE j \in DOMAIN queued : queued[j] = r
    <3>1. i \in DOMAIN queued BY <2>1 DEF InSeq
    <3>2. queued' = Without(queued, i) BY <2>1 DEF Abort
    <3>3. queued \in Seq(Requests) BY DEF TypeOK, PageOK
    <3> HIDE DEF i
    <3> QED BY <3>1, <3>2, <3>3, Distinct, WithoutEls
  <2>2. CASE ~InSeq(r, queued) BY <2>2, Distinct DEF Abort
  <2> QED BY <2>1, <2>2
<1>2. Asking BY DEF Abort, Asking, TypeOK, PageOK
<1>3. UNCHANGED <<toBff, toPage, turns, runs, wire>> BY DEF Abort, bffVars
<1> QED BY <1>1, <1>2, <1>3, CalmItself, PlacedLess

\* A line that goes down, or is let go of, fetches what was queued.
LEMMA PlacedDown ==
  ASSUME TypeOK, Placed, NEW refused, Down(refused), UNCHANGED <<toBff, turns, runs>>,
         Calm(toPage, toPage', "error")
  PROVE  Placed'
<1>1. Asking BY DEF Down, Asking
<1>2. queued' = <<>> /\ wire' = wire \cup {r \in Requests : r \in Els(queued)} BY InSeqEls DEF Down
<1> QED BY <1>1, <1>2, CalmItself, PlacedFetched

LEMMA PlacedLetGo ==
  ASSUME TypeOK, Placed, NEW answered, LetGo(answered), UNCHANGED <<turns, runs>>,
         Calm(toPage, toPage', "error")
  PROVE  Placed'
<1>1. Asking BY DEF LetGo, Asking
<1>2. queued' = <<>> /\ wire' = wire \cup {r \in Requests : r \in Els(queued)} BY InSeqEls DEF LetGo
<1>3. Calm(toBff, toBff', "op")
  <2>1. CASE line.sock = 0 BY <2>1, CalmItself DEF LetGo
  <2>2. CASE line.sock # 0
    <3> DEFINE bye == Bye(1000)
               s == line.sock
    <3>1. toBff' = OnWire(toBff, s, <<bye>>) BY <2>2 DEF LetGo
    <3>2. bye \in Frames /\ bye.k # "op" BY FrameTypes DEF Bye
    <3>3. s \in Sockets /\ toBff \in Channels BY <2>2, BoundsAssumption DEF TypeOK, PageOK, NetworkOK, Lines, Sockets
    <3> HIDE DEF bye, s
    <3> QED BY <3>1, <3>2, <3>3, WireCalm
  <2> QED BY <2>1, <2>2
<1> QED BY <1>1, <1>2, <1>3, PlacedFetched

LEMMA PlacedClosed ==
  ASSUME TypeOK, Placed, NEW s \in Sockets, NEW code, Closed(s, code), UNCHANGED <<toBff, turns, runs>>,
         Calm(toPage, toPage', "error")
  PROVE  Placed'
<1>1. CASE line.sock = s
  <2>1. Down(line.state # "open" /\ code = 4401) BY <1>1 DEF Closed
  <2> QED BY <2>1, PlacedDown
<1>2. CASE line.sock # s
  <2>1. UNCHANGED <<queued, call, wire>> BY <1>2 DEF Closed
  <2>2. Asking BY <2>1 DEF Asking
  <2> QED BY <2>1, <2>2, CalmItself, Distinct, PlacedLess
<1> QED BY <1>1, <1>2

\* Whose a frame is that the line listens to.
LEMMA OwnFrame ==
  ASSUME Numbered, NEW s \in Sockets, line.sock = s, NEW f \in Els(toPage[s]), f.k \in {"reply", "error"},
         NEW r \in Requests, sent[r] = f.id
  PROVE  r = f.req
<1>1. s # 0 BY BoundsAssumption DEF Sockets
<1>2. Entry(f.id, f.req) \in OnSocket(s) BY DEF OnSocket, Named
<1>3. Entry(f.id, f.req).id = f.id /\ Entry(f.id, f.req).req = f.req BY DEF Entry
<1> QED BY <1>1, <1>2, <1>3 DEF Numbered

\* A request refused a turn is fetched.
LEMMA PlacedError ==
  ASSUME TypeOK, Placed, Numbered, NEW s \in Sockets, line.sock = s, toPage[s] # <<>>,
         NEW r \in Requests, sent[r] = Head(toPage[s]).id, Head(toPage[s]).k = "error", OverHttp({r}),
         toPage' = [toPage EXCEPT ![s] = Tail(@)], UNCHANGED <<queued, toBff, turns, runs>>
  PROVE  Placed'
<1> DEFINE f == Head(toPage[s])
           g == <<"wire", 0>>
           h == <<"refusal", s>>
           R == {r}
<1>0. toPage \in Channels BY DEF TypeOK, NetworkOK
<1>1. /\ f \in Frames /\ f \in Els(toPage[s])
      /\ \A F : Each(toPage[s], F) /\ f \in F => f.req \notin Reqs(toPage'[s], F)
  BY <1>0, TailTakes
<1>2. Calm(toPage, toPage', "error") BY TakeCalm
<1>3. f.req = r BY <1>1, OwnFrame
<1>4. g \in Places /\ h \in Places /\ g # h BY ThePlaces
<1>5. f \in OfKind("error") BY <1>1 DEF OfKind
<1>6. r \in Holds(h) BY <1>1, <1>3, <1>5 DEF Holds, Reqs
<1>7. r \notin Holds(h)' BY <1>1, <1>3, <1>5 DEF Holds, Placed, Single
<1>8. Holds(g)' \subseteq Holds(g) \cup R BY DEF Holds, OverHttp
<1>9. Asking BY DEF Asking, OverHttp
<1> HIDE DEF f, g, h
<1>10. Least(g) BY <1>2, <1>4, CalmItself, QuietPlaces DEF g
<1>11. Apart' /\ Unrun' BY <1>4, <1>6, <1>7, <1>8, <1>9, <1>10, MoveKeeps DEF Placed
<1>12. Single' BY <1>2, CalmItself, Distinct, QuietSingle DEF Placed
<1> QED BY <1>11, <1>12 DEF Placed

LEMMA PlacedPageTakes ==
  ASSUME TypeOK, Placed, Numbered, NEW s \in Sockets, PageTakes(s)
  PROVE  Placed'
<1> DEFINE f == Head(toPage[s])
<1>0. toPage[s] # <<>> /\ toPage' = [toPage EXCEPT ![s] = Tail(@)] /\ UNCHANGED <<turns, runs>>
  BY DEF PageTakes, bffVars
<1>1. Calm(toPage, toPage', "error") BY <1>0, TakeCalm
<1>2. CASE Closed(s, f.code) /\ UNCHANGED toBff
  BY <1>0, <1>1, <1>2, PlacedClosed
<1>3. CASE line.sock = s /\ TakeHelloSaid(s)
  <2> DEFINE l == [line EXCEPT !.state = "open"]
  <2>1. l \in Lines /\ l.sock = s BY <1>3 DEF TypeOK, PageOK, Lines
  <2>2. queued \in Seq(Requests) BY DEF TypeOK, PageOK
  <2>3. PICK throws \in BOOLEAN : Send(l, queued, throws) BY <1>3 DEF TakeHelloSaid
  <2>4. queued' = <<>> BY <1>3 DEF TakeHelloSaid
  <2> HIDE DEF l
  <2> QED BY <1>0, <1>1, <2>1, <2>2, <2>3, <2>4, Distinct, PlacedSent
<1>4. CASE f.k = "reply" /\ line.sock = s /\ TakeReply(f)
  <2>1. PICK r \in Requests :
          \/ LetGo({r})
          \/ call' = [call EXCEPT ![r] = "answered"] /\ UNCHANGED <<queued, toBff, wire>>
    BY <1>4 DEF TakeReply
  <2>2. CASE LetGo({r}) BY <1>0, <1>1, <2>2, PlacedLetGo
  <2>3. CASE call' = [call EXCEPT ![r] = "answered"] /\ UNCHANGED <<queued, toBff, wire>>
    <3>1. Asking BY <2>3 DEF Asking, TypeOK, PageOK
    <3> QED BY <1>0, <1>1, <2>3, <3>1, CalmItself, Distinct, PlacedLess
  <2> QED BY <2>1, <2>2, <2>3
<1>5. CASE f.k = "error" /\ line.sock = s /\ TakeError(f)
  <2>1. PICK r \in Requests : sent[r] = f.id /\ OverHttp({r}) /\ UNCHANGED <<queued, toBff>>
    BY <1>5 DEF TakeError
  <2> QED BY <1>0, <1>5, <2>1, PlacedError
<1>6. CASE UNCHANGED <<queued, call, toBff, wire>>
  <2>1. Asking BY <1>6 DEF Asking
  <2> QED BY <1>0, <1>1, <1>6, <2>1, CalmItself, Distinct, PlacedLess
<1> QED BY <1>2, <1>3, <1>4, <1>5, <1>6 DEF PageTakes

LEMMA PlacedPage ==
  ASSUME TypeOK, Placed, Numbered, \A r \in Requests : Fate(r), Page
  PROVE  Placed'
<1>1. ASSUME NEW s \in Sockets, Opened(s) PROVE Placed'
  <2>1. Calm(toBff, toBff', "op")
    <3>1. Hello \in Frames /\ Hello.k # "op" BY FrameTypes DEF Hello
    <3>2. toBff \in Channels BY DEF TypeOK, NetworkOK
    <3>3. toBff' = toBff \/ toBff' = OnWire(toBff, s, <<Hello>>) BY <1>1 DEF Opened
    <3> QED BY <3>1, <3>2, <3>3, CalmItself, WireCalm
  <2>2. UNCHANGED <<queued, call, toPage, turns, runs, wire>> BY <1>1 DEF Opened, bffVars
  <2>3. Asking BY <2>2 DEF Asking
  <2> QED BY <2>1, <2>2, <2>3, CalmItself, Distinct, PlacedLess
<1>2. ASSUME NEW s \in Sockets, PageLoses(s) PROVE Placed'
  <2>1. Closed(s, 1006) /\ UNCHANGED <<toBff, toPage, turns, runs>> BY <1>2 DEF PageLoses, bffVars
  <2> QED BY <2>1, CalmItself, PlacedClosed
<1>3. CASE RetryDue \/ IdleElapses
  <2>1. UNCHANGED <<queued, call, toBff, toPage, turns, runs, wire>>
    BY <1>3 DEF RetryDue, IdleElapses, bffVars
  <2>2. Asking BY <2>1 DEF Asking
  <2> QED BY <2>1, <2>2, CalmItself, Distinct, PlacedLess
<1>4. CASE Sweep
  <2>1. LetGo({}) /\ UNCHANGED <<turns, runs, toPage>> BY <1>4 DEF Sweep, bffVars
  <2> QED BY <2>1, CalmItself, PlacedLetGo
<1> QED BY <1>1, <1>2, <1>3, <1>4, PlacedAsk, PlacedAbort, PlacedPageTakes DEF Page

\* An operation taken by the BFF is started, put in turn or refused.
LEMMA PlacedTakeOperation ==
  ASSUME TypeOK, Placed, NEW s \in Sockets, toBff[s] # <<>>, toBff' = [toBff EXCEPT ![s] = Tail(@)],
         Head(toBff[s]).k = "op", TakeOperation(s, Head(toBff[s])), UNCHANGED <<queued, call, wire>>
  PROVE  Placed' /\ runs[Head(toBff[s]).req] = 0 /\ call[Head(toBff[s]).req] # "unasked"
<1> DEFINE f == Head(toBff[s])
           e == Entry(f.id, f.req)
           h == <<"op", s>>
           r == f.req
           R == {f.req}
<1>0. toBff \in Channels /\ toPage \in Channels /\ turns \in [Sockets -> Seq(Entries)]
  BY DEF TypeOK, NetworkOK, BffOK
<1>1. /\ f \in Frames /\ f \in Els(toBff[s])
      /\ \A F : Each(toBff[s], F) /\ f \in F => f.req \notin Reqs(toBff'[s], F)
  BY <1>0, TailTakes
<1>2. f \in OfKind("op") /\ f.id \in Nat /\ r \in Requests BY <1>1 DEF OfKind, Frames
<1>3. e \in Entries /\ e.req = r BY <1>2, FrameTypes DEF Entry
<1>4. Calm(toBff, toBff', "op") BY TakeCalm
<1>5. h \in Places BY ThePlaces
<1>6. r \in Holds(h) BY <1>1, <1>2 DEF Holds, Reqs
<1>7. r \notin Holds(h)' BY <1>1, <1>2 DEF Holds, Placed, Single
<1>8. runs[r] = 0 /\ call[r] # "unasked" BY <1>5, <1>6 DEF Placed, Unrun
<1>9. Asking BY DEF Asking
<1>10. CASE Start(s, e) /\ UNCHANGED <<turns, toPage>>
  <2>1. runs' = [runs EXCEPT ![r] = @ + 1] BY <1>3, <1>10 DEF Start
  <2> HIDE DEF f, e, r, h
  <2>2. Least(<<"wire", 0>>) BY <1>4, <1>10, ThePlaces, CalmItself, QuietPlaces
  <2>3. Holds(<<"wire", 0>>)' = Holds(<<"wire", 0>>) BY DEF Holds
  <2>4. \A p \in Places : Holds(p)' \subseteq Holds(p) BY <2>2, <2>3 DEF Least
  <2>5. Apart' /\ Unrun' BY <1>5, <1>6, <1>7, <2>1, <2>4, RunKeeps DEF Placed
  <2>6. Single' BY <1>4, <1>10, CalmItself, Distinct, QuietSingle DEF Placed
  <2> QED BY <1>8, <2>5, <2>6 DEF Placed, r, f
<1>11. CASE turns' = [turns EXCEPT ![s] = Append(@, e)] /\ UNCHANGED <<runs, toPage>>
  <2> DEFINE g == <<"turn", s>>
  <2>1. g \in Places /\ g # h BY ThePlaces
  <2>2. turns[s] \in Seq(Entries) /\ turns'[s] = Append(turns[s], e)
        /\ \A t \in Sockets \ {s} : turns'[t] = turns[t]
    BY <1>0, <1>11
  <2> HIDE DEF e
  <2>3. /\ Els(turns'[s]) = Els(turns[s]) \cup {e}
        /\ Each(turns[s], Entries) /\ e.req \notin Reqs(turns[s], Entries) => Each(turns'[s], Entries)
    BY <1>3, <2>2, AppendEls
  <2>4. Reqs(turns'[s], Entries) \subseteq Reqs(turns[s], Entries) \cup R BY <1>3, <2>3 DEF Reqs
  <2>5. Holds(g)' \subseteq Holds(g) \cup R BY <2>4 DEF Holds
  <2>6. r \notin Holds(g) BY <1>5, <1>6, <2>1 DEF Placed, Apart
  <2>7. \A t \in Sockets : g # <<"turn", t>> => turns'[t] = turns[t] BY <2>2
  <2>8. Each(turns'[s], Entries) BY <1>3, <2>3, <2>6 DEF Holds, Placed, Single
  <2>9. Single' BY <1>4, <1>11, <2>2, <2>8 DEF Placed, Single, Calm
  <2>10. \A q \in R : h # g /\ q \in Holds(h) /\ q \notin Holds(h)' BY <1>6, <1>7, <2>1
  <2> HIDE DEF f, r, h, g, R
  <2>11. Least(g) BY <1>4, <1>11, <2>1, <2>7, LeastBut DEF Calm
  <2>12. runs' = runs BY <1>11
  <2>13. Apart' /\ Unrun' BY <1>5, <1>9, <2>1, <2>5, <2>10, <2>11, <2>12, MoveKeeps DEF Placed
  <2> QED BY <1>8, <2>9, <2>13 DEF Placed, r, f
<1>12. CASE toPage' = Say(s, Error(f.id, f.req)) /\ UNCHANGED <<turns, runs>>
  <2> DEFINE g == <<"refusal", s>>
             d == Error(f.id, f.req)
  <2>1. g \in Places /\ g # h BY ThePlaces
  <2>2. d \in Frames /\ d.k = "error" /\ d.req = r BY <1>2, FrameTypes DEF Error
  <2>3. toPage' = Say(s, d) BY <1>12
  <2> HIDE DEF d
  <2>4. /\ \A t \in Sockets \ {s} : toPage'[t] = toPage[t]
        /\ Els(toPage'[s]) \subseteq Els(toPage[s]) \cup {d}
        /\ \A F : Each(toPage[s], F) /\ (d \in F => d.req \notin Reqs(toPage[s], F)) => Each(toPage'[s], F)
    <3>1. CASE toPage' = toPage BY <3>1
    <3>2. CASE toPage' = OnWire(toPage, s, <<d>>)
      <4> DEFINE new == OnWire(toPage, s, <<d>>)
      <4>1. /\ \A t \in Sockets \ {s} : new[t] = toPage[t]
            /\ Els(new[s]) \subseteq Els(toPage[s]) \cup {d}
            /\ \A F : Each(toPage[s], F) /\ (d \in F => d.req \notin Reqs(toPage[s], F)) => Each(new[s], F)
        BY <1>0, <2>2, WireAdds
      <4>2. toPage' = new BY <3>2
      <4> HIDE DEF new
      <4> QED BY <4>1, <4>2
    <3> QED BY <2>3, <3>1, <3>2 DEF Say
  <2>5. Reqs(toPage'[s], OfKind("error")) \subseteq Reqs(toPage[s], OfKind("error")) \cup R
    BY <2>2, <2>4 DEF Reqs
  <2>6. Holds(g)' \subseteq Holds(g) \cup R BY <2>5 DEF Holds
  <2>7. r \notin Holds(g) BY <1>5, <1>6, <2>1 DEF Placed, Apart
  <2>8. Each(toPage'[s], OfKind("error")) BY <2>2, <2>4, <2>7 DEF Holds, Placed, Single
  <2>9. Single' BY <1>4, <1>12, <2>4, <2>8 DEF Placed, Single, Calm
  <2>10. \A q \in R : h # g /\ q \in Holds(h) /\ q \notin Holds(h)' BY <1>6, <1>7, <2>1
  <2>11. \A t \in Sockets : g # <<"refusal", t>> => toPage'[t] = toPage[t] BY <2>4
  <2> HIDE DEF f, r, h, g, R
  <2>12. Least(g) BY <1>4, <1>12, <2>1, <2>11, LeastBut DEF Calm
  <2>13. runs' = runs BY <1>12
  <2>14. Apart' /\ Unrun' BY <1>5, <1>9, <2>1, <2>6, <2>10, <2>12, <2>13, MoveKeeps DEF Placed
  <2> QED BY <1>8, <2>9, <2>14 DEF Placed, r, f
<1> QED BY <1>10, <1>11, <1>12 DEF TakeOperation

\* The next in turn is started when an operation is answered.
LEMMA PlacedFinish ==
  ASSUME TypeOK, Placed, NEW s \in Sockets, NEW i \in DOMAIN running[s], Finish(s, i)
  PROVE  /\ Placed'
         /\ turns[s] # <<>> => /\ Head(turns[s]) \in Entries /\ Head(turns[s]) \in Els(turns[s])
                               /\ runs[Head(turns[s]).req] = 0 /\ call[Head(turns[s]).req] # "unasked"
<1> DEFINE e == Head(turns[s])
           h == <<"turn", s>>
           r == e.req
<1>0. /\ turns \in [Sockets -> Seq(Entries)] /\ turns[s] \in Seq(Entries)
      /\ UNCHANGED <<queued, call, wire, toBff>>
  BY DEF TypeOK, BffOK, Finish, pageVars
<1>1. Calm(toPage, toPage', "error")
  <2>1. PICK ok \in BOOLEAN : toPage' = Say(s, Reply(running[s][i].id, running[s][i].req, ok))
    BY DEF Finish
  <2> DEFINE f == Reply(running[s][i].id, running[s][i].req, ok)
  <2>2. running[s] \in Seq(Entries) /\ running[s][i] \in Entries BY DEF TypeOK, BffOK
  <2>3. f \in Frames /\ f.k # "error" BY <2>2, FrameTypes DEF Reply, Entries
  <2>4. toPage' = Say(s, f) BY <2>1
  <2> HIDE DEF f
  <2> QED BY <2>3, <2>4, SayCalm
<1>2. Asking BY <1>0 DEF Asking
<1>3. CASE turns[s] = <<>>
  <2>1. UNCHANGED <<turns, runs>> BY <1>3 DEF Finish
  <2>2. Placed' BY <1>0, <1>1, <1>2, <2>1, CalmItself, Distinct, PlacedLess
  <2> QED BY <1>3, <2>2
<1>4. CASE turns[s] # <<>>
  <2>1. /\ e \in Els(turns[s]) /\ Els(turns[s]) = Els(Tail(turns[s])) \cup {e}
        /\ \A F : Each(turns[s], F) => /\ Each(Tail(turns[s]), F)
                                       /\ e \in F => e.req \notin Reqs(Tail(turns[s]), F)
    BY <1>0, <1>4, TailEls
  <2>2. e \in Entries BY <1>0, <2>1, SeqEls
  <2>3. runs' = [runs EXCEPT ![r] = @ + 1] /\ turns' = [turns EXCEPT ![s] = Tail(turns[s])]
    BY <1>4 DEF Finish, TakeTurn
  <2>4. turns'[s] = Tail(turns[s]) /\ \A t \in Sockets \ {s} : turns'[t] = turns[t] BY <1>0, <2>3
  <2>5. h \in Places BY ThePlaces
  <2>6. r \in Holds(h) BY <2>1, <2>2 DEF Holds, Reqs
  <2>7. r \notin Holds(h)' BY <2>1, <2>2, <2>4 DEF Holds, Placed, Single
  <2>8. Each(turns'[s], Entries) /\ Reqs(turns'[s], Entries) \subseteq Reqs(turns[s], Entries)
    BY <2>1, <2>4 DEF Reqs, Placed, Single
  <2>9. runs[r] = 0 /\ call[r] # "unasked" BY <2>5, <2>6 DEF Placed, Unrun
  <2>10. Single' BY <1>0, <1>1, <2>4, <2>8 DEF Placed, Single, Calm
  <2> HIDE DEF e, r, h
  <2>11. \A t \in Sockets : Reqs(turns'[t], Entries) \subseteq Reqs(turns[t], Entries) BY <2>4, <2>8
  <2>12. Least(<<"wire", 0>>) BY <1>0, <1>1, <2>11, ThePlaces, LeastBut DEF Calm
  <2>13. Holds(<<"wire", 0>>)' = Holds(<<"wire", 0>>) BY <1>0 DEF Holds
  <2>14. \A p \in Places : Holds(p)' \subseteq Holds(p) BY <2>12, <2>13 DEF Least
  <2>15. Apart' /\ Unrun' BY <1>0, <2>3, <2>5, <2>6, <2>7, <2>14, RunKeeps DEF Placed
  <2> QED BY <2>1, <2>2, <2>9, <2>10, <2>15 DEF Placed, e, r
<1> QED BY <1>3, <1>4

\* Steps of the BFF that say something, or close, and move nothing.
LEMMA PlacedSaid ==
  ASSUME TypeOK, Placed, NEW s \in Sockets,
         toBff' = toBff \/ (toBff[s] # <<>> /\ toBff' = [toBff EXCEPT ![s] = Tail(@)]),
         toPage' = toPage \/ \E f \in {Hello} \cup {Bye(code) : code \in Nat} : toPage' = Say(s, f),
         \A t \in Sockets : turns'[t] = turns[t] \/ turns'[t] = <<>>,
         UNCHANGED <<queued, call, wire, runs>>
  PROVE  Placed'
<1>1. Calm(toBff, toBff', "op") BY TakeCalm, CalmItself
<1>2. Calm(toPage, toPage', "error")
  <2>1. ASSUME NEW f \in {Hello} \cup {Bye(code) : code \in Nat} PROVE f \in Frames /\ f.k # "error"
    BY FrameTypes DEF Hello, Bye
  <2> QED BY <2>1, SayCalm, CalmItself
<1>3. Asking BY DEF Asking
<1> QED BY <1>1, <1>2, <1>3, CalmItself, Distinct, PlacedLess

LEMMA PlacedBff ==
  ASSUME TypeOK, Placed, Bff
  PROVE  Placed'
<1>0. turns \in [Sockets -> Seq(Entries)] BY DEF TypeOK, BffOK
<1>1. ASSUME NEW s \in Sockets, Accept(s) PROVE Placed'
  <2>1. UNCHANGED <<toBff, toPage, turns, queued, call, wire, runs>> BY <1>1 DEF Accept, pageVars
  <2> QED BY <2>1, PlacedSaid
<1>2. ASSUME NEW s \in Sockets, HelloTimeout(s) PROVE Placed'
  <2>1. toPage' = Say(s, Bye(4400)) /\ UNCHANGED <<toBff, turns, queued, call, wire, runs>>
    BY <1>2 DEF HelloTimeout, pageVars
  <2> QED BY <2>1, PlacedSaid
<1>3. ASSUME NEW s \in Sockets, BffTakes(s) PROVE Placed'
  <2>1. /\ toBff[s] # <<>> /\ toBff' = [toBff EXCEPT ![s] = Tail(@)]
        /\ UNCHANGED <<queued, call, wire>>
    BY <1>3 DEF BffTakes, pageVars
  <2>2. CASE TakeHello(s)
    <3>1. \E f \in {Hello} \cup {Bye(code) : code \in Nat} : toPage' = Say(s, f)
      <4>1. toPage' = Say(s, Hello) \/ toPage' = Say(s, Bye(4401)) BY <2>2 DEF TakeHello
      <4>2. Bye(4401) \in {Bye(code) : code \in Nat} OBVIOUS
      <4> QED BY <4>1, <4>2
    <3>2. UNCHANGED <<turns, runs>> BY <2>2 DEF TakeHello
    <3> QED BY <2>1, <3>1, <3>2, PlacedSaid
  <2>3. CASE Head(toBff[s]).k = "op" /\ TakeOperation(s, Head(toBff[s]))
    BY <2>1, <2>3, PlacedTakeOperation
  <2>4. CASE BffCloses(s)
    <3>1. /\ \A t \in Sockets : turns'[t] = turns[t] \/ turns'[t] = <<>>
          /\ UNCHANGED <<runs, toPage>>
      BY <1>0, <2>4 DEF BffCloses
    <3> QED BY <2>1, <3>1, PlacedSaid
  <2> QED BY <1>3, <2>2, <2>3, <2>4 DEF BffTakes
<1>4. ASSUME NEW s \in Sockets, BffLoses(s) PROVE Placed'
  <2>1. /\ \A t \in Sockets : turns'[t] = turns[t] \/ turns'[t] = <<>>
        /\ UNCHANGED <<runs, toPage, toBff, queued, call, wire>>
    BY <1>0, <1>4 DEF BffLoses, BffCloses, pageVars
  <2> QED BY <2>1, PlacedSaid
<1>5. CASE TokenExpires
  <2>1. UNCHANGED <<toBff, toPage, turns, queued, call, wire, runs>> BY <1>5 DEF TokenExpires, pageVars
  <2>2. Asking BY <2>1 DEF Asking
  <2> QED BY <2>1, <2>2, CalmItself, Distinct, PlacedLess
<1> QED BY <1>1, <1>2, <1>3, <1>4, <1>5, PlacedFinish DEF Bff

LEMMA PlacedNetwork ==
  ASSUME TypeOK, Placed, Network
  PROVE  Placed'
<1>1. ASSUME NEW r \in Requests, HttpRun(r) PROVE Placed'
  <2> DEFINE h == <<"wire", 0>>
  <2>1. /\ wire' = wire \ {r} /\ r \in wire /\ runs' = [runs EXCEPT ![r] = @ + 1]
        /\ UNCHANGED <<toBff, toPage, turns, queued, call>>
    BY <1>1 DEF HttpRun, pageVars, bffVars
  <2>2. h \in Places /\ r \in Holds(h) /\ r \notin Holds(h)' /\ Holds(h)' \subseteq Holds(h)
    BY <2>1, ThePlaces DEF Holds
  <2> HIDE DEF h
  <2>3. Least(h) BY <2>1, <2>2, CalmItself, QuietPlaces
  <2>4. \A p \in Places : Holds(p)' \subseteq Holds(p) BY <2>2, <2>3 DEF Least
  <2>5. Apart' /\ Unrun' BY <2>1, <2>2, <2>4, RunKeeps DEF Placed
  <2>6. Single' BY <2>1, CalmItself, Distinct, QuietSingle DEF Placed
  <2> QED BY <2>5, <2>6 DEF Placed
<1>2. ASSUME NEW r \in Requests, HttpAnswer(r) \/ HttpFail(r) PROVE Placed'
  <2>1. /\ wire' \subseteq wire /\ UNCHANGED <<toBff, toPage, turns, queued, runs>>
    BY <1>2 DEF HttpAnswer, HttpFail, bffVars
  <2>2. Asking BY <1>2 DEF Asking, HttpAnswer, HttpFail, TypeOK, PageOK
  <2> QED BY <2>1, <2>2, CalmItself, Distinct, PlacedLess
<1>3. CASE \E s \in Sockets : Cut(s)
  <2>1. UNCHANGED <<wire, toBff, toPage, turns, queued, call, runs>> BY <1>3 DEF Cut, bffVars, pageVars
  <2>2. Asking BY <2>1 DEF Asking
  <2> QED BY <2>1, <2>2, CalmItself, Distinct, PlacedLess
<1> QED BY <1>1, <1>2, <1>3 DEF Network

LEMMA PlacedStep ==
  ASSUME TypeOK, Placed, Numbered, \A r \in Requests : Fate(r), [Next]_vars
  PROVE  Placed'
<1>1. CASE UNCHANGED vars
  <2>1. UNCHANGED <<wire, toBff, toPage, turns, queued, call, runs>> BY <1>1 DEF vars, bffVars, pageVars
  <2>2. Asking BY <2>1 DEF Asking
  <2> QED BY <2>1, <2>2, CalmItself, Distinct, PlacedLess
<1> QED BY <1>1, PlacedPage, PlacedBff, PlacedNetwork DEF Next

-----------------------------------------------------------------------------
(* What has become of each request stays true of it.                       *)

Fates == \A r \in Requests : Fate(r)

\* A request is run that was in its place.
LEMMA FateRun ==
  ASSUME TypeOK, Fates, NEW r \in Requests, runs[r] = 0, call[r] # "unasked",
         runs' = [runs EXCEPT ![r] = @ + 1], wire \ {r} \subseteq wire', UNCHANGED <<queued, sent, call>>
  PROVE  Fates'
<1>1. runs' = [runs EXCEPT ![r] = 1] /\ runs \in [Requests -> Nat] BY DEF TypeOK, BffOK
<1> QED BY <1>1 DEF Fates, Fate

LEMMA FateSame ==
  ASSUME Fates, UNCHANGED <<queued, sent, call, wire, runs>>
  PROVE  Fates'
BY DEF Fates, Fate

LEMMA FateDown ==
  ASSUME TypeOK, Fates, NEW refused, Down(refused), runs' = runs
  PROVE  Fates'
<1> SUFFICES ASSUME NEW r \in Requests PROVE Fate(r)' BY DEF Fates
<1>1. /\ queued' = <<>> /\ sent'[r] = 0 /\ wire \subseteq wire'
      /\ r \in Els(queued) => r \in wire'
      /\ call'[r] = IF r \in Els(queued) THEN "http" ELSE IF sent[r] # 0 THEN "failed" ELSE call[r]
  BY InSeqEls DEF Down
<1>2. Els(queued') = {} BY <1>1 DEF Els
<1> QED BY <1>1, <1>2 DEF Fates, Fate

LEMMA FateLetGo ==
  ASSUME TypeOK, Fates, NEW answered \in SUBSET Requests, LetGo(answered), runs' = runs,
         \A r \in answered : call[r] # "unasked"
  PROVE  Fates'
<1> SUFFICES ASSUME NEW r \in Requests PROVE Fate(r)' BY DEF Fates
<1>1. /\ queued' = <<>> /\ sent'[r] = 0 /\ wire \subseteq wire'
      /\ r \in Els(queued) => r \in wire'
      /\ call'[r] = IF r \in answered THEN "answered" ELSE IF r \in Els(queued) THEN "http"
                    ELSE IF sent[r] # 0 THEN "failed" ELSE call[r]
  BY InSeqEls DEF LetGo
<1>2. Els(queued') = {} BY <1>1 DEF Els
<1> QED BY <1>1, <1>2 DEF Fates, Fate

\* Sent, or fetched instead: what was queued, or had not been asked.
LEMMA FateSend ==
  ASSUME TypeOK, Fates, NEW l \in Lines, NEW rs \in Seq(Requests),
         \A i, j \in DOMAIN rs : rs[i] = rs[j] => i = j,
         NEW throws \in BOOLEAN, Send(l, rs, throws), runs' = runs,
         \A r \in Els(rs) : call[r] = "unasked" \/ r \in Els(queued),
         \/ queued' = queued /\ \A r \in Els(rs) : call[r] = "unasked"
         \/ queued' = <<>> /\ rs = queued
  PROVE  Fates'
<1> SUFFICES ASSUME NEW r \in Requests PROVE Fate(r)' BY DEF Fates
<1>0. Els(<<>>) = {} BY DEF Els
<1>1. Els(queued') \subseteq Els(queued) BY <1>0
<1>2. r \in Els(rs) => sent[r] = 0 /\ r \notin Els(queued') BY <1>0 DEF Fates, Fate
<1>3. CASE /\ wire' = wire \cup Els(rs) /\ UNCHANGED <<sent, toBff>>
           /\ call' = [q \in Requests |-> IF q \in Els(rs) THEN "http" ELSE call[q]]
  BY <1>1, <1>2, <1>3 DEF Fates, Fate
<1>4. CASE SentAs(l, rs)
  BY <1>1, <1>2, <1>4 DEF Fates, Fate, SentAs
<1> QED BY <1>3, <1>4, SendDoes

LEMMA FateAsk ==
  ASSUME TypeOK, Placed, Fates, NEW r \in Requests, Ask(r)
  PROVE  Fates'
<1>0. /\ call[r] = "unasked" /\ runs' = runs
      /\ call \in [Requests -> Calls] /\ queued \in Seq(Requests)
  BY DEF Ask, AskWarm, AskConnect, AskDown, AskQueued, AskSent, TypeOK, PageOK
<1>1. CASE OverHttp({r}) /\ UNCHANGED <<queued, sent>>
  BY <1>0, <1>1 DEF OverHttp, Fates, Fate
<1>2. CASE queued' = Append(queued, r) /\ call' = [call EXCEPT ![r] = "waiting"] /\ UNCHANGED <<sent, wire>>
  <2>1. Els(queued') = Els(queued) \cup {r} BY <1>0, <1>2, QueueEls
  <2> QED BY <1>0, <1>2, <2>1 DEF Fates, Fate
<1>3. CASE AskSent(r)
  <2> DEFINE l == [line EXCEPT !.idle = FALSE]
             rs == <<r>>
  <2>1. l \in Lines BY DEF TypeOK, PageOK, Lines
  <2>2. rs \in Seq(Requests) /\ Els(rs) = {r} /\ \A i, j \in DOMAIN rs : rs[i] = rs[j] => i = j BY DEF Els
  <2>3. PICK throws \in BOOLEAN : Send(l, rs, throws) BY <1>3 DEF AskSent
  <2>4. queued' = queued BY <1>3 DEF AskSent
  <2>5. \A q \in Els(rs) : call[q] = "unasked" BY <1>0, <2>2
  <2> HIDE DEF l, rs
  <2> QED BY <1>0, <2>1, <2>2, <2>3, <2>4, <2>5, FateSend
<1> QED BY <1>1, <1>2, <1>3 DEF Ask, AskWarm, AskConnect, AskDown, AskQueued

LEMMA FateAbort ==
  ASSUME TypeOK, Placed, Fates, NEW r \in Requests, Abort(r)
  PROVE  Fates'
<1>1. Els(queued') \subseteq Els(queued) /\ r \notin Els(queued')
  <2>1. CASE InSeq(r, queued)
    <3> DEFINE i == CHOOSE j \in DOMAIN queued : queued[j] = r
    <3>1. i \in DOMAIN queued /\ queued[i] = r BY <2>1 DEF InSeq
    <3>2. queued' = Without(queued, i) BY <2>1 DEF Abort
    <3>3. queued \in Seq(Requests) BY DEF TypeOK, PageOK
    <3> HIDE DEF i
    <3>4. Els(Without(queued, i)) = Els(queued) \ {queued[i]} BY <3>1, <3>3, Distinct, WithoutEls
    <3> QED BY <3>1, <3>2, <3>4
  <2>2. CASE ~InSeq(r, queued) BY <2>2, InSeqEls DEF Abort
  <2> QED BY <2>1, <2>2
<1>2. call[r] \in {"waiting", "http"} /\ call' = [call EXCEPT ![r] = "aborted"]
      /\ sent' = [sent EXCEPT ![r] = 0] /\ UNCHANGED <<runs, wire>>
  BY DEF Abort
<1>3. call \in [Requests -> Calls] /\ sent \in [Requests -> Nat] BY DEF TypeOK, PageOK
<1> SUFFICES ASSUME NEW q \in Requests PROVE Fate(q)' BY DEF Fates
<1>4. CASE q = r BY <1>1, <1>2, <1>3, <1>4 DEF Fates, Fate
<1>5. CASE q # r BY <1>1, <1>2, <1>3, <1>5 DEF Fates, Fate
<1> QED BY <1>4, <1>5

LEMMA FateClosed ==
  ASSUME TypeOK, Fates, NEW s \in Sockets, NEW code, Closed(s, code), runs' = runs
  PROVE  Fates'
<1>1. CASE line.sock = s
  <2>1. Down(line.state # "open" /\ code = 4401) BY <1>1 DEF Closed
  <2> QED BY <2>1, FateDown
<1>2. CASE line.sock # s
  <2>1. UNCHANGED <<queued, sent, call, wire>> BY <1>2 DEF Closed
  <2> QED BY <2>1, FateSame
<1> QED BY <1>1, <1>2

\* A frame the line listens to has an id, so that who waits for it was sent and is waiting.
LEMMA AskerWaits ==
  ASSUME Fates, Numbered, NEW s \in Sockets, line.sock = s, NEW f \in Els(toPage[s]),
         f.k \in {"reply", "error"}, NEW r \in Requests, sent[r] = f.id
  PROVE  sent[r] # 0 /\ call[r] = "waiting" /\ r \notin Els(queued)
<1>1. s # 0 BY BoundsAssumption DEF Sockets
<1>2. Entry(f.id, f.req) \in OnSocket(s) /\ Entry(f.id, f.req).id = f.id BY DEF OnSocket, Named, Entry
<1>3. f.id \in 1..line.nextID BY <1>1, <1>2 DEF Numbered
<1> QED BY <1>3 DEF Fates, Fate

LEMMA FatePageTakes ==
  ASSUME TypeOK, Placed, Numbered, Fates, NEW s \in Sockets, PageTakes(s)
  PROVE  Fates'
<1> DEFINE f == Head(toPage[s])
<1>0. toPage[s] # <<>> /\ runs' = runs /\ call \in [Requests -> Calls] /\ sent \in [Requests -> Nat]
  BY DEF PageTakes, TypeOK, PageOK
<1>1. f \in Els(toPage[s])
  <2>1. toPage[s] \in Seq(Frames) BY DEF TypeOK, NetworkOK, Channels
  <2> QED BY <1>0, <2>1, TailEls
<1>2. CASE Closed(s, f.code) BY <1>0, <1>2, FateClosed
<1>3. CASE line.sock = s /\ TakeHelloSaid(s)
  <2> DEFINE l == [line EXCEPT !.state = "open"]
  <2>1. l \in Lines BY DEF TypeOK, PageOK, Lines
  <2>2. queued \in Seq(Requests) BY DEF TypeOK, PageOK
  <2>3. PICK throws \in BOOLEAN : Send(l, queued, throws) BY <1>3 DEF TakeHelloSaid
  <2>4. queued' = <<>> BY <1>3 DEF TakeHelloSaid
  <2> HIDE DEF l
  <2> QED BY <1>0, <2>1, <2>2, <2>3, <2>4, Distinct, FateSend
<1>4. CASE f.k = "reply" /\ line.sock = s /\ TakeReply(f)
  <2>1. PICK r \in Requests :
          /\ sent[r] = f.id
          /\ \/ LetGo({r})
             \/ /\ sent' = [sent EXCEPT ![r] = 0] /\ call' = [call EXCEPT ![r] = "answered"]
                /\ UNCHANGED <<queued, wire>>
    BY <1>4 DEF TakeReply
  <2>2. call[r] = "waiting" /\ r \notin Els(queued) BY <1>1, <1>4, <2>1, AskerWaits
  <2>3. CASE LetGo({r})
    <3>1. {r} \in SUBSET Requests /\ \A q \in {r} : call[q] # "unasked" BY <2>2
    <3> QED BY <1>0, <2>3, <3>1, FateLetGo
  <2>4. CASE /\ sent' = [sent EXCEPT ![r] = 0] /\ call' = [call EXCEPT ![r] = "answered"]
             /\ UNCHANGED <<queued, wire>>
    BY <1>0, <2>2, <2>4 DEF Fates, Fate
  <2> QED BY <2>1, <2>3, <2>4
<1>5. CASE f.k = "error" /\ line.sock = s /\ TakeError(f)
  <2>1. PICK r \in Requests :
          sent[r] = f.id /\ sent' = [sent EXCEPT ![r] = 0] /\ OverHttp({r}) /\ queued' = queued
    BY <1>5 DEF TakeError
  <2>2. call[r] = "waiting" /\ r \notin Els(queued) BY <1>1, <1>5, <2>1, AskerWaits
  <2> QED BY <1>0, <2>1, <2>2 DEF Fates, Fate, OverHttp
<1>6. CASE UNCHANGED <<queued, sent, call, wire>> BY <1>0, <1>6, FateSame
<1> QED BY <1>2, <1>3, <1>4, <1>5, <1>6 DEF PageTakes

LEMMA FateStep ==
  ASSUME TypeOK, Placed, Numbered, Fates, [Next]_vars
  PROVE  Fates'
<1>1. ASSUME NEW s \in Sockets, PageLoses(s) PROVE Fates'
  BY <1>1, FateClosed DEF PageLoses
<1>2. CASE Sweep
  <2>1. LetGo({}) /\ runs' = runs BY <1>2 DEF Sweep
  <2>2. {} \in SUBSET Requests OBVIOUS
  <2> QED BY <2>1, <2>2, FateLetGo
<1>3. CASE UNCHANGED <<queued, sent, call, wire, runs>> BY <1>3, FateSame
<1>4. ASSUME \/ RetryDue \/ IdleElapses \/ TokenExpires \/ UNCHANGED vars
             \/ \E s \in Sockets : Opened(s) \/ Accept(s) \/ HelloTimeout(s) \/ BffLoses(s) \/ Cut(s)
      PROVE  UNCHANGED <<queued, sent, call, wire, runs>>
  BY <1>4 DEF Opened, RetryDue, IdleElapses, Accept, HelloTimeout, BffLoses, BffCloses, TokenExpires,
              Cut, vars, pageVars
<1>5. ASSUME NEW s \in Sockets, BffTakes(s) PROVE Fates'
  <2>1. UNCHANGED <<queued, sent, call, wire>> BY <1>5 DEF BffTakes, pageVars
  <2>2. CASE TakeHello(s) \/ BffCloses(s)
    <3>1. runs' = runs BY <2>2 DEF TakeHello, BffCloses
    <3> QED BY <1>3, <2>1, <3>1
  <2>3. CASE Head(toBff[s]).k = "op" /\ TakeOperation(s, Head(toBff[s]))
    <3> DEFINE f == Head(toBff[s])
               r == f.req
    <3>1. runs[r] = 0 /\ call[r] # "unasked" BY <1>5, <2>1, <2>3, PlacedTakeOperation DEF BffTakes
    <3>2. runs' = runs \/ runs' = [runs EXCEPT ![r] = @ + 1] BY <2>3 DEF TakeOperation, Start, Entry
    <3>3. r \in Requests
      <4>1. f \in Frames BY <1>5, TypeTail DEF BffTakes, TypeOK, NetworkOK
      <4> QED BY <2>3, <4>1 DEF Frames
    <3> HIDE DEF r
    <3> QED BY <1>3, <2>1, <3>1, <3>2, <3>3, FateRun
  <2> QED BY <1>5, <2>2, <2>3 DEF BffTakes
<1>6. ASSUME NEW s \in Sockets, NEW i \in DOMAIN running[s], Finish(s, i) PROVE Fates'
  <2> DEFINE r == Head(turns[s]).req
  <2>1. UNCHANGED <<queued, sent, call, wire>> BY <1>6 DEF Finish, pageVars
  <2>2. CASE turns[s] = <<>>
    <3>1. runs' = runs BY <1>6, <2>2 DEF Finish
    <3> QED BY <1>3, <2>1, <3>1
  <2>3. CASE turns[s] # <<>>
    <3>1. runs[r] = 0 /\ call[r] # "unasked" /\ r \in Requests BY <1>6, <2>3, PlacedFinish DEF Entries
    <3>2. runs' = [runs EXCEPT ![r] = @ + 1] BY <1>6, <2>3 DEF Finish, TakeTurn
    <3> HIDE DEF r
    <3> QED BY <2>1, <3>1, <3>2, FateRun
  <2> QED BY <2>2, <2>3
<1>7. ASSUME NEW r \in Requests, HttpRun(r) PROVE Fates'
  <2>1. /\ wire' = wire \ {r} /\ r \in wire /\ runs' = [runs EXCEPT ![r] = @ + 1]
        /\ UNCHANGED <<queued, sent, call>>
    BY <1>7 DEF HttpRun, pageVars
  <2>2. runs[r] = 0 /\ call[r] # "unasked"
    BY <2>1, ThePlaces DEF Placed, Unrun, Holds
  <2> QED BY <2>1, <2>2, FateRun
<1>8. ASSUME NEW r \in Requests, HttpAnswer(r) \/ HttpFail(r) PROVE Fates'
  <2>1. call \in [Requests -> Calls] BY DEF TypeOK, PageOK
  <2>2. UNCHANGED <<queued, sent, runs>> BY <1>8 DEF HttpAnswer, HttpFail, bffVars
  <2> QED BY <1>8, <2>1, <2>2 DEF HttpAnswer, HttpFail, Fates, Fate
<1> QED BY <1>1, <1>2, <1>3, <1>4, <1>5, <1>6, <1>7, <1>8, FateAsk, FateAbort, FatePageTakes
    DEF Next, Page, Bff, Network

-----------------------------------------------------------------------------
(* What is at work or answered was run, and has one id.                    *)

\* What was run stays run.
LEMMA RunsGrow ==
  ASSUME TypeOK, Placed, [Next]_vars
  PROVE  \A r \in Requests : runs[r] = 1 => runs'[r] = 1
<1>0. runs \in [Requests -> Nat] BY DEF TypeOK, BffOK
<1>1. ASSUME NEW r \in Requests, runs' = [runs EXCEPT ![r] = @ + 1], runs[r] = 0
      PROVE  \A q \in Requests : runs[q] = 1 => runs'[q] = 1
  BY <1>0, <1>1
<1>2. CASE runs' = runs BY <1>2
<1>3. CASE Page
  BY <1>3 DEF Page, Ask, AskWarm, AskConnect, AskDown, AskQueued, AskSent, Abort, Opened, PageTakes,
              PageLoses, RetryDue, IdleElapses, Sweep
<1>7. CASE \/ TokenExpires \/ UNCHANGED vars
           \/ \E s \in Sockets : Accept(s) \/ HelloTimeout(s) \/ BffLoses(s) \/ Cut(s)
           \/ \E r \in Requests : HttpAnswer(r) \/ HttpFail(r)
  BY <1>7 DEF Accept, HelloTimeout, BffLoses, BffCloses, TokenExpires, Cut, HttpAnswer, HttpFail,
              bffVars, vars
<1>4. ASSUME NEW s \in Sockets, BffTakes(s) PROVE \A r \in Requests : runs[r] = 1 => runs'[r] = 1
  <2>1. CASE TakeHello(s) \/ BffCloses(s) BY <1>2, <2>1 DEF TakeHello, BffCloses
  <2>2. CASE Head(toBff[s]).k = "op" /\ TakeOperation(s, Head(toBff[s]))
    <3> DEFINE f == Head(toBff[s])
               r == f.req
    <3>1. runs[r] = 0 BY <1>4, <2>2, PlacedTakeOperation DEF BffTakes, pageVars
    <3>2. runs' = runs \/ runs' = [runs EXCEPT ![r] = @ + 1] BY <2>2 DEF TakeOperation, Start, Entry
    <3>3. r \in Requests
      <4>1. f \in Frames BY <1>4, TypeTail DEF BffTakes, TypeOK, NetworkOK
      <4> QED BY <2>2, <4>1 DEF Frames
    <3> HIDE DEF r
    <3> QED BY <1>1, <1>2, <3>1, <3>2, <3>3
  <2> QED BY <1>4, <2>1, <2>2 DEF BffTakes
<1>5. ASSUME NEW s \in Sockets, NEW i \in DOMAIN running[s], Finish(s, i)
      PROVE  \A r \in Requests : runs[r] = 1 => runs'[r] = 1
  <2> DEFINE r == Head(turns[s]).req
  <2>1. CASE turns[s] = <<>> BY <1>2, <1>5, <2>1 DEF Finish
  <2>2. CASE turns[s] # <<>>
    <3>1. runs[r] = 0 /\ r \in Requests BY <1>5, <2>2, PlacedFinish DEF Entries
    <3>2. runs' = [runs EXCEPT ![r] = @ + 1] BY <1>5, <2>2 DEF Finish, TakeTurn
    <3> HIDE DEF r
    <3> QED BY <1>1, <3>1, <3>2
  <2> QED BY <2>1, <2>2
<1>6. ASSUME NEW r \in Requests, HttpRun(r) PROVE \A q \in Requests : runs[q] = 1 => runs'[q] = 1
  <2>1. runs[r] = 0 BY <1>6, ThePlaces DEF HttpRun, Placed, Unrun, Holds
  <2> QED BY <1>1, <1>6, <2>1 DEF HttpRun
<1> QED BY <1>2, <1>3, <1>4, <1>5, <1>6, <1>7 DEF Next, Bff, Network

LEMMA SayEls ==
  ASSUME TypeOK, NEW s \in Sockets, NEW f \in Frames, NEW new, new = Say(s, f)
  PROVE  /\ \A t \in Sockets \ {s} : new[t] = toPage[t]
         /\ Els(new[s]) \subseteq Els(toPage[s]) \cup {f}
<1>0. toPage \in Channels BY DEF TypeOK, NetworkOK
<1>1. CASE new = toPage BY <1>1
<1>2. CASE new = OnWire(toPage, s, <<f>>) BY <1>0, <1>2, WireAdds
<1> QED BY <1>1, <1>2 DEF Say

LEMMA TakeEls ==
  ASSUME NEW chan \in Channels, NEW s \in Sockets, chan[s] # <<>>, NEW new, new = [chan EXCEPT ![s] = Tail(@)]
  PROVE  \A t \in Sockets : Els(new[t]) \subseteq Els(chan[t])
<1> DEFINE rest == [chan EXCEPT ![s] = Tail(@)]
<1>1. (\A t \in Sockets \ {s} : rest[t] = chan[t]) /\ Els(chan[s]) = Els(rest[s]) \cup {Head(chan[s])}
  BY TailTakes
<1>2. new = rest OBVIOUS
<1> HIDE DEF rest
<1> QED BY <1>1, <1>2

LEMMA EntryTypes ==
  ASSUME TypeOK, NEW s \in Sockets
  PROVE  /\ running[s] \in Seq(Entries) /\ turns[s] \in Seq(Entries)
         /\ Els(running[s]) \subseteq Entries /\ Els(turns[s]) \subseteq Entries
         /\ toPage[s] \in Seq(Frames) /\ toBff[s] \in Seq(Frames)
         /\ Els(toPage[s]) \subseteq Frames /\ Els(toBff[s]) \subseteq Frames
<1>1. running[s] \in Seq(Entries) /\ turns[s] \in Seq(Entries) BY DEF TypeOK, BffOK
<1>2. toPage[s] \in Seq(Frames) /\ toBff[s] \in Seq(Frames) BY DEF TypeOK, NetworkOK, Channels
<1> QED BY <1>1, <1>2, SeqEls

LEMMA EntryIsItself ==
  ASSUME NEW e \in Entries
  PROVE  Entry(e.id, e.req) = e
BY DEF Entry, Entries

\* What a step of the BFF's end puts on a socket was on it: an operation becomes an
\* entry, and an entry a reply; what it starts is run.
BffMoves ==
  \A s \in Sockets :
    /\ \A e \in Els(running'[s]) : e \in OnSocket(s) /\ (e \in Els(running[s]) \/ runs'[e.req] = 1)
    /\ Els(turns'[s]) \subseteq OnSocket(s) /\ Els(toBff'[s]) \subseteq Els(toBff[s])
    /\ \A f \in Els(toPage'[s]) :
         \/ f \in Els(toPage[s]) \/ ~Named(f)
         \/ /\ Entry(f.id, f.req) \in OnSocket(s)
            /\ f.k = "reply" => \E e \in Els(running[s]) : e.req = f.req

LEMMA SaidMoves ==
  ASSUME TypeOK, NEW s \in Sockets, NEW f \in {Hello} \cup {Bye(code) : code \in Nat},
         toPage' = toPage \/ toPage' = Say(s, f), \A t \in Sockets : Els(toBff'[t]) \subseteq Els(toBff[t]),
         \A t \in Sockets : turns'[t] = turns[t] \/ turns'[t] = <<>>, running' = running
  PROVE  BffMoves
<1>1. f \in Frames /\ ~Named(f) BY FrameTypes DEF Hello, Bye, Named
<1>2. \A t \in Sockets : Els(toPage'[t]) \subseteq Els(toPage[t]) \cup {f} BY <1>1, SayEls
<1>3. \A t \in Sockets : Els(turns'[t]) \subseteq Els(turns[t]) BY DEF Els
<1> QED BY <1>1, <1>2, <1>3 DEF BffMoves, OnSocket

LEMMA TakeOperationMoves ==
  ASSUME TypeOK, Placed, NEW s \in Sockets, BffTakes(s),
         Head(toBff[s]).k = "op", TakeOperation(s, Head(toBff[s]))
  PROVE  BffMoves
<1> DEFINE f == Head(toBff[s])
           e == Entry(f.id, f.req)
<1>0. /\ toBff \in Channels /\ running \in [Sockets -> Seq(Entries)] /\ turns \in [Sockets -> Seq(Entries)]
      /\ runs \in [Requests -> Nat]
      /\ toBff[s] # <<>> /\ toBff' = [toBff EXCEPT ![s] = Tail(@)]
      /\ UNCHANGED <<queued, call, wire>>
  BY DEF TypeOK, NetworkOK, BffOK, BffTakes, pageVars
<1>1. f \in Frames /\ f \in Els(toBff[s]) BY <1>0, EntryTypes, TailEls
<1>2. f.id \in Nat /\ f.req \in Requests BY <1>1 DEF Frames
<1>3. e \in Entries /\ e.id = f.id /\ e.req = f.req BY <1>2, FrameTypes DEF Entry
<1>4. e \in OnSocket(s) BY <1>1 DEF OnSocket, Named
<1>5. \A t \in Sockets : Els(toBff'[t]) \subseteq Els(toBff[t]) BY <1>0, TakeEls
<1>6. runs[e.req] = 0 BY <1>0, <1>3, PlacedTakeOperation
<1>7. CASE Start(s, e) /\ UNCHANGED <<turns, toPage>>
  <2>1. runs' = [runs EXCEPT ![e.req] = @ + 1] /\ running'[s] = Append(running[s], e)
        /\ \A t \in Sockets \ {s} : running'[t] = running[t]
    BY <1>0, <1>7 DEF Start
  <2> HIDE DEF e, f
  <2>2. runs'[e.req] = 1 BY <1>0, <1>2, <1>3, <1>6, <2>1
  <2>3. Els(running'[s]) = Els(running[s]) \cup {e} BY <1>3, <2>1, EntryTypes, AppendEls
  <2> QED BY <1>4, <1>5, <1>7, <2>1, <2>2, <2>3 DEF BffMoves, OnSocket
<1>8. CASE turns' = [turns EXCEPT ![s] = Append(@, e)] /\ UNCHANGED <<running, toPage>>
  <2>1. turns'[s] = Append(turns[s], e) /\ \A t \in Sockets \ {s} : turns'[t] = turns[t] BY <1>0, <1>8
  <2> HIDE DEF e, f
  <2>2. Els(turns'[s]) = Els(turns[s]) \cup {e} BY <1>3, <2>1, EntryTypes, AppendEls
  <2> QED BY <1>4, <1>5, <1>8, <2>1, <2>2 DEF BffMoves, OnSocket
<1>9. CASE toPage' = Say(s, Error(f.id, f.req)) /\ UNCHANGED <<running, turns>>
  <2> DEFINE d == Error(f.id, f.req)
  <2>1. d \in Frames /\ d.k # "reply" /\ Entry(d.id, d.req) = e BY <1>2, FrameTypes DEF Error
  <2>2. toPage' = Say(s, d) BY <1>9
  <2> HIDE DEF d, e, f
  <2>3. /\ \A t \in Sockets \ {s} : toPage'[t] = toPage[t]
        /\ Els(toPage'[s]) \subseteq Els(toPage[s]) \cup {d}
    BY <2>1, <2>2, SayEls
  <2> QED BY <1>4, <1>5, <1>9, <2>1, <2>3 DEF BffMoves, OnSocket
<1> QED BY <1>7, <1>8, <1>9 DEF TakeOperation

LEMMA FinishMoves ==
  ASSUME TypeOK, Placed, NEW s \in Sockets, NEW i \in DOMAIN running[s], Finish(s, i)
  PROVE  BffMoves
<1> DEFINE e == running[s][i]
           n == Head(turns[s])
<1>0. /\ toBff' = toBff /\ running \in [Sockets -> Seq(Entries)] /\ turns \in [Sockets -> Seq(Entries)]
      /\ runs \in [Requests -> Nat] /\ running[s] \in Seq(Entries) /\ turns[s] \in Seq(Entries)
  BY DEF TypeOK, BffOK, Finish
<1>1. e \in Els(running[s]) /\ e \in Entries BY <1>0 DEF Els
<1>2. PICK ok \in BOOLEAN : toPage' = Say(s, Reply(e.id, e.req, ok)) BY DEF Finish
<1> DEFINE d == Reply(e.id, e.req, ok)
<1>3. d \in Frames /\ d.req = e.req /\ Entry(d.id, d.req) = e
  <2>1. e.id \in Nat /\ e.req \in Requests BY <1>1 DEF Entries
  <2>2. d.id = e.id /\ d.req = e.req BY DEF Reply
  <2> QED BY <1>1, <2>1, <2>2, FrameTypes, EntryIsItself
<1>4. toPage' = Say(s, d) BY <1>2
<1>5. Without(running[s], i) \in Seq(Entries) /\ Els(Without(running[s], i)) \subseteq Els(running[s])
  BY <1>0, WithoutType, WithoutEls
<1>6. /\ \A t \in Sockets \ {s} : running'[t] = running[t] /\ turns'[t] = turns[t]
      /\ \/ running'[s] = Without(running[s], i) /\ turns'[s] = turns[s]
         \/ /\ turns[s] # <<>> /\ running'[s] = Append(Without(running[s], i), n) /\ turns'[s] = Tail(turns[s])
            /\ runs' = [runs EXCEPT ![n.req] = @ + 1]
  BY <1>0 DEF Finish, TakeTurn
<1>7. turns[s] # <<>> => n \in Entries /\ n \in Els(turns[s]) /\ runs[n.req] = 0 BY PlacedFinish
<1>8. turns[s] # <<>> => Els(Tail(turns[s])) \subseteq Els(turns[s]) BY <1>0, TailEls
<1> HIDE DEF d, e, n
<1>9. /\ \A t \in Sockets \ {s} : toPage'[t] = toPage[t]
      /\ Els(toPage'[s]) \subseteq Els(toPage[s]) \cup {d}
  BY <1>3, <1>4, SayEls
<1>10. CASE running'[s] = Without(running[s], i) /\ turns'[s] = turns[s]
  BY <1>0, <1>1, <1>3, <1>5, <1>6, <1>9, <1>10 DEF BffMoves, OnSocket
<1>11. CASE /\ turns[s] # <<>> /\ running'[s] = Append(Without(running[s], i), n) /\ turns'[s] = Tail(turns[s])
            /\ runs' = [runs EXCEPT ![n.req] = @ + 1]
  <2>1. Els(running'[s]) = Els(Without(running[s], i)) \cup {n} BY <1>5, <1>7, <1>11, AppendEls
  <2>2. runs'[n.req] = 1 BY <1>0, <1>7, <1>11 DEF Entries
  <2> QED BY <1>0, <1>1, <1>3, <1>5, <1>6, <1>7, <1>8, <1>9, <1>11, <2>1, <2>2 DEF BffMoves, OnSocket
<1> QED BY <1>6, <1>10, <1>11

LEMMA BffStepMoves ==
  ASSUME TypeOK, Placed, Bff
  PROVE  BffMoves
<1>0. turns \in [Sockets -> Seq(Entries)] BY DEF TypeOK, BffOK
<1>1. ASSUME NEW s \in Sockets, Accept(s) PROVE BffMoves
  <2>1. UNCHANGED <<toPage, toBff, turns, running>> BY <1>1 DEF Accept
  <2> QED BY <2>1 DEF BffMoves, OnSocket
<1>2. ASSUME NEW s \in Sockets, HelloTimeout(s) PROVE BffMoves
  <2>1. toPage' = Say(s, Bye(4400)) /\ UNCHANGED <<toBff, turns, running>> BY <1>2 DEF HelloTimeout
  <2> QED BY <2>1, SaidMoves
<1>3. ASSUME NEW s \in Sockets, BffTakes(s) PROVE BffMoves
  <2>1. \A t \in Sockets : Els(toBff'[t]) \subseteq Els(toBff[t])
    <3>1. toBff \in Channels BY DEF TypeOK, NetworkOK
    <3> QED BY <1>3, <3>1, TakeEls DEF BffTakes
  <2>2. CASE TakeHello(s)
    <3>1. UNCHANGED <<turns, running>> BY <2>2 DEF TakeHello
    <3>2. toPage' = Say(s, Hello) \/ toPage' = Say(s, Bye(4401)) BY <2>2 DEF TakeHello
    <3>3. Bye(4401) \in {Bye(code) : code \in Nat} OBVIOUS
    <3> QED BY <2>1, <3>1, <3>2, <3>3, SaidMoves
  <2>3. CASE Head(toBff[s]).k = "op" /\ TakeOperation(s, Head(toBff[s])) BY <1>3, <2>3, TakeOperationMoves
  <2>4. CASE BffCloses(s)
    <3>1. (\A t \in Sockets : turns'[t] = turns[t] \/ turns'[t] = <<>>) /\ UNCHANGED <<toPage, running>>
      BY <1>0, <2>4 DEF BffCloses
    <3> QED BY <2>1, <3>1, SaidMoves
  <2> QED BY <1>3, <2>2, <2>3, <2>4 DEF BffTakes
<1>4. ASSUME NEW s \in Sockets, BffLoses(s) PROVE BffMoves
  <2>1. /\ \A t \in Sockets : turns'[t] = turns[t] \/ turns'[t] = <<>>
        /\ UNCHANGED <<toPage, running, toBff>>
    BY <1>0, <1>4 DEF BffLoses, BffCloses
  <2> QED BY <2>1, SaidMoves
<1>5. CASE TokenExpires
  <2>1. UNCHANGED <<toPage, toBff, turns, running>> BY <1>5 DEF TokenExpires
  <2> QED BY <2>1 DEF BffMoves, OnSocket
<1> QED BY <1>1, <1>2, <1>3, <1>4, <1>5, FinishMoves DEF Bff

\* A step of the page's end takes from what the BFF has said, and puts something under an
\* id on a socket only where it sends.
PageMoves(s) ==
  /\ running'[s] = running[s] /\ turns'[s] = turns[s] /\ Els(toPage'[s]) \subseteq Els(toPage[s])
  /\ Els(toBff'[s]) \subseteq Els(toBff[s]) \cup {Hello, Bye(1000)}

LEMMA PageHears ==
  ASSUME TypeOK, Page
  PROVE  running' = running /\ turns' = turns /\ \A s \in Sockets : Els(toPage'[s]) \subseteq Els(toPage[s])
<1>1. running' = running /\ turns' = turns
  BY DEF Page, Ask, AskWarm, AskConnect, AskDown, AskQueued, AskSent, Abort, Opened, PageTakes,
         PageLoses, RetryDue, IdleElapses, Sweep, bffVars
<1>2. ASSUME NEW s \in Sockets, PageTakes(s) PROVE \A t \in Sockets : Els(toPage'[t]) \subseteq Els(toPage[t])
  <2>1. toPage \in Channels BY DEF TypeOK, NetworkOK
  <2> QED BY <1>2, <2>1, TakeEls DEF PageTakes
<1>3. ASSUME \/ RetryDue \/ IdleElapses \/ Sweep \/ \E r \in Requests : Ask(r) \/ Abort(r)
             \/ \E s \in Sockets : Opened(s) \/ PageLoses(s)
      PROVE  toPage' = toPage
  BY <1>3 DEF Ask, AskWarm, AskConnect, AskDown, AskQueued, AskSent, Abort, Opened,
         PageLoses, RetryDue, IdleElapses, Sweep
<1>4. \A s \in Sockets : Els(toPage'[s]) \subseteq Els(toPage[s]) BY <1>2, <1>3 DEF Page
<1> QED BY <1>1, <1>4

LEMMA RanStep ==
  ASSUME TypeOK, Placed, Ran, [Next]_vars
  PROVE  Ran'
<1>1. \A r \in Requests : runs[r] = 1 => runs'[r] = 1 BY RunsGrow
<1>2. \A s \in Sockets : /\ \A e \in Els(running[s]) : e.req \in Requests
                         /\ \A f \in Els(toPage[s]) : f.k = "reply" => f.req \in Requests
  BY EntryTypes DEF Entries, Frames
<1>3. CASE Page \/ Network \/ UNCHANGED vars
  <2>1. running' = running /\ \A s \in Sockets : Els(toPage'[s]) \subseteq Els(toPage[s])
    BY <1>3, PageHears DEF Network, HttpRun, HttpAnswer, HttpFail, Cut, vars, bffVars
  <2> QED BY <1>1, <1>2, <2>1 DEF Ran
<1>4. CASE Bff
  <2>1. BffMoves BY <1>4, BffStepMoves
  <2> QED BY <1>1, <1>2, <2>1 DEF Ran, BffMoves, Named
<1> QED BY <1>3, <1>4 DEF Next

\* What is on a socket after a step was on it, or was just sent.
LEMMA OnSocketLess ==
  ASSUME NEW s \in Sockets, running'[s] = running[s], turns'[s] = turns[s],
         Els(toPage'[s]) \subseteq Els(toPage[s]), Els(toBff'[s]) \subseteq Els(toBff[s]) \cup {Hello, Bye(1000)}
  PROVE  OnSocket(s)' \subseteq OnSocket(s)
<1>1. ~Named(Hello) /\ ~Named(Bye(1000)) BY DEF Named, Hello, Bye
<1> QED BY <1>1 DEF OnSocket

LEMMA BffOnSocket ==
  ASSUME BffMoves, NEW s \in Sockets
  PROVE  OnSocket(s)' \subseteq OnSocket(s)
<1>1. Els(running'[s]) \subseteq OnSocket(s) /\ Els(turns'[s]) \subseteq OnSocket(s) BY DEF BffMoves
<1>2. ASSUME NEW f \in Els(toBff'[s]) \cup Els(toPage'[s]), Named(f)
      PROVE  Entry(f.id, f.req) \in OnSocket(s)
  <2>1. CASE f \in Els(toBff[s]) \cup Els(toPage[s]) BY <1>2, <2>1 DEF OnSocket
  <2> QED BY <1>2, <2>1 DEF BffMoves
<1> QED BY <1>1, <1>2 DEF OnSocket

\* The ids on one socket are the line's.
Own(s) == \A e \in OnSocket(s) : e.id \in 1..line.nextID /\ \A r \in Requests : sent[r] = e.id => r = e.req

LEMMA NumberedIs ==
  ASSUME Numbered, NEW s \in Sockets, line.sock = s
  PROVE  Own(s)
<1>1. s # 0 BY BoundsAssumption DEF Sockets
<1> QED BY <1>1 DEF Numbered, Own

LEMMA NumberedNext ==
  ASSUME line'.sock \in 0..MaxSockets, \A r \in Requests : sent'[r] <= line'.nextID,
         \A s \in Sockets : line'.sock = s => Own(s)'
  PROVE  Numbered'
<1>1. CASE line'.sock = 0 BY <1>1 DEF Numbered
<1>2. CASE line'.sock # 0
  <2>1. PICK s \in Sockets : line'.sock = s BY <1>2, BoundsAssumption DEF Sockets
  <2>2. Own(s)' BY <2>1
  <2> QED BY <2>1, <2>2 DEF Numbered, Own, OnSocket
<1> QED BY <1>1, <1>2

\* Where the line keeps its socket and its ids, and nobody is sent anew.
LEMMA NumberedLess ==
  ASSUME TypeOK, Numbered, line'.sock = line.sock, line'.nextID = line.nextID,
         \A r \in Requests : sent'[r] = sent[r] \/ sent'[r] = 0,
         \A s \in Sockets : line.sock = s => OnSocket(s)' \subseteq OnSocket(s)
  PROVE  Numbered'
<1>1. \A r \in Requests : sent[r] \in Nat BY DEF TypeOK, PageOK
<1>2. line.nextID \in Nat /\ line.sock \in 0..MaxSockets BY DEF TypeOK, PageOK, Lines
<1>3. \A r \in Requests : sent'[r] <= line'.nextID BY <1>1, <1>2 DEF Numbered
<1>4. ASSUME NEW s \in Sockets, line.sock = s PROVE Own(s)'
  <2>1. Own(s) BY <1>4, NumberedIs
  <2>2. ASSUME NEW e \in OnSocket(s), e.id \in 1..line.nextID, NEW r \in Requests, sent'[r] = e.id
        PROVE  sent[r] = e.id
    BY <1>2, <2>2
  <2> QED BY <1>4, <2>1, <2>2 DEF Own
<1> QED BY <1>2, <1>3, <1>4, NumberedNext

\* A line without a socket has nothing on it.
LEMMA NumberedDown ==
  ASSUME line'.sock = 0, line'.nextID \in Nat, \A r \in Requests : sent'[r] = 0
  PROVE  Numbered'
BY DEF Numbered

\* What is sent is under ids that follow, which nothing on the socket has.
LEMMA NumberedSend ==
  ASSUME TypeOK, Numbered, NEW l \in Lines, l.sock = line.sock, l.nextID = line.nextID, NEW rs \in Seq(Requests),
         \A i, j \in DOMAIN rs : rs[i] = rs[j] => i = j,
         NEW throws \in BOOLEAN, Send(l, rs, throws),
         \A s \in Sockets : Els(toPage'[s]) \subseteq Els(toPage[s]), UNCHANGED <<running, turns>>
  PROVE  Numbered'
<1> DEFINE n == l.nextID
<1>0. /\ \A r \in Requests : sent[r] \in Nat /\ sent[r] <= n
      /\ n \in Nat /\ Len(rs) \in Nat /\ DOMAIN rs = 1..Len(rs)
      /\ l.sock \in 0..MaxSockets
  BY DEF TypeOK, PageOK, Lines, Numbered
<1>1. line'.sock = line.sock /\ line'.nextID = n + Len(rs)
  <2>1. line' = [l EXCEPT !.nextID = @ + Len(rs)] BY DEF Send
  <2> QED BY <2>1 DEF Lines
<1>2. CASE UNCHANGED <<sent, toBff>>
  <2>1. \A r \in Requests : sent'[r] <= line'.nextID BY <1>0, <1>1, <1>2
  <2>2. ASSUME NEW s \in Sockets, line.sock = s PROVE Own(s)'
    <3>1. OnSocket(s)' \subseteq OnSocket(s) BY <1>2, OnSocketLess
    <3>2. Own(s) BY <2>2, NumberedIs
    <3>3. \A k \in 1..n : k \in 1..line'.nextID BY <1>0, <1>1
    <3> QED BY <1>2, <3>1, <3>2, <3>3 DEF Own
  <2> QED BY <1>0, <1>1, <2>1, <2>2, NumberedNext
<1>3. CASE SentAs(l, rs)
  <2>1. \A r \in Requests : r \in Els(rs) => \E i \in DOMAIN rs : rs[i] = r /\ sent'[r] = n + i
    BY <1>3 DEF Els, SentAs
  <2>2. \A i \in DOMAIN rs : n + i \in 1..(n + Len(rs)) /\ n + i > n BY <1>0
  <2>3. \A r \in Requests : sent'[r] <= line'.nextID BY <1>0, <1>1, <1>3, <2>1, <2>2 DEF SentAs
  <2>4. ASSUME NEW s \in Sockets, line.sock = s, NEW e \in OnSocket(s)'
        PROVE  e.id \in 1..line'.nextID /\ \A r \in Requests : sent'[r] = e.id => r = e.req
    <3>1. ASSUME NEW f \in Els(toBff'[s]) \cup Els(toPage'[s]), Named(f)
          PROVE  \/ Entry(f.id, f.req) \in OnSocket(s)
                 \/ \E i \in DOMAIN rs : Entry(f.id, f.req) = Entry(n + i, rs[i])
      <4>1. CASE f \in Els(toBff[s]) \cup Els(toPage[s]) BY <3>1, <4>1 DEF OnSocket
      <4>2. ASSUME NEW i \in DOMAIN rs, f = Op(n + i, rs[i])
            PROVE  f.id = n + i /\ f.req = rs[i]
        BY <4>2 DEF Op
      <4>3. \/ f \in Els(toBff[s]) \cup Els(toPage[s])
            \/ \E i \in DOMAIN rs : f = Op(n + i, rs[i])
        BY <1>3, <3>1 DEF SentAs
      <4> QED BY <4>1, <4>2, <4>3
    <3>2. e \in OnSocket(s) \/ \E i \in DOMAIN rs : e = Entry(n + i, rs[i])
      <4>1. CASE e \in Els(running[s]) \cup Els(turns[s]) BY <4>1 DEF OnSocket
      <4> QED BY <2>4, <3>1, <4>1 DEF OnSocket
    <3>3. CASE e \in OnSocket(s)
      <4>1. e.id \in 1..n /\ \A r \in Requests : sent[r] = e.id => r = e.req
        BY <2>4, <3>3, NumberedIs DEF Own
      <4>2. \A r \in Requests : sent'[r] = e.id => sent[r] = e.id BY <1>0, <1>3, <2>1, <2>2, <4>1 DEF SentAs
      <4> QED BY <1>0, <1>1, <4>1, <4>2
    <3>4. ASSUME NEW i \in DOMAIN rs, e = Entry(n + i, rs[i])
          PROVE  e.id \in 1..line'.nextID /\ \A r \in Requests : sent'[r] = e.id => r = e.req
      <4>1. e.id = n + i /\ e.req = rs[i] BY <3>4 DEF Entry
      <4>2. ASSUME NEW r \in Requests, sent'[r] = n + i PROVE r = rs[i]
        <5>1. r \in Els(rs) BY <1>0, <1>3, <2>2, <4>2 DEF SentAs
        <5>2. PICK j \in DOMAIN rs : rs[j] = r /\ sent'[r] = n + j BY <2>1, <5>1
        <5>3. j = i BY <1>0, <4>2, <5>2
        <5> QED BY <5>2, <5>3
      <4> QED BY <1>1, <2>2, <4>1, <4>2
    <3> QED BY <3>2, <3>3, <3>4
  <2>5. \A s \in Sockets : line.sock = s => Own(s)' BY <2>4 DEF Own
  <2> QED BY <1>0, <1>1, <2>3, <2>5, NumberedNext
<1> QED BY <1>2, <1>3, SendDoes

LEMMA NumberedClosed ==
  ASSUME TypeOK, Numbered, NEW s \in Sockets, NEW code, Closed(s, code), toBff' = toBff,
         \A t \in Sockets : Els(toPage'[t]) \subseteq Els(toPage[t]), UNCHANGED <<running, turns>>
  PROVE  Numbered'
<1>1. CASE line.sock = s
  <2> DEFINE refused == line.state # "open" /\ code = 4401
  <2>1. Down(refused) BY <1>1 DEF Closed
  <2> HIDE DEF refused
  <2>2. /\ line' = [line EXCEPT !.state = "down", !.sock = 0, !.refused = refused, !.due = FALSE]
        /\ sent' = [r \in Requests |-> 0]
    BY <2>1 DEF Down
  <2>3. line'.sock = 0 /\ line'.nextID \in Nat BY <2>2 DEF TypeOK, PageOK, Lines
  <2> QED BY <2>2, <2>3, NumberedDown
<1>2. CASE line.sock # s
  <2>1. UNCHANGED <<line, sent>> BY <1>2 DEF Closed
  <2>2. \A t \in Sockets : OnSocket(t)' \subseteq OnSocket(t) BY OnSocketLess
  <2> QED BY <2>1, <2>2, NumberedLess
<1> QED BY <1>1, <1>2

LEMMA NumberedLetGo ==
  ASSUME NEW answered, LetGo(answered)
  PROVE  Numbered'
<1>1. line' = NoLine /\ sent' = [r \in Requests |-> 0] BY DEF LetGo
<1>2. line'.sock = 0 /\ line'.nextID \in Nat BY <1>1 DEF NoLine
<1> QED BY <1>1, <1>2, NumberedDown

LEMMA NumberedPageTakes ==
  ASSUME TypeOK, Placed, Numbered, NEW s \in Sockets, PageTakes(s)
  PROVE  Numbered'
<1> DEFINE f == Head(toPage[s])
<1>0. /\ UNCHANGED <<running, turns>> /\ \A t \in Sockets : Els(toPage'[t]) \subseteq Els(toPage[t])
      /\ sent \in [Requests -> Nat]
  BY PageHears DEF PageTakes, Page, bffVars, TypeOK, PageOK
<1>1. CASE Closed(s, f.code) /\ UNCHANGED toBff BY <1>0, <1>1, NumberedClosed
<1>2. CASE line.sock = s /\ TakeHelloSaid(s)
  <2> DEFINE l == [line EXCEPT !.state = "open"]
  <2>1. l \in Lines /\ l.sock = line.sock /\ l.nextID = line.nextID BY DEF TypeOK, PageOK, Lines
  <2>2. queued \in Seq(Requests) BY DEF TypeOK, PageOK
  <2>3. PICK throws \in BOOLEAN : Send(l, queued, throws) BY <1>2 DEF TakeHelloSaid
  <2> HIDE DEF l
  <2> QED BY <1>0, <2>1, <2>2, <2>3, Distinct, NumberedSend
<1>3. ASSUME line' = line, toBff' = toBff, sent' = sent \/ \E r \in Requests : sent' = [sent EXCEPT ![r] = 0]
      PROVE  Numbered'
  <2>1. \A t \in Sockets : OnSocket(t)' \subseteq OnSocket(t) BY <1>0, <1>3, OnSocketLess
  <2>2. \A r \in Requests : sent'[r] = sent[r] \/ sent'[r] = 0 BY <1>0, <1>3
  <2> QED BY <1>3, <2>1, <2>2, NumberedLess
<1>4. CASE TakeReply(f) BY <1>3, <1>4, NumberedLetGo DEF TakeReply
<1>5. CASE TakeError(f) BY <1>3, <1>5 DEF TakeError
<1>6. CASE UNCHANGED <<line, sent, toBff>> BY <1>3, <1>6
<1> QED BY <1>1, <1>2, <1>4, <1>5, <1>6 DEF PageTakes

LEMMA NumberedAsk ==
  ASSUME TypeOK, Placed, Numbered, Unopened, NEW r \in Requests, Ask(r)
  PROVE  Numbered'
<1>0. UNCHANGED <<toPage, running, turns>>
  BY DEF Ask, AskWarm, AskConnect, AskDown, AskQueued, AskSent, bffVars
<1>1. ASSUME line'.sock = line.sock, line'.nextID = line.nextID, UNCHANGED <<sent, toBff>> PROVE Numbered'
  <2>1. \A s \in Sockets : OnSocket(s)' \subseteq OnSocket(s) BY <1>0, <1>1, OnSocketLess
  <2> QED BY <1>1, <2>1, NumberedLess
<1>2. ASSUME NEW s \in Sockets, pageEnd[s] = "unused", UNCHANGED <<sent, toBff>>,
             line' = [line EXCEPT !.state = "connecting", !.sock = s, !.idle = FALSE]
      PROVE  Numbered'
  <2>1. line'.sock = s /\ line'.nextID = line.nextID /\ s \in 0..MaxSockets
    BY <1>2 DEF TypeOK, PageOK, Lines, Sockets
  <2>2. /\ toBff'[s] = <<>> /\ toPage'[s] = <<>> /\ running'[s] = <<>> /\ turns'[s] = <<>>
    BY <1>0, <1>2 DEF Unopened
  <2>3. OnSocket(s)' = {} BY <2>2 DEF OnSocket, Els
  <2>4. Own(s)' BY <2>3 DEF Own
  <2>5. \A q \in Requests : sent'[q] <= line'.nextID BY <1>2, <2>1 DEF Numbered
  <2> QED BY <2>1, <2>4, <2>5, NumberedNext
<1>3. CASE AskSent(r)
  <2> DEFINE l == [line EXCEPT !.idle = FALSE]
             rs == <<r>>
  <2>1. l \in Lines /\ l.sock = line.sock /\ l.nextID = line.nextID BY DEF TypeOK, PageOK, Lines
  <2>2. rs \in Seq(Requests) /\ \A i, j \in DOMAIN rs : rs[i] = rs[j] => i = j OBVIOUS
  <2>3. PICK throws \in BOOLEAN : Send(l, rs, throws) BY <1>3 DEF AskSent
  <2> HIDE DEF l, rs
  <2> QED BY <1>0, <2>1, <2>2, <2>3, NumberedSend
<1>4. CASE AskWarm(r) \/ AskDown(r) BY <1>1, <1>4 DEF AskWarm, AskDown
<1>5. CASE AskQueued(r)
  <2>1. line'.sock = line.sock /\ line'.nextID = line.nextID
    BY <1>5 DEF AskQueued, TypeOK, PageOK, Lines
  <2> QED BY <1>1, <1>5, <2>1 DEF AskQueued
<1>6. CASE AskConnect(r)
  <2>1. CASE line' = [line EXCEPT !.state = "down", !.due = FALSE,
                                  !.idle = IF line.state = "none" THEN FALSE ELSE @]
    <3>1. line'.sock = line.sock /\ line'.nextID = line.nextID BY <2>1 DEF TypeOK, PageOK, Lines
    <3> QED BY <1>1, <1>6, <3>1 DEF AskConnect
  <2> QED BY <1>2, <1>6, <2>1 DEF AskConnect
<1> QED BY <1>3, <1>4, <1>5, <1>6 DEF Ask

LEMMA NumberedStep ==
  ASSUME TypeOK, Placed, Numbered, Unopened, [Next]_vars
  PROVE  Numbered'
<1>0. line \in Lines /\ sent \in [Requests -> Nat] /\ toBff \in Channels BY DEF TypeOK, PageOK, NetworkOK
<1>1. ASSUME line'.sock = line.sock, line'.nextID = line.nextID,
             \A r \in Requests : sent'[r] = sent[r] \/ sent'[r] = 0,
             \A s \in Sockets : /\ running'[s] = running[s] /\ turns'[s] = turns[s] /\ toPage'[s] = toPage[s]
                                /\ Els(toBff'[s]) \subseteq Els(toBff[s]) \cup {Hello, Bye(1000)}
      PROVE  Numbered'
  <2>1. \A s \in Sockets : OnSocket(s)' \subseteq OnSocket(s) BY <1>1, OnSocketLess
  <2> QED BY <1>1, <2>1, NumberedLess
<1>2. CASE Bff
  <2>1. BffMoves BY <1>2, BffStepMoves
  <2>2. \A s \in Sockets : OnSocket(s)' \subseteq OnSocket(s) BY <2>1, BffOnSocket
  <2>3. UNCHANGED <<line, sent>>
    BY <1>2 DEF Bff, Accept, HelloTimeout, BffTakes, BffLoses, Finish, TokenExpires, pageVars
  <2> QED BY <2>2, <2>3, NumberedLess
<1>3. CASE Network \/ UNCHANGED vars
  <2>1. UNCHANGED <<line, sent, running, turns, toPage, toBff>>
    BY <1>3 DEF Network, HttpRun, HttpAnswer, HttpFail, Cut, vars, pageVars, bffVars
  <2> QED BY <1>1, <2>1
<1>4. ASSUME NEW r \in Requests, Abort(r) PROVE Numbered'
  <2>1. UNCHANGED <<line, running, turns, toPage, toBff>> BY <1>4 DEF Abort, bffVars
  <2>2. \A q \in Requests : sent'[q] = sent[q] \/ sent'[q] = 0 BY <1>0, <1>4 DEF Abort
  <2> QED BY <1>1, <2>1, <2>2
<1>5. ASSUME NEW s \in Sockets, Opened(s) PROVE Numbered'
  <2>1. UNCHANGED <<line, sent, running, turns, toPage>> BY <1>5 DEF Opened, bffVars
  <2>2. \A t \in Sockets : Els(toBff'[t]) \subseteq Els(toBff[t]) \cup {Hello}
    <3>1. CASE toBff' = toBff BY <3>1
    <3>2. CASE toBff' = OnWire(toBff, s, <<Hello>>)
      <4> DEFINE new == OnWire(toBff, s, <<Hello>>)
      <4>1. (\A t \in Sockets \ {s} : new[t] = toBff[t]) /\ Els(new[s]) \subseteq Els(toBff[s]) \cup {Hello}
        BY <1>0, FrameTypes, WireAdds
      <4>2. toBff' = new BY <3>2
      <4> HIDE DEF new
      <4> QED BY <4>1, <4>2
    <3> QED BY <1>5, <3>1, <3>2 DEF Opened
  <2> QED BY <1>1, <2>1, <2>2
<1>6. ASSUME NEW s \in Sockets, PageLoses(s) PROVE Numbered'
  <2>1. Closed(s, 1006) /\ UNCHANGED <<toBff, toPage, running, turns>> BY <1>6 DEF PageLoses, bffVars
  <2> QED BY <2>1, NumberedClosed
<1>7. CASE RetryDue \/ IdleElapses
  <2>1. UNCHANGED <<sent, running, turns, toPage, toBff>> BY <1>7 DEF RetryDue, IdleElapses, bffVars
  <2>2. line'.sock = line.sock /\ line'.nextID = line.nextID BY <1>0, <1>7 DEF RetryDue, IdleElapses, Lines
  <2> QED BY <1>1, <2>1, <2>2
<1>8. CASE Sweep BY <1>8, NumberedLetGo DEF Sweep
<1> QED BY <1>2, <1>3, <1>4, <1>5, <1>6, <1>7, <1>8, NumberedAsk, NumberedPageTakes DEF Next, Page

-----------------------------------------------------------------------------
(* A socket that is not opened stays empty.                                *)

Empty(s) == bffEnd[s] = "none" /\ toBff[s] = <<>> /\ toPage[s] = <<>> /\ running[s] = <<>> /\ turns[s] = <<>>

\* What a step leaves as it was on a socket.
Left(s) == /\ bffEnd'[s] = bffEnd[s] /\ toBff'[s] = toBff[s] /\ toPage'[s] = toPage[s]
           /\ running'[s] = running[s] /\ turns'[s] = turns[s]

\* A step leaves every socket as it was that is not opened.
LEMMA UnopenedNext ==
  ASSUME TypeOK, Unopened, \A s \in Sockets : Left(s) \/ pageEnd[s] # "unused",
         \A s \in Sockets : pageEnd'[s] = "unused" => pageEnd[s] = "unused",
         \/ line'.sock = 0 \/ line'.sock = line.sock
         \/ line'.sock \in Sockets /\ pageEnd'[line'.sock] # "unused"
  PROVE  Unopened'
<1>1. line.sock = 0 \/ line.sock \in Sockets
  BY BoundsAssumption DEF TypeOK, PageOK, Lines, Sockets
<1>2. line'.sock # 0 => pageEnd'[line'.sock] # "unused" BY <1>1 DEF Unopened
<1> QED BY <1>2 DEF Unopened, Left

\* The line's socket is opened; what is done to it leaves the others.
LEMMA LinesSocket ==
  ASSUME TypeOK, Unopened, NEW s \in Sockets, line.sock = s
  PROVE  pageEnd[s] # "unused"
<1>1. s # 0 BY BoundsAssumption DEF Sockets
<1> QED BY <1>1 DEF Unopened

LEMMA SayLeaves ==
  ASSUME TypeOK, NEW s \in Sockets, NEW f \in Frames, toPage' = toPage \/ toPage' = Say(s, f)
  PROVE  \A t \in Sockets \ {s} : toPage'[t] = toPage[t]
BY SayEls

LEMMA OnLineLeaves ==
  ASSUME TypeOK, Unopened, NEW f \in Frames, toBff' = toBff \/ (line.sock # 0 /\ toBff' = OnWire(toBff, line.sock, <<f>>))
  PROVE  \A t \in Sockets : toBff'[t] = toBff[t] \/ pageEnd[t] # "unused"
<1>1. line.sock # 0 => line.sock \in Sockets BY BoundsAssumption DEF TypeOK, PageOK, Lines, Sockets
<1>2. toBff \in Channels BY DEF TypeOK, NetworkOK
<1>3. ASSUME NEW s \in Sockets, line.sock = s, toBff' = OnWire(toBff, s, <<f>>)
      PROVE  \A t \in Sockets : toBff'[t] = toBff[t] \/ pageEnd[t] # "unused"
  <2>1. \A t \in Sockets \ {s} : toBff'[t] = toBff[t] BY <1>2, <1>3, WireAdds
  <2> QED BY <1>3, <2>1, LinesSocket
<1> QED BY <1>1, <1>3

LEMMA SendLeaves ==
  ASSUME TypeOK, Unopened, NEW l \in Lines, l.sock = line.sock, NEW rs \in Seq(Requests),
         \A i, j \in DOMAIN rs : rs[i] = rs[j] => i = j,
         NEW throws \in BOOLEAN, Send(l, rs, throws)
  PROVE  line'.sock = line.sock /\ \A t \in Sockets : toBff'[t] = toBff[t] \/ pageEnd[t] # "unused"
<1>1. line'.sock = line.sock
  <2>1. line' = [l EXCEPT !.nextID = @ + Len(rs)] BY DEF Send
  <2> QED BY <2>1 DEF Lines
<1>2. CASE toBff' = toBff BY <1>1, <1>2
<1>3. CASE SentAs(l, rs)
  <2>1. \A t \in Sockets : t # line.sock => toBff'[t] = toBff[t] BY <1>3 DEF SentAs
  <2> QED BY <1>1, <2>1, LinesSocket
<1> QED BY <1>2, <1>3, SendDoes

LEMMA UnopenedClosed ==
  ASSUME TypeOK, Unopened, NEW s \in Sockets, NEW code, Closed(s, code), pageEnd[s] # "unused",
         UNCHANGED <<bffEnd, toBff, running, turns>>, \A t \in Sockets \ {s} : toPage'[t] = toPage[t]
  PROVE  Unopened'
<1>1. \A t \in Sockets : pageEnd'[t] = "unused" => pageEnd[t] = "unused" BY DEF Closed, TypeOK, PageOK
<1>2. line'.sock = 0 \/ line'.sock = line.sock
  <2>1. CASE line.sock = s
    <3> DEFINE refused == line.state # "open" /\ code = 4401
    <3>1. Down(refused) BY <2>1 DEF Closed
    <3> HIDE DEF refused
    <3> QED BY <3>1 DEF Down, TypeOK, PageOK, Lines
  <2>2. CASE line.sock # s BY <2>2 DEF Closed
  <2> QED BY <2>1, <2>2
<1>3. \A t \in Sockets : Left(t) \/ pageEnd[t] # "unused" BY DEF Left
<1> QED BY <1>1, <1>2, <1>3, UnopenedNext

LEMMA UnopenedLetGo ==
  ASSUME TypeOK, Unopened, NEW answered, LetGo(answered), UNCHANGED <<bffEnd, running, turns>>,
         \A t \in Sockets : toPage'[t] = toPage[t] \/ pageEnd[t] # "unused"
  PROVE  Unopened'
<1> DEFINE bye == Bye(1000)
<1>1. bye \in Frames BY FrameTypes
<1>2. toBff' = toBff \/ (line.sock # 0 /\ toBff' = OnWire(toBff, line.sock, <<bye>>)) BY DEF LetGo
<1> HIDE DEF bye
<1>3. \A t \in Sockets : toBff'[t] = toBff[t] \/ pageEnd[t] # "unused" BY <1>1, <1>2, OnLineLeaves
<1>4. line'.sock = 0 BY DEF LetGo, NoLine
<1>5. \A t \in Sockets : pageEnd'[t] = "unused" => pageEnd[t] = "unused" BY DEF LetGo, TypeOK, PageOK
<1>6. \A t \in Sockets : Left(t) \/ pageEnd[t] # "unused" BY <1>3 DEF Left
<1> QED BY <1>4, <1>5, <1>6, UnopenedNext

LEMMA UnopenedPageTakes ==
  ASSUME TypeOK, Placed, Unopened, NEW s \in Sockets, PageTakes(s)
  PROVE  Unopened'
<1> DEFINE f == Head(toPage[s])
<1>0. /\ UNCHANGED <<bffEnd, running, turns>> /\ pageEnd[s] # "unused"
      /\ \A t \in Sockets \ {s} : toPage'[t] = toPage[t]
  BY DEF PageTakes, bffVars, TypeOK, NetworkOK, Channels
<1>1. CASE Closed(s, f.code) /\ UNCHANGED toBff BY <1>0, <1>1, UnopenedClosed
<1>2. CASE TakeHelloSaid(s)
  <2> DEFINE l == [line EXCEPT !.state = "open"]
  <2>1. l \in Lines /\ l.sock = line.sock BY DEF TypeOK, PageOK, Lines
  <2>2. queued \in Seq(Requests) BY DEF TypeOK, PageOK
  <2>3. PICK throws \in BOOLEAN : Send(l, queued, throws) BY <1>2 DEF TakeHelloSaid
  <2>4. pageEnd' = pageEnd BY <1>2 DEF TakeHelloSaid
  <2> HIDE DEF l
  <2>5. line'.sock = line.sock /\ \A t \in Sockets : toBff'[t] = toBff[t] \/ pageEnd[t] # "unused"
    BY <2>1, <2>2, <2>3, Distinct, SendLeaves
  <2>6. \A t \in Sockets : Left(t) \/ pageEnd[t] # "unused" BY <1>0, <2>5 DEF Left
  <2> QED BY <2>4, <2>5, <2>6, UnopenedNext
<1>3. ASSUME UNCHANGED <<line, pageEnd, toBff>> PROVE Unopened'
  <2>1. \A t \in Sockets : Left(t) \/ pageEnd[t] # "unused" BY <1>0, <1>3 DEF Left
  <2> QED BY <1>3, <2>1, UnopenedNext
<1>4. CASE TakeReply(f) BY <1>0, <1>3, <1>4, UnopenedLetGo DEF TakeReply
<1>5. CASE TakeError(f) BY <1>3, <1>5 DEF TakeError
<1>6. CASE UNCHANGED <<line, pageEnd, toBff>> BY <1>3, <1>6
<1> QED BY <1>1, <1>2, <1>4, <1>5, <1>6 DEF PageTakes

LEMMA UnopenedAsk ==
  ASSUME TypeOK, Unopened, NEW r \in Requests, Ask(r)
  PROVE  Unopened'
<1>0. UNCHANGED <<bffEnd, toPage, running, turns>>
  BY DEF Ask, AskWarm, AskConnect, AskDown, AskQueued, AskSent, bffVars
<1>1. ASSUME line'.sock = line.sock, UNCHANGED <<pageEnd, toBff>> PROVE Unopened'
  <2>1. \A t \in Sockets : Left(t) BY <1>0, <1>1 DEF Left
  <2> QED BY <1>1, <2>1, UnopenedNext
<1>2. ASSUME NEW s \in Sockets, pageEnd' = [pageEnd EXCEPT ![s] = "opening"], toBff' = toBff,
             line' = [line EXCEPT !.state = "connecting", !.sock = s, !.idle = FALSE]
      PROVE  Unopened'
  <2>1. line'.sock = s BY <1>2 DEF TypeOK, PageOK, Lines
  <2>2. pageEnd'[s] # "unused" /\ \A t \in Sockets : pageEnd'[t] = "unused" => pageEnd[t] = "unused"
    BY <1>2 DEF TypeOK, PageOK
  <2>3. \A t \in Sockets : Left(t) BY <1>0, <1>2 DEF Left
  <2> QED BY <2>1, <2>2, <2>3, UnopenedNext
<1>3. CASE AskSent(r)
  <2> DEFINE l == [line EXCEPT !.idle = FALSE]
             rs == <<r>>
  <2>1. l \in Lines /\ l.sock = line.sock BY DEF TypeOK, PageOK, Lines
  <2>2. rs \in Seq(Requests) /\ \A i, j \in DOMAIN rs : rs[i] = rs[j] => i = j OBVIOUS
  <2>3. PICK throws \in BOOLEAN : Send(l, rs, throws) BY <1>3 DEF AskSent
  <2>4. pageEnd' = pageEnd BY <1>3 DEF AskSent
  <2> HIDE DEF l, rs
  <2>5. line'.sock = line.sock /\ \A t \in Sockets : toBff'[t] = toBff[t] \/ pageEnd[t] # "unused"
    BY <2>1, <2>2, <2>3, SendLeaves
  <2>6. \A t \in Sockets : Left(t) \/ pageEnd[t] # "unused" BY <1>0, <2>5 DEF Left
  <2> QED BY <2>4, <2>5, <2>6, UnopenedNext
<1>4. CASE AskWarm(r) \/ AskDown(r) BY <1>1, <1>4 DEF AskWarm, AskDown
<1>5. CASE AskQueued(r)
  <2>1. line'.sock = line.sock BY <1>5 DEF AskQueued, TypeOK, PageOK, Lines
  <2> QED BY <1>1, <1>5, <2>1 DEF AskQueued
<1>6. CASE AskConnect(r)
  <2>1. CASE /\ line' = [line EXCEPT !.state = "down", !.due = FALSE,
                                     !.idle = IF line.state = "none" THEN FALSE ELSE @]
             /\ pageEnd' = pageEnd
    <3>1. line'.sock = line.sock BY <2>1 DEF TypeOK, PageOK, Lines
    <3> QED BY <1>1, <1>6, <2>1, <3>1 DEF AskConnect
  <2> QED BY <1>2, <1>6, <2>1 DEF AskConnect
<1> QED BY <1>3, <1>4, <1>5, <1>6 DEF Ask

\* At the BFF's end only a socket that was accepted is touched.
LEMMA UnopenedBff ==
  ASSUME TypeOK, Unopened, Bff
  PROVE  Unopened'
<1>0. /\ bffEnd \in [Sockets -> {"none", "hello", "ready", "closed"}] /\ toBff \in Channels
      /\ turns \in [Sockets -> Seq(Entries)] /\ running \in [Sockets -> Seq(Entries)]
  BY DEF TypeOK, BffOK, NetworkOK
<1>1. UNCHANGED <<line, pageEnd>>
  BY DEF Bff, Accept, HelloTimeout, BffTakes, BffLoses, Finish, TokenExpires, pageVars
<1>2. ASSUME NEW s \in Sockets, pageEnd[s] # "unused", \A t \in Sockets \ {s} : Left(t) PROVE Unopened'
  <2>1. \A t \in Sockets : Left(t) \/ pageEnd[t] # "unused" BY <1>2
  <2> QED BY <1>1, <2>1, UnopenedNext
<1>3. ASSUME NEW s \in Sockets, bffEnd[s] # "none" \/ running[s] # <<>> PROVE pageEnd[s] # "unused"
  BY <1>3 DEF Unopened
<1>4. ASSUME NEW s \in Sockets, Accept(s) PROVE Unopened'
  <2>1. \A t \in Sockets \ {s} : Left(t) BY <1>0, <1>4 DEF Accept, Left
  <2> QED BY <1>2, <1>4, <2>1 DEF Accept
<1>5. ASSUME NEW s \in Sockets, HelloTimeout(s) PROVE Unopened'
  <2>1. \A t \in Sockets \ {s} : toPage'[t] = toPage[t]
    <3> DEFINE bye == Bye(4400)
    <3>1. bye \in Frames /\ toPage' = Say(s, bye) BY <1>5, FrameTypes DEF HelloTimeout
    <3> HIDE DEF bye
    <3> QED BY <3>1, SayLeaves
  <2>2. \A t \in Sockets \ {s} : Left(t) BY <1>0, <1>5, <2>1 DEF HelloTimeout, Left
  <2> QED BY <1>2, <1>3, <1>5, <2>2 DEF HelloTimeout
<1>6. ASSUME NEW s \in Sockets, BffTakes(s) PROVE Unopened'
  <2>1. pageEnd[s] # "unused" BY <1>3, <1>6 DEF BffTakes
  <2>2. \A t \in Sockets \ {s} : toBff'[t] = toBff[t] BY <1>0, <1>6 DEF BffTakes, Channels
  <2>3. CASE TakeHello(s)
    <3>1. PICK f \in {Hello, Bye(4401)} : toPage' = Say(s, f) BY <2>3 DEF TakeHello
    <3>2. \A t \in Sockets \ {s} : toPage'[t] = toPage[t] BY <3>1, FrameTypes, SayLeaves
    <3>3. \A t \in Sockets \ {s} : Left(t) BY <1>0, <2>2, <2>3, <3>2 DEF TakeHello, Left
    <3> QED BY <1>2, <2>1, <3>3
  <2>4. CASE Head(toBff[s]).k = "op" /\ TakeOperation(s, Head(toBff[s]))
    <3> DEFINE f == Head(toBff[s])
               d == Error(f.id, f.req)
    <3>1. f \in Frames BY <1>0, <1>6, TypeTail DEF BffTakes
    <3>2. d \in Frames BY <2>4, <3>1, FrameTypes DEF Frames
    <3>3. toPage' = toPage \/ toPage' = Say(s, d) BY <2>4 DEF TakeOperation
    <3>4. \A t \in Sockets \ {s} : running'[t] = running[t] /\ turns'[t] = turns[t] /\ bffEnd'[t] = bffEnd[t]
      BY <1>0, <2>4 DEF TakeOperation, Start
    <3> HIDE DEF f, d
    <3>5. \A t \in Sockets \ {s} : toPage'[t] = toPage[t] BY <3>2, <3>3, SayLeaves
    <3>6. \A t \in Sockets \ {s} : Left(t) BY <2>2, <3>4, <3>5 DEF Left
    <3> QED BY <1>2, <2>1, <3>6
  <2>5. CASE BffCloses(s)
    <3>1. \A t \in Sockets \ {s} : Left(t) BY <1>0, <2>2, <2>5 DEF BffCloses, Left
    <3> QED BY <1>2, <2>1, <3>1
  <2> QED BY <1>6, <2>3, <2>4, <2>5 DEF BffTakes
<1>7. ASSUME NEW s \in Sockets, BffLoses(s) PROVE Unopened'
  <2>1. \A t \in Sockets \ {s} : Left(t) BY <1>0, <1>7 DEF BffLoses, BffCloses, Left
  <2> QED BY <1>2, <1>3, <1>7, <2>1 DEF BffLoses
<1>8. ASSUME NEW s \in Sockets, NEW i \in DOMAIN running[s], Finish(s, i) PROVE Unopened'
  <2> DEFINE e == running[s][i]
  <2>1. running[s] # <<>> BY <1>8
  <2>2. PICK ok \in BOOLEAN : toPage' = Say(s, Reply(e.id, e.req, ok)) BY <1>8 DEF Finish
  <2> DEFINE d == Reply(e.id, e.req, ok)
  <2>3. d \in Frames
    <3>1. e \in Entries BY <1>0, <1>8
    <3> QED BY <3>1, FrameTypes DEF Entries
  <2>4. toPage' = Say(s, d) BY <2>2
  <2>5. /\ bffEnd' = bffEnd /\ toBff' = toBff
        /\ \A t \in Sockets \ {s} : running'[t] = running[t] /\ turns'[t] = turns[t]
    BY <1>0, <1>8 DEF Finish, TakeTurn
  <2> HIDE DEF e, d
  <2>6. \A t \in Sockets \ {s} : toPage'[t] = toPage[t] BY <2>3, <2>4, SayLeaves
  <2>7. \A t \in Sockets \ {s} : Left(t) BY <2>5, <2>6 DEF Left
  <2> QED BY <1>2, <1>3, <2>1, <2>7
<1>9. CASE TokenExpires
  <2>1. \A t \in Sockets : Left(t) BY <1>9 DEF TokenExpires, Left
  <2> QED BY <1>1, <2>1, UnopenedNext
<1> QED BY <1>4, <1>5, <1>6, <1>7, <1>8, <1>9 DEF Bff

LEMMA UnopenedStep ==
  ASSUME TypeOK, Placed, Unopened, [Next]_vars
  PROVE  Unopened'
<1>0. line \in Lines /\ pageEnd \in [Sockets -> {"unused", "opening", "open", "closed"}] /\ toBff \in Channels
  BY DEF TypeOK, PageOK, NetworkOK
<1>1. ASSUME line'.sock = line.sock, UNCHANGED <<bffEnd, toPage, running, turns>>,
             \A s \in Sockets : toBff'[s] = toBff[s] \/ pageEnd[s] # "unused",
             \A s \in Sockets : pageEnd'[s] = "unused" => pageEnd[s] = "unused"
      PROVE  Unopened'
  <2>1. \A t \in Sockets : Left(t) \/ pageEnd[t] # "unused" BY <1>1 DEF Left
  <2> QED BY <1>1, <2>1, UnopenedNext
<1>2. CASE Network \/ UNCHANGED vars
  <2>1. UNCHANGED <<line, pageEnd, bffEnd, running, turns, toPage, toBff>>
    BY <1>2 DEF Network, HttpRun, HttpAnswer, HttpFail, Cut, vars, pageVars, bffVars
  <2> QED BY <1>1, <2>1
<1>3. CASE RetryDue \/ IdleElapses \/ \E r \in Requests : Abort(r)
  <2>1. line'.sock = line.sock /\ UNCHANGED <<pageEnd, bffEnd, running, turns, toPage, toBff>>
    BY <1>0, <1>3 DEF RetryDue, IdleElapses, Abort, bffVars, Lines
  <2> QED BY <1>1, <2>1
<1>4. ASSUME NEW s \in Sockets, Opened(s) PROVE Unopened'
  <2>1. line' = line /\ UNCHANGED <<bffEnd, running, turns, toPage>> BY <1>4 DEF Opened, bffVars
  <2>2. pageEnd[s] # "unused" /\ \A t \in Sockets : pageEnd'[t] = "unused" => pageEnd[t] = "unused"
    BY <1>0, <1>4 DEF Opened
  <2>3. \A t \in Sockets \ {s} : toBff'[t] = toBff[t]
    <3>1. toBff' = toBff \/ toBff' = OnWire(toBff, s, <<Hello>>) BY <1>4 DEF Opened
    <3> QED BY <1>0, <3>1, FrameTypes, WireAdds
  <2> QED BY <1>1, <2>1, <2>2, <2>3
<1>5. ASSUME NEW s \in Sockets, PageLoses(s) PROVE Unopened'
  <2>1. Closed(s, 1006) /\ pageEnd[s] # "unused" /\ UNCHANGED <<bffEnd, toBff, toPage, running, turns>>
    BY <1>5 DEF PageLoses, bffVars
  <2> QED BY <2>1, UnopenedClosed
<1>6. CASE Sweep BY <1>6, UnopenedLetGo DEF Sweep, bffVars
<1> QED BY <1>2, <1>3, <1>4, <1>5, <1>6, UnopenedAsk, UnopenedPageTakes, UnopenedBff DEF Next, Page


-----------------------------------------------------------------------------
(* The invariant, and what follows from it.                                *)

LEMMA InvInit == Init => Inv
<1> SUFFICES ASSUME Init PROVE Inv OBVIOUS
<1>0. TypeOK BY BoundsAssumption DEF Init, NoLine, Lines, TypeOK, PageOK, BffOK, NetworkOK, Calls, Channels
<1>1. Els(<<>>) = {} /\ \A F : Reqs(<<>>, F) = {} BY DEF Els, Reqs
<1>2. ASSUME NEW p \in Places PROVE Holds(p) = {}
  BY <1>1, <1>2, PlaceCases DEF Init, Holds
<1>3. Apart /\ Unrun BY <1>2 DEF Apart, Unrun
<1>4. Single BY DEF Init, Single, Each
<1>5. \A r \in Requests : Fate(r) BY <1>1 DEF Init, Fate
<1>6. Ran BY <1>1 DEF Init, Ran
<1>7. Numbered BY DEF Init, Numbered, NoLine
<1>8. Unopened BY DEF Init, Unopened, NoLine
<1> QED BY <1>0, <1>3, <1>4, <1>5, <1>6, <1>7, <1>8 DEF Inv

LEMMA InvAlways == Spec => []Inv
<1>1. Inv /\ TypeOK' /\ [Next]_vars => Inv'
  <2> SUFFICES ASSUME Inv, TypeOK', [Next]_vars PROVE Inv' OBVIOUS
  <2>1. TypeOK /\ Placed /\ Numbered /\ Unopened /\ Ran /\ Fates BY DEF Inv, Placed, Fates
  <2>2. Placed' BY <2>1, PlacedStep DEF Fates
  <2>3. Fates' BY <2>1, FateStep
  <2>4. Ran' BY <2>1, RanStep
  <2>5. Numbered' BY <2>1, NumberedStep
  <2>6. Unopened' BY <2>1, UnopenedStep
  <2> QED BY <2>2, <2>3, <2>4, <2>5, <2>6 DEF Inv, Placed, Fates
<1> QED BY <1>1, InvInit, TypeCorrect, PTL DEF Spec

\* An answer that the page takes as a request's is that request's own, and the request was
\* run: no reply is ever matched to another call, whichever line, socket or id it came by
\* (waiting.get(id) in socketFetch.ts, reply in src/pilotSocket.js).
THEOREM AnswersAreOwn == Spec => []OwnAnswer
<1>1. Inv => OwnAnswer
  <2> SUFFICES ASSUME Inv, NEW s \in Sockets, NEW i \in DOMAIN toPage[s], toPage[s][i].k = "reply",
                      line.sock = s
               PROVE  /\ runs[toPage[s][i].req] = 1
                      /\ \A r \in Requests : sent[r] = toPage[s][i].id => r = toPage[s][i].req
    BY DEF OwnAnswer
  <2>1. toPage[s][i] \in Els(toPage[s]) BY DEF Els
  <2> QED BY <2>1, OwnFrame DEF Inv, Ran
<1> QED BY <1>1, InvAlways, PTL

-----------------------------------------------------------------------------
(* Every step is one of RequestOnce's, or is not seen there.               *)

Open == {"waiting", "http"}

LEMMA RunIsRun ==
  ASSUME TypeOK, NEW r \in Requests, runs[r] = 0, call[r] # "unasked",
         runs' = [runs EXCEPT ![r] = @ + 1], call' = call
  PROVE  Once!Next
<1>1. runs' = [runs EXCEPT ![r] = 1] BY DEF TypeOK, BffOK
<1>2. Told[r] # "unasked" BY DEF Told
<1>3. Told' = Told BY DEF Told
<1>4. Once!Run(r) BY <1>1, <1>2, <1>3 DEF Once!Run
<1> QED BY <1>4 DEF Once!Next

LEMMA AskIsAsk ==
  ASSUME TypeOK, NEW r \in Requests, call[r] = "unasked", NEW c \in Open,
         call' = [call EXCEPT ![r] = c], runs' = runs
  PROVE  Once!Next
<1>1. call \in [Requests -> Calls] BY DEF TypeOK, PageOK
<1>2. Told[r] = "unasked" /\ Told' = [Told EXCEPT ![r] = "asked"] BY <1>1 DEF Told, Open
<1>3. Once!Ask(r) BY <1>2 DEF Once!Ask
<1> QED BY <1>3 DEF Once!Next

LEMMA TellIsTell ==
  ASSUME TypeOK, TypeOK', runs' = runs,
         \A r \in Requests : \/ call'[r] = call[r]
                             \/ call[r] \in Open /\ call'[r] \in Open
                             \/ call[r] \in Open /\ call'[r] = "failed"
                             \/ call[r] \in Open /\ call'[r] = "answered" /\ runs[r] = 1
  PROVE  Once!Next
<1>1. call \in [Requests -> Calls] /\ call' \in [Requests -> Calls] BY DEF TypeOK, PageOK
<1>2. Told' \in [Requests -> {"unasked", "asked", "answered", "failed", "aborted"}]
  BY <1>1 DEF Told, Calls, Settled
<1>3. ASSUME NEW r \in Requests
      PROVE  \/ Told'[r] = Told[r]
             \/ Told[r] = "asked" /\ Told'[r] = "answered" /\ runs[r] = 1
             \/ Told[r] = "asked" /\ Told'[r] = "failed"
  BY DEF Told, Open
<1>4. Once!Tell BY <1>2, <1>3 DEF Once!Tell
<1> QED BY <1>4 DEF Once!Next

LEMMA ClosedTells ==
  ASSUME TypeOK, TypeOK', Fates, NEW s \in Sockets, NEW code, Closed(s, code), runs' = runs
  PROVE  Once!Next
<1>1. CASE line.sock = s
  <2>1. Down(line.state # "open" /\ code = 4401) BY <1>1 DEF Closed
  <2>2. \A r \in Requests :
          call'[r] = IF r \in Els(queued) THEN "http" ELSE IF sent[r] # 0 THEN "failed" ELSE call[r]
    BY <2>1, InSeqEls DEF Down
  <2> QED BY <2>2, TellIsTell DEF Fates, Fate, Open
<1>2. CASE line.sock # s
  <2>1. call' = call BY <1>2 DEF Closed
  <2> QED BY <2>1, TellIsTell
<1> QED BY <1>1, <1>2

LEMMA LetGoTells ==
  ASSUME TypeOK, TypeOK', Fates, NEW answered \in SUBSET Requests, LetGo(answered), runs' = runs,
         \A r \in answered : call[r] = "waiting" /\ runs[r] = 1
  PROVE  Once!Next
<1>1. \A r \in Requests :
        call'[r] = IF r \in answered THEN "answered" ELSE IF r \in Els(queued) THEN "http"
                   ELSE IF sent[r] # 0 THEN "failed" ELSE call[r]
  BY InSeqEls DEF LetGo
<1> QED BY <1>1, TellIsTell DEF Fates, Fate, Open

LEMMA PageTakesTells ==
  ASSUME Inv, TypeOK', NEW s \in Sockets, PageTakes(s)
  PROVE  Once!Next
<1> DEFINE f == Head(toPage[s])
<1>0. /\ toPage[s] # <<>> /\ runs' = runs /\ call \in [Requests -> Calls] /\ TypeOK
      /\ Placed /\ Numbered /\ Ran /\ Fates
  BY DEF PageTakes, Inv, Placed, Fates, TypeOK, PageOK
<1>1. f \in Els(toPage[s])
  <2>1. toPage[s] \in Seq(Frames) BY <1>0, EntryTypes
  <2> QED BY <1>0, <2>1, TailEls
<1>2. CASE Closed(s, f.code) BY <1>0, <1>2, ClosedTells
<1>3. CASE TakeHelloSaid(s)
  <2> DEFINE l == [line EXCEPT !.state = "open"]
  <2>1. l \in Lines BY <1>0 DEF TypeOK, PageOK, Lines
  <2>2. queued \in Seq(Requests) BY <1>0 DEF TypeOK, PageOK
  <2>3. PICK throws \in BOOLEAN : Send(l, queued, throws) BY <1>3 DEF TakeHelloSaid
  <2> HIDE DEF l
  <2>4. \/ call' = [r \in Requests |-> IF r \in Els(queued) THEN "http" ELSE call[r]]
        \/ call' = [r \in Requests |-> IF r \in Els(queued) THEN "waiting" ELSE call[r]]
    BY <1>0, <2>1, <2>2, <2>3, Distinct, SendDoes DEF SentAs
  <2>5. \A r \in Requests : r \in Els(queued) => call[r] \in Open BY <1>0 DEF Fates, Fate, Open
  <2>6. \A r \in Requests : \/ call'[r] = call[r]
                            \/ call[r] \in Open /\ call'[r] \in Open
    BY <2>4, <2>5 DEF Open
  <2> QED BY <1>0, <2>6, TellIsTell
<1>4. CASE f.k = "reply" /\ line.sock = s /\ TakeReply(f)
  <2>1. PICK r \in Requests :
          /\ sent[r] = f.id
          /\ LetGo({r}) \/ call' = [call EXCEPT ![r] = "answered"]
    BY <1>4 DEF TakeReply
  <2>2. call[r] = "waiting" BY <1>0, <1>1, <1>4, <2>1, AskerWaits
  <2>3. runs[r] = 1
    <3>1. r = f.req BY <1>0, <1>1, <1>4, <2>1, OwnFrame
    <3> QED BY <1>0, <1>1, <1>4, <3>1 DEF Ran
  <2>4. CASE LetGo({r})
    <3>1. {r} \in SUBSET Requests /\ \A q \in {r} : call[q] = "waiting" /\ runs[q] = 1 BY <2>2, <2>3
    <3> QED BY <1>0, <2>4, <3>1, LetGoTells
  <2>5. CASE call' = [call EXCEPT ![r] = "answered"]
    BY <1>0, <2>2, <2>3, <2>5, TellIsTell DEF Open
  <2> QED BY <2>1, <2>4, <2>5
<1>5. CASE f.k = "error" /\ line.sock = s /\ TakeError(f)
  <2>1. PICK r \in Requests : sent[r] = f.id /\ OverHttp({r}) BY <1>5 DEF TakeError
  <2>2. call[r] = "waiting" BY <1>0, <1>1, <1>5, <2>1, AskerWaits
  <2>3. \A q \in Requests : call'[q] = IF q = r THEN "http" ELSE call[q] BY <2>1 DEF OverHttp
  <2> QED BY <1>0, <2>2, <2>3, TellIsTell DEF Open
<1>6. CASE call' = call BY <1>0, <1>6, TellIsTell
<1> QED BY <1>2, <1>3, <1>4, <1>5, <1>6 DEF PageTakes

LEMMA AskAsks ==
  ASSUME Inv, NEW r \in Requests, Ask(r)
  PROVE  Once!Next
<1>0. TypeOK /\ call[r] = "unasked" /\ runs' = runs /\ call \in [Requests -> Calls]
  BY DEF Inv, Ask, AskWarm, AskConnect, AskDown, AskQueued, AskSent, TypeOK, PageOK
<1>1. call' = [call EXCEPT ![r] = "http"] \/ call' = [call EXCEPT ![r] = "waiting"]
  <2>1. CASE OverHttp({r})
    <3>1. call' = [q \in Requests |-> IF q = r THEN "http" ELSE call[q]] BY <2>1 DEF OverHttp
    <3> QED BY <1>0, <3>1
  <2>2. CASE AskSent(r)
    <3> DEFINE l == [line EXCEPT !.idle = FALSE]
               rs == <<r>>
    <3>1. l \in Lines BY <1>0 DEF TypeOK, PageOK, Lines
    <3>2. rs \in Seq(Requests) /\ Els(rs) = {r} /\ \A i, j \in DOMAIN rs : rs[i] = rs[j] => i = j BY DEF Els
    <3>3. PICK throws \in BOOLEAN : Send(l, rs, throws) BY <2>2 DEF AskSent
    <3> HIDE DEF l, rs
    <3>4. \/ call' = [q \in Requests |-> IF q \in Els(rs) THEN "http" ELSE call[q]]
          \/ call' = [q \in Requests |-> IF q \in Els(rs) THEN "waiting" ELSE call[q]]
      BY <1>0, <3>1, <3>2, <3>3, SendDoes DEF SentAs
    <3>5. \/ call' = [q \in Requests |-> IF q = r THEN "http" ELSE call[q]]
          \/ call' = [q \in Requests |-> IF q = r THEN "waiting" ELSE call[q]]
      BY <3>2, <3>4
    <3> QED BY <1>0, <3>5
  <2> QED BY <2>1, <2>2 DEF Ask, AskWarm, AskConnect, AskDown, AskQueued
<1> QED BY <1>0, <1>1, AskIsAsk DEF Open

LEMMA OnceStep ==
  ASSUME Inv, TypeOK', [Next]_vars
  PROVE  [Once!Next]_<<Told, runs>>
<1>0. TypeOK /\ Placed /\ Fates /\ call \in [Requests -> Calls]
  BY DEF Inv, Placed, Fates, TypeOK, PageOK
<1>1. ASSUME NEW r \in Requests, Abort(r) PROVE Once!Next
  <2>1. call[r] \in Open /\ call' = [call EXCEPT ![r] = "aborted"] /\ runs' = runs
    BY <1>1 DEF Abort, Open
  <2>2. Told[r] = "asked" /\ Told' = [Told EXCEPT ![r] = "aborted"] BY <1>0, <2>1 DEF Told, Open
  <2>3. Once!GiveUp(r) BY <2>1, <2>2 DEF Once!GiveUp
  <2> QED BY <2>3 DEF Once!Next
<1>2. ASSUME NEW s \in Sockets, PageLoses(s) PROVE Once!Next
  BY <1>0, <1>2, ClosedTells DEF PageLoses
<1>3. CASE Sweep
  <2>1. LetGo({}) /\ runs' = runs BY <1>3 DEF Sweep
  <2>2. {} \in SUBSET Requests OBVIOUS
  <2> QED BY <1>0, <2>1, <2>2, LetGoTells
<1>4. CASE UNCHANGED <<call, runs>>
  <2>1. UNCHANGED Told BY <1>4 DEF Told
  <2> QED BY <1>4, <2>1
<1>5. ASSUME \/ RetryDue \/ IdleElapses \/ TokenExpires \/ UNCHANGED vars
             \/ \E s \in Sockets : Opened(s) \/ Accept(s) \/ HelloTimeout(s) \/ BffLoses(s) \/ Cut(s)
      PROVE  UNCHANGED <<call, runs>>
  BY <1>5 DEF Opened, RetryDue, IdleElapses, Accept, HelloTimeout, BffLoses, BffCloses, TokenExpires,
              Cut, vars, pageVars
<1>6. ASSUME NEW s \in Sockets, BffTakes(s) PROVE [Once!Next]_<<Told, runs>>
  <2>1. UNCHANGED <<queued, call, wire>> BY <1>6 DEF BffTakes, pageVars
  <2>2. CASE TakeHello(s) \/ BffCloses(s)
    <3>1. runs' = runs BY <2>2 DEF TakeHello, BffCloses
    <3> QED BY <1>4, <2>1, <3>1
  <2>3. CASE Head(toBff[s]).k = "op" /\ TakeOperation(s, Head(toBff[s]))
    <3> DEFINE f == Head(toBff[s])
               r == f.req
    <3>1. runs[r] = 0 /\ call[r] # "unasked" BY <1>0, <1>6, <2>1, <2>3, PlacedTakeOperation DEF BffTakes
    <3>2. runs' = runs \/ runs' = [runs EXCEPT ![r] = @ + 1] BY <2>3 DEF TakeOperation, Start, Entry
    <3>3. r \in Requests
      <4>1. f \in Frames BY <1>0, <1>6, TypeTail DEF BffTakes, TypeOK, NetworkOK
      <4> QED BY <2>3, <4>1 DEF Frames
    <3> HIDE DEF r
    <3> QED BY <1>0, <1>4, <2>1, <3>1, <3>2, <3>3, RunIsRun
  <2> QED BY <1>6, <2>2, <2>3 DEF BffTakes
<1>7. ASSUME NEW s \in Sockets, NEW i \in DOMAIN running[s], Finish(s, i) PROVE [Once!Next]_<<Told, runs>>
  <2> DEFINE r == Head(turns[s]).req
  <2>1. UNCHANGED call BY <1>7 DEF Finish, pageVars
  <2>2. CASE turns[s] = <<>>
    <3>1. runs' = runs BY <1>7, <2>2 DEF Finish
    <3> QED BY <1>4, <2>1, <3>1
  <2>3. CASE turns[s] # <<>>
    <3>1. runs[r] = 0 /\ call[r] # "unasked" /\ r \in Requests BY <1>0, <1>7, <2>3, PlacedFinish DEF Entries
    <3>2. runs' = [runs EXCEPT ![r] = @ + 1] BY <1>7, <2>3 DEF Finish, TakeTurn
    <3> HIDE DEF r
    <3> QED BY <1>0, <2>1, <3>1, <3>2, RunIsRun
  <2> QED BY <2>2, <2>3
<1>8. ASSUME NEW r \in Requests, HttpRun(r) PROVE Once!Next
  <2>1. r \in wire /\ runs' = [runs EXCEPT ![r] = @ + 1] /\ UNCHANGED call BY <1>8 DEF HttpRun, pageVars
  <2>2. runs[r] = 0 /\ call[r] # "unasked"
    BY <1>0, <2>1, ThePlaces DEF Placed, Unrun, Holds
  <2> QED BY <1>0, <2>1, <2>2, RunIsRun
<1>9. ASSUME NEW r \in Requests, HttpAnswer(r) PROVE Once!Next
  <2>1. call[r] = "http" /\ call' = [call EXCEPT ![r] = "answered"] /\ runs' = runs /\ runs[r] = 1
    BY <1>0, <1>9 DEF HttpAnswer, Fates, Fate
  <2> QED BY <1>0, <2>1, TellIsTell DEF Open
<1>10. ASSUME NEW r \in Requests, HttpFail(r) PROVE Once!Next
  <2>1. call[r] = "http" /\ call' = [call EXCEPT ![r] = "failed"] /\ runs' = runs BY <1>10 DEF HttpFail
  <2> QED BY <1>0, <2>1, TellIsTell DEF Open
<1> QED BY <1>1, <1>2, <1>3, <1>4, <1>5, <1>6, <1>7, <1>8, <1>9, <1>10, AskAsks, PageTakesTells
    DEF Next, Page, Bff, Network

\* The two ends of the socket with the way back over HTTP keep the promise of one fetch, for
\* any number of requests, sockets and turns and whatever is lost, cut or closed: each step
\* runs a request never run before, tells outcomes nobody had yet, an answer only of what was
\* run, or is not seen by the asker (socketFetch.ts: what is not known is not retried).
THEOREM SocketCarriesOnce == Spec => CarriedOnce
<1>1. Init => Once!Init
  <2> SUFFICES ASSUME Init PROVE Once!Init OBVIOUS
  <2>1. Told = [r \in Requests |-> "unasked"] BY DEF Init, Told
  <2> QED BY <2>1 DEF Init, Once!Init
<1>2. Inv /\ TypeOK' /\ [Next]_vars => [Once!Next]_<<Told, runs>> BY OnceStep
<1> QED BY <1>1, <1>2, InvAlways, TypeCorrect, PTL DEF Spec, CarriedOnce, Once!Spec
=============================================================================
