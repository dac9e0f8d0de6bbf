----------------------------- MODULE EventStream -----------------------------
(***************************************************************************)
(* The pushed notices of one web session, from the game server to the page *)
(* and back to nobody watching: the page's listener on its socket (listen  *)
(* in web/src/app/socketFetch.ts), the stream a socket runs in process     *)
(* (attachEvents and streamInProcess in src/pilotSocket.js), the route     *)
(* that serves it and the one stream to the game server that every such    *)
(* route of a held session shares (src/server.js, GET /api/bridge/events). *)
(*                                                                         *)
(* A listening and the stream run for it have one number, n.  A held       *)
(* session h is one selection of a character; a notice is its place in the *)
(* order the game server gave them out.                                    *)
(***************************************************************************)
EXTENDS Integers, SequencesExt

CONSTANTS MaxListens,  \* bound: how often the page listens
          MaxSockets,  \* bound: how many sockets its line has
          MaxHolds,    \* bound: how often a character is selected
          MaxNotices,  \* bound: notices of one held session
          History,     \* notices the game server can still replay
          MaxInFlight  \* bound: frames on their way to the page when another is published

ASSUME BoundsAssumption ==
  /\ MaxListens \in Nat \ {0} /\ MaxSockets \in Nat \ {0} /\ MaxHolds \in Nat \ {0}
  /\ MaxNotices \in Nat /\ History \in Nat /\ MaxInFlight \in Nat

Listens == 1..MaxListens
Sockets == 1..MaxSockets
Holds   == 1..MaxHolds

VARIABLES
  \* The page
  listener,  \* the line's listener: its number (0 for none) and whether its stream is attached
  listens,   \* listenings so far
  told,      \* what each listening was last told
  got,       \* the last notice the listener was given, -1 for none
  line,      \* "down", "connecting" or "open"
  sock,      \* the line's socket, the last one opened
  \* Between them
  toBff, toPage, cut,
  \* The BFF's sockets and the streams it runs for them
  serving,   \* whether each socket is served, and not yet closed
  events,    \* the stream attached to each socket, 0 for none
  of,        \* the socket each stream was run for, 0 before it is
  route,     \* how far each stream's route has come
  over,      \* streams whose listener has gone, or whose route has ended
  beat,      \* streams whose route keeps a heartbeat going
  \* The held sessions
  current,   \* the one the web session holds now, 0 for none
  holds,     \* how many there have been
  subs,      \* the streams subscribed to each
  gw,        \* each one's stream to the game server
  retry,     \* whether that stream is to be tried again
  cursor,    \* the last notice published, -1 for none
  \* The game server
  known, seq

pageVars  == <<listener, listens, told, got, line, sock>>
wireVars  == <<toBff, toPage, cut>>
bffVars   == <<serving, events, of, route, over, beat>>
heldVars  == <<current, holds, subs, gw, retry, cursor>>
gameVars  == <<known, seq>>
vars == <<pageVars, wireVars, bffVars, heldVars, gameVars>>

NoListener == [n |-> 0, open |-> FALSE]
Shut       == [st |-> "shut", snap |-> FALSE, at |-> 0]

Open(n)  == [k |-> "open", n |-> n]
Close    == [k |-> "close", n |-> 0]
Bye      == [k |-> "bye", n |-> 0]
Attached(n) == [k |-> "attached", n |-> n, what |-> "none", at |-> 0]
Ended(n)    == [k |-> "ended", n |-> n, what |-> "none", at |-> 0]
Event(n, what, at) == [k |-> "event", n |-> n, what |-> what, at |-> at]

Init ==
  /\ listener = NoListener /\ listens = 0 /\ got = -1
  /\ told = [n \in Listens |-> "none"]
  /\ line = "down" /\ sock = 0
  /\ toBff = [s \in Sockets |-> <<>>] /\ toPage = [s \in Sockets |-> <<>>]
  /\ cut = [s \in Sockets |-> FALSE]
  /\ serving = [s \in Sockets |-> FALSE]
  /\ events = [s \in Sockets |-> 0]
  /\ of = [n \in Listens |-> 0]
  /\ route = [n \in Listens |-> "none"]
  /\ over = [n \in Listens |-> FALSE]
  /\ beat = [n \in Listens |-> FALSE]
  /\ current = 0 /\ holds = 0
  /\ subs = [h \in Holds |-> {}]
  /\ gw = [h \in Holds |-> Shut]
  /\ retry = [h \in Holds |-> FALSE]
  /\ cursor = [h \in Holds |-> -1]
  /\ known = [h \in Holds |-> FALSE]
  /\ seq = [h \in Holds |-> 0]

(***************************************************************************)
(* The page                                                                *)
(***************************************************************************)

SendBff(s, frame) == toBff' = IF cut[s] THEN toBff ELSE [toBff EXCEPT ![s] = Append(@, frame)]

\* askForPushes(): where the socket throws, the listener is told at once.
AskForPushes(n) ==
  \/ /\ SendBff(sock, Open(n))
     /\ listener' = [n |-> n, open |-> FALSE]
     /\ told' = [told EXCEPT ![n] = "waiting"]
  \/ /\ listener' = NoListener
     /\ told' = [told EXCEPT ![n] = "unavailable"]
     /\ UNCHANGED toBff

\* listen(), which the page calls with no listener of its own left (startLiveStream
\* closes the last one first).
Listen ==
  LET n == listens + 1 IN
  /\ listener = NoListener /\ listens < MaxListens
  /\ listens' = n /\ got' = -1
  /\ \/ /\ line = "open"
        /\ AskForPushes(n)
        /\ UNCHANGED <<line, sock>>
     \/ /\ \/ line = "connecting" /\ UNCHANGED <<line, sock>>
           \/ line = "down" /\ sock < MaxSockets /\ line' = "connecting" /\ sock' = sock + 1
        /\ listener' = [n |-> n, open |-> FALSE]
        /\ told' = [told EXCEPT ![n] = "waiting"]
        /\ UNCHANGED toBff
     \/ /\ line = "down"
        /\ told' = [told EXCEPT ![n] = "unavailable"]
        /\ UNCHANGED <<listener, line, sock, toBff>>
  /\ UNCHANGED <<toPage, cut, bffVars, heldVars, gameVars>>

\* close() of a listening.
CloseListener ==
  /\ listener # NoListener
  /\ listener' = NoListener
  /\ told' = [told EXCEPT ![listener.n] = "closed"]
  /\ IF line = "open" THEN SendBff(sock, Close) ELSE UNCHANGED toBff
  /\ UNCHANGED <<listens, got, line, sock, toPage, cut, bffVars, heldVars, gameVars>>

\* The hello is answered: what was listened to before is asked for now.
HelloSaid ==
  /\ line = "connecting" /\ ~cut[sock]
  /\ line' = "open"
  /\ serving' = [serving EXCEPT ![sock] = TRUE]
  /\ IF listener # NoListener THEN AskForPushes(listener.n)
                              ELSE UNCHANGED <<listener, told, toBff>>
  /\ UNCHANGED <<listens, got, sock, toPage, cut, events, of, route, over, beat, heldVars, gameVars>>

\* down(): the socket could not be made, or is lost.
PageLoses ==
  /\ line = "connecting" \/ (line = "open" /\ cut[sock])
  /\ line' = "down"
  /\ cut' = [cut EXCEPT ![sock] = TRUE]
  /\ listener' = NoListener
  /\ told' = IF listener = NoListener THEN told ELSE [told EXCEPT ![listener.n] = "unavailable"]
  /\ UNCHANGED <<listens, got, sock, toBff, toPage, bffVars, heldVars, gameVars>>

\* letGo(): a logout, or the socket closed on purpose.  Its listener is told nothing.
LetGo ==
  /\ line = "open"
  /\ line' = "down"
  /\ listener' = NoListener
  /\ told' = IF listener = NoListener THEN told ELSE [told EXCEPT ![listener.n] = "closed"]
  /\ SendBff(sock, Bye)
  /\ UNCHANGED <<listens, got, sock, toPage, cut, bffVars, heldVars, gameVars>>

\* onmessage of the line's socket; a socket given up on is not listened to.
PageTakes(s) ==
  /\ toPage[s] # <<>>
  /\ toPage' = [toPage EXCEPT ![s] = Tail(@)]
  /\ LET f == Head(toPage[s])
         heard == s = sock /\ line = "open" /\ listener # NoListener
         mine  == heard /\ f.n = listener.n
     IN CASE f.k = "attached" /\ mine ->
               /\ listener' = [listener EXCEPT !.open = TRUE]
               /\ told' = [told EXCEPT ![f.n] = "open"]
               /\ UNCHANGED got
          [] f.k = "ended" /\ mine ->
               /\ listener' = NoListener
               /\ told' = [told EXCEPT ![f.n] = "ended"]
               /\ UNCHANGED got
          [] f.k = "event" /\ heard /\ listener.open /\ f.what # "status" ->
               got' = f.at /\ UNCHANGED <<listener, told>>
          [] OTHER -> UNCHANGED <<listener, told, got>>
  /\ UNCHANGED <<listens, line, sock, toBff, cut, bffVars, heldVars, gameVars>>

(***************************************************************************)
(* The BFF                                                                 *)
(***************************************************************************)

\* What stream n writes is handed on to the socket it was run for, until its
\* listener has gone or its route has ended, and said where that socket is open.
Say(written) ==
  toPage' = [s \in Sockets |->
    IF serving[s] /\ ~cut[s]
      THEN toPage[s] \o FlattenSeq([n \in Listens |-> IF of[n] = s /\ ~over[n] THEN written[n] ELSE <<>>])
      ELSE toPage[s]]

\* publishStreamFrame(): what it writes to each subscriber of h.
Published(h, evs) ==
  [n \in Listens |-> IF n \in subs[h] THEN [i \in DOMAIN evs |-> Event(n, evs[i].what, evs[i].at)] ELSE <<>>]

Status       == [what |-> "status", at |-> 0]
Snapshot(at) == [what |-> "snapshot", at |-> at]
Notice(at)   == [what |-> "notice", at |-> at]

OpeningFromNow(h) == [st |-> "opening", snap |-> FALSE, at |-> seq[h]]

\* openHeldStream(): one stream to the game server, from the cursor where the
\* game server can still replay from it and from a snapshot where it cannot.
Opening(h) ==
  IF cursor[h] >= 0 /\ seq[h] - cursor[h] <= History
    THEN [st |-> "opening", snap |-> FALSE, at |-> cursor[h]]
    ELSE [st |-> "opening", snap |-> TRUE, at |-> seq[h]]

OpenHeldStream(h) ==
  IF gw[h] # Shut THEN UNCHANGED <<gw, retry>>
  ELSE /\ gw' = [gw EXCEPT ![h] = Opening(h)]
       /\ retry' = [retry EXCEPT ![h] = FALSE]

LetBegunEventsGo(s) ==
  LET gone == {n \in Listens : events[s] = n /\ ~over[n] /\ route[n] = "streaming"}
      left == {h \in Holds : subs[h] \cap gone # {} /\ subs[h] \subseteq gone}
  IN /\ over' = [n \in Listens |-> over[n] \/ n \in gone]
     /\ beat' = [n \in Listens |-> beat[n] /\ n \notin gone]
     /\ subs' = [h \in Holds |-> subs[h] \ gone]
     /\ gw' = [h \in Holds |-> IF h \in left THEN Shut ELSE gw[h]]
     /\ retry' = [h \in Holds |-> IF h \in left THEN FALSE ELSE retry[h]]

\* letEventsGo(): the stream's request is told it has closed.  A route that has
\* begun lets go of its subscription, and of the stream to the game server when
\* it was the last; one that has not begun does not hear it.
LetEventsGo(s) ==
  LET gone == {n \in Listens : events[s] = n /\ ~over[n]}
      left == {h \in Holds : subs[h] \cap gone # {} /\ subs[h] \subseteq gone}
  IN /\ over' = [n \in Listens |-> over[n] \/ n \in gone]
     /\ beat' = [n \in Listens |-> beat[n] /\ n \notin gone]
     /\ subs' = [h \in Holds |-> subs[h] \ gone]
     /\ gw' = [h \in Holds |-> IF h \in left THEN Shut ELSE gw[h]]
     /\ retry' = [h \in Holds |-> IF h \in left THEN FALSE ELSE retry[h]]

\* attachEvents(): the stream attached before is let go.
AttachEvents(s, n) ==
  /\ LetEventsGo(s)
  /\ events' = [events EXCEPT ![s] = n]
  /\ of' = [of EXCEPT ![n] = s]
  /\ route' = [route EXCEPT ![n] = "auth"]
  /\ UNCHANGED serving

\* The socket's close takes its stream with it.
SocketCloses(s) ==
  /\ LetEventsGo(s)
  /\ events' = [events EXCEPT ![s] = 0]
  /\ serving' = [serving EXCEPT ![s] = FALSE]
  /\ UNCHANGED <<of, route>>

BffTakes(s) ==
  /\ serving[s] /\ toBff[s] # <<>>
  /\ toBff' = [toBff EXCEPT ![s] = Tail(@)]
  /\ LET f == Head(toBff[s]) IN
     \/ f.k = "open" /\ AttachEvents(s, f.n)
     \/ /\ f.k = "close"
        /\ LetEventsGo(s)
        /\ events' = [events EXCEPT ![s] = 0]
        /\ UNCHANGED <<of, route, serving>>
     \/ f.k = "bye" /\ SocketCloses(s)
  /\ UNCHANGED <<pageVars, toPage, cut, current, holds, cursor, gameVars>>

BffLoses(s) ==
  /\ serving[s] /\ cut[s]
  /\ SocketCloses(s)
  /\ UNCHANGED <<pageVars, wireVars, current, holds, cursor, gameVars>>

RouteRefusesSilently(n) ==
  /\ route[n] = "auth"
  /\ route' = [route EXCEPT ![n] = "ended"]
  /\ over' = [over EXCEPT ![n] = TRUE]
  /\ UNCHANGED <<pageVars, toPage, toBff, cut, serving, events, of, beat, heldVars, gameVars>>

\* The route answers and ends: refused, or nobody is held.
RouteRefuses(n) ==
  /\ route[n] = "auth"
  /\ route' = [route EXCEPT ![n] = "ended"]
  /\ over' = [over EXCEPT ![n] = TRUE]
  /\ Say([m \in Listens |-> IF m = n THEN <<Ended(n)>> ELSE <<>>])
  /\ UNCHANGED <<pageVars, toBff, cut, serving, events, of, beat, heldVars, gameVars>>

\* The account has been read and a character is held: the stream is subscribed
\* to it, and the stream to the game server opened where it is not.
RouteStreams(n) ==
  LET h == current IN
  /\ route[n] = "auth" /\ h # 0
  /\ route' = [route EXCEPT ![n] = "streaming"]
  /\ subs' = [subs EXCEPT ![h] = @ \cup {n}]
  /\ beat' = [beat EXCEPT ![n] = TRUE]
  /\ Say([Published(h, <<Status>>) EXCEPT ![n] = <<Attached(n), Event(n, "status", 0)>>])
  /\ OpenHeldStream(h)
  /\ UNCHANGED <<pageVars, toBff, cut, serving, events, of, over, current, holds, cursor, gameVars>>

(***************************************************************************)
(* The held session and its stream to the game server                      *)
(***************************************************************************)

Select ==
  /\ current = 0 /\ holds < MaxHolds
  /\ current' = holds + 1 /\ holds' = holds + 1
  /\ known' = [known EXCEPT ![holds + 1] = TRUE]
  /\ UNCHANGED <<pageVars, wireVars, bffVars, subs, gw, retry, cursor, seq>>

ForgetKeepingRetry ==
  LET h == current IN
  /\ h # 0
  /\ current' = 0
  /\ Say([n \in Listens |-> IF n \in subs[h] THEN <<Event(n, "status", 0), Ended(n)>> ELSE <<>>])
  /\ over' = [n \in Listens |-> over[n] \/ n \in subs[h]]
  /\ route' = [n \in Listens |-> IF n \in subs[h] THEN "ended" ELSE route[n]]
  /\ subs' = [subs EXCEPT ![h] = {}]
  /\ gw' = [gw EXCEPT ![h] = Shut]
  /\ UNCHANGED <<pageVars, toBff, cut, serving, events, of, beat, holds, cursor, retry, gameVars>>

\* forgetBridgeSession(): the subscribers are told it ended and their answers
\* are ended; the stream to the game server is closed.
Forget ==
  LET h == current IN
  /\ h # 0
  /\ current' = 0
  /\ Say([n \in Listens |-> IF n \in subs[h] THEN <<Event(n, "status", 0), Ended(n)>> ELSE <<>>])
  /\ over' = [n \in Listens |-> over[n] \/ n \in subs[h]]
  /\ route' = [n \in Listens |-> IF n \in subs[h] THEN "ended" ELSE route[n]]
  /\ subs' = [subs EXCEPT ![h] = {}]
  /\ gw' = [gw EXCEPT ![h] = Shut]
  /\ retry' = [retry EXCEPT ![h] = FALSE]
  /\ UNCHANGED <<pageVars, toBff, cut, serving, events, of, beat, holds, cursor, gameVars>>

\* The cursor of the last of these frames that carries one.
CursorAfter(h, evs) ==
  LET carrying == {i \in DOMAIN evs : evs[i].what # "status"} IN
  IF carrying = {} THEN cursor ELSE [cursor EXCEPT ![h] = evs[CHOOSE i \in carrying : \A j \in carrying : j <= i].at]

Room == \A s \in Sockets : Len(toPage[s]) < MaxInFlight

Publish(h, evs) ==
  /\ Say(Published(h, evs))
  /\ cursor' = CursorAfter(h, evs)

GwOpens(h) ==
  /\ gw[h].st = "opening" /\ known[h] /\ Room
  /\ gw' = [gw EXCEPT ![h].st = "live", ![h].snap = FALSE]
  /\ Publish(h, IF gw[h].snap THEN <<Status, Snapshot(gw[h].at)>> ELSE <<Status>>)
  /\ UNCHANGED <<pageVars, toBff, cut, bffVars, current, holds, subs, retry, gameVars>>

GwNotice(h) ==
  /\ gw[h].st = "live" /\ gw[h].at < seq[h] /\ Room
  /\ gw' = [gw EXCEPT ![h].at = @ + 1]
  /\ Publish(h, <<Notice(gw[h].at + 1)>>)
  /\ UNCHANGED <<pageVars, toBff, cut, bffVars, current, holds, subs, retry, gameVars>>

\* onClose: refused as unknown it is not tried again, dropped it is.
GwCloses(h, refused) ==
  /\ gw[h] # Shut /\ Room
  /\ refused => ~known[h]
  /\ gw' = [gw EXCEPT ![h] = Shut]
  /\ IF subs[h] = {} THEN UNCHANGED <<retry, toPage>>
     ELSE /\ Say(Published(h, <<Status>>))
          /\ retry' = [retry EXCEPT ![h] = ~refused]
  /\ UNCHANGED <<pageVars, toBff, cut, bffVars, current, holds, subs, cursor, gameVars>>

RetryForgetting(h) ==
  /\ retry[h]
  /\ retry' = [retry EXCEPT ![h] = FALSE]
  /\ UNCHANGED <<pageVars, wireVars, bffVars, current, holds, subs, gw, cursor, gameVars>>

Retry(h) ==
  /\ retry[h]
  /\ retry' = [retry EXCEPT ![h] = FALSE]
  /\ gw' = IF current = h /\ gw[h] = Shut /\ subs[h] # {} THEN [gw EXCEPT ![h] = Opening(h)] ELSE gw
  /\ UNCHANGED <<pageVars, wireVars, bffVars, current, holds, subs, cursor, gameVars>>

(***************************************************************************)
(* The game server and the network                                         *)
(***************************************************************************)

GivesOut(h) == /\ known[h] /\ seq[h] < MaxNotices
               /\ seq' = [seq EXCEPT ![h] = @ + 1]
               /\ UNCHANGED <<pageVars, wireVars, bffVars, heldVars, known>>

GameEnds(h) == /\ known[h]
               /\ known' = [known EXCEPT ![h] = FALSE]
               /\ UNCHANGED <<pageVars, wireVars, bffVars, heldVars, seq>>

Cut(s) == /\ serving[s] /\ ~cut[s]
          /\ cut' = [cut EXCEPT ![s] = TRUE]
          /\ UNCHANGED <<pageVars, toBff, toPage, bffVars, heldVars, gameVars>>

Next ==
  \/ Listen \/ CloseListener \/ HelloSaid \/ PageLoses \/ LetGo
  \/ \E s \in Sockets : PageTakes(s) \/ BffTakes(s) \/ BffLoses(s) \/ Cut(s)
  \/ \E n \in Listens : RouteRefuses(n) \/ RouteStreams(n)
  \/ Select \/ Forget
  \/ \E h \in Holds : \/ GwOpens(h) \/ GwNotice(h) \/ GwCloses(h, TRUE) \/ GwCloses(h, FALSE)
                      \/ Retry(h) \/ GivesOut(h) \/ GameEnds(h)

Spec == Init /\ [][Next]_vars

\* Sockets deliver or are found lost, the account is read, timers fire, and the
\* game server answers a stream asked of it.
Fairness ==
  /\ WF_vars(HelloSaid \/ PageLoses) /\ WF_vars(PageLoses /\ line = "open")
  /\ \A s \in Sockets : WF_vars(PageTakes(s)) /\ WF_vars(BffTakes(s)) /\ WF_vars(BffLoses(s))
  /\ \A n \in Listens : WF_vars(RouteRefuses(n) \/ RouteStreams(n))
  /\ \A h \in Holds : /\ WF_vars(Retry(h)) /\ WF_vars(GwNotice(h))
                      /\ WF_vars(GwOpens(h) \/ GwCloses(h, TRUE) \/ GwCloses(h, FALSE))

FairSpec == Spec /\ Fairness

(***************************************************************************)
(* Properties                                                              *)
(***************************************************************************)

ToBff  == [k : {"open", "close", "bye"}, n : 0..MaxListens]
ToPage == [k : {"attached", "ended", "event"}, n : Listens,
           what : {"none", "status", "snapshot", "notice"}, at : 0..MaxNotices]

\* Every variable holds what its place in the code can hold.
TypeOK ==
  /\ listener \in [n : 0..MaxListens, open : BOOLEAN] /\ listens \in 0..MaxListens
  /\ told \in [Listens -> {"none", "waiting", "open", "ended", "unavailable", "closed"}]
  /\ got \in -1..MaxNotices
  /\ line \in {"down", "connecting", "open"} /\ sock \in 0..MaxSockets
  /\ toBff \in [Sockets -> Seq(ToBff)] /\ toPage \in [Sockets -> Seq(ToPage)]
  /\ cut \in [Sockets -> BOOLEAN] /\ serving \in [Sockets -> BOOLEAN]
  /\ events \in [Sockets -> 0..MaxListens] /\ of \in [Listens -> 0..MaxSockets]
  /\ route \in [Listens -> {"none", "auth", "streaming", "ended"}]
  /\ over \in [Listens -> BOOLEAN] /\ beat \in [Listens -> BOOLEAN]
  /\ current \in 0..MaxHolds /\ holds \in 0..MaxHolds
  /\ subs \in [Holds -> SUBSET Listens]
  /\ gw \in [Holds -> [st : {"shut", "opening", "live"}, snap : BOOLEAN, at : 0..MaxNotices]]
  /\ retry \in [Holds -> BOOLEAN] /\ cursor \in [Holds -> -1..MaxNotices]
  /\ known \in [Holds -> BOOLEAN] /\ seq \in [Holds -> 0..MaxNotices]

\* A listener is given the frames of its own stream and of no other, though a
\* frame does not say whose it is (socketFetch.ts, the event branch of onmessage).
OwnFramesOnly ==
  listener.n # 0 /\ line = "open" =>
    \A i \in DOMAIN toPage[sock] :
      LET taken == listener.open \/ \E j \in 1..(i - 1) : toPage[sock][j] = Attached(listener.n)
      IN toPage[sock][i].k = "event" /\ taken => toPage[sock][i].n = listener.n

\* What a listener is given leaves no notice out and gives none twice, over
\* streams dropped and reopened, unless a snapshot says to read again.
NoNoticeMissed ==
  [][\A s \in Sockets :
       s = sock /\ line = "open" /\ listener.open /\ toPage[s] # <<>> /\ toPage'[s] = Tail(toPage[s])
         => LET f == Head(toPage[s]) IN f.k = "event" /\ f.what = "notice" => got \in {-1, f.at - 1}]_vars

\* A held session somebody watches has its stream, or a retry of it to come,
\* unless the game server no longer knows the session.
NeverWedged ==
  current # 0 /\ subs[current] # {} => gw[current] # Shut \/ retry[current] \/ ~known[current]

\* A session that was forgotten keeps no stream, no retry and no subscriber.
ForgottenHoldsNothing ==
  \A h \in Holds \ {current} : subs[h] = {} /\ gw[h] = Shut /\ ~retry[h]

\* Whoever listens is told: attached, ended, or not to be had.
EveryListenerTold == \A n \in Listens : told[n] = "waiting" ~> told[n] # "waiting"

=============================================================================
