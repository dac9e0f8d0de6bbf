----------------------------- MODULE PilotSocket -----------------------------
(***************************************************************************)
(* One token's socket between a browser tab and the BFF, with the way back *)
(* over HTTP.  The page's end is createSocketFetch (web/src/app/           *)
(* socketFetch.ts), the BFF's end is serve in attachPilotSocket            *)
(* (src/pilotSocket.js).  A request is one call of the page's fetch; what  *)
(* its route does is abstracted to "it was run", counted in runs.          *)
(*                                                                         *)
(* Each direction of a connection is a FIFO queue; either end may learn of *)
(* a lost connection at any later time, with frames still unread lost.     *)
(* Clocks are abstracted: line.due says the retry time has passed,         *)
(* line.idle that nothing was asked on the line for idleMs.                *)
(***************************************************************************)
EXTENDS Naturals, Sequences, FiniteSets

CONSTANTS Requests,    \* calls of the page's fetch that can be carried
          Logouts,     \* those of them that log the session out
          MaxSockets,  \* bound: how many sockets the page opens for the token
          MaxRunning,  \* operations of one socket at work at once
          MaxWaiting,  \* operations of one socket waiting their turn
          WarmUp       \* requests a token makes over HTTP before it has a socket

ASSUME BoundsAssumption ==
  /\ Logouts \subseteq Requests
  /\ MaxSockets \in Nat /\ WarmUp \in Nat
  /\ MaxRunning \in Nat \ {0} /\ MaxWaiting \in Nat

VARIABLES
  \* The page
  line,      \* the token's Line, NoLine where it has none
  asked,     \* requests counted towards a socket
  queued,    \* asked while connecting, not sent yet
  sent,      \* the id each request was sent under while unanswered, else 0
  call,      \* where the promise of each request stands
  pageEnd,   \* the browser's WebSocket
  \* The BFF
  bffEnd,    \* "hello" until the token is said, then "ready"
  running,   \* operations at work on each socket
  turns,     \* operations waiting their turn on each socket
  tokenKnown,\* whether verify() takes the token for a web session's
  runs,      \* how often each request's route was started
  \* Between them
  toBff, toPage, cut,
  wire       \* requests fetched over HTTP that the BFF has not begun

pageVars == <<line, asked, queued, sent, call, pageEnd>>
bffVars  == <<bffEnd, running, turns, tokenKnown>>
vars == <<pageVars, bffVars, runs, toBff, toPage, cut, wire>>

Sockets == 1..MaxSockets

NoLine == [state |-> "none", sock |-> 0, refused |-> FALSE,
           due |-> FALSE, idle |-> FALSE, nextID |-> 0]

Op(id, r)        == [k |-> "op", id |-> id, req |-> r]
Reply(id, r, ok) == [k |-> "reply", id |-> id, req |-> r, ok |-> ok]
Error(id, r)     == [k |-> "error", id |-> id, req |-> r]
Hello            == [k |-> "hello"]
Bye(code)        == [k |-> "close", code |-> code]

Entry(id, r) == [id |-> id, req |-> r]

InSeq(x, q) == \E i \in DOMAIN q : q[i] = x

\* The sequence with its i-th element taken out.
Without(q, i) == [j \in 1..(Len(q) - 1) |-> IF j < i THEN q[j] ELSE q[j + 1]]

Settled == {"answered", "failed", "aborted"}

Init ==
  /\ line = NoLine /\ asked = 0 /\ queued = <<>>
  /\ sent = [r \in Requests |-> 0]
  /\ call = [r \in Requests |-> "unasked"]
  /\ pageEnd = [s \in Sockets |-> "unused"]
  /\ bffEnd  = [s \in Sockets |-> "none"]
  /\ running = [s \in Sockets |-> <<>>]
  /\ turns   = [s \in Sockets |-> <<>>]
  /\ tokenKnown \in BOOLEAN
  /\ runs    = [r \in Requests |-> 0]
  /\ toBff   = [s \in Sockets |-> <<>>]
  /\ toPage  = [s \in Sockets |-> <<>>]
  /\ cut     = [s \in Sockets |-> FALSE]
  /\ wire    = {}

(***************************************************************************)
(* The page's end                                                          *)
(***************************************************************************)

\* What is put on a connection that is lost goes nowhere.
OnWire(chan, s, frames) == IF cut[s] THEN chan ELSE [chan EXCEPT ![s] = @ \o frames]

\* overHttp: the request leaves the socket for good.
OverHttp(rs) == /\ wire' = wire \cup rs
                /\ call' = [r \in Requests |-> IF r \in rs THEN "http" ELSE call[r]]

\* The id the next request is sent under: never one this line has used.
FirstIDByOutstanding(l) == Cardinality({r \in Requests : sent[r] # 0}) + 1
FirstID(l) == l.nextID + 1

\* send() for each of rs in order.  Where the socket throws, nothing is put on
\* it and each goes over HTTP; its id is spent either way.
Send(l, rs, throws) ==
  LET s == l.sock IN
  /\ line' = [l EXCEPT !.nextID = @ + Len(rs)]
  /\ \/ /\ throws /\ rs # <<>>
        /\ OverHttp({rs[i] : i \in DOMAIN rs})
        /\ UNCHANGED <<sent, toBff>>
     \/ /\ ~throws
        /\ sent' = [r \in Requests |->
                      IF InSeq(r, rs) THEN FirstID(l) + (CHOOSE i \in DOMAIN rs : rs[i] = r) - 1 ELSE sent[r]]
        /\ toBff' = OnWire(toBff, s, [i \in DOMAIN rs |-> Op(FirstID(l) + i - 1, rs[i])])
        /\ call' = [r \in Requests |-> IF InSeq(r, rs) THEN "waiting" ELSE call[r]]
        /\ UNCHANGED wire

DownRetryingSent(refused) ==
  LET lost == {r \in Requests : InSeq(r, queued) \/ sent[r] # 0} IN
  /\ line' = [line EXCEPT !.state = "down", !.sock = 0, !.refused = refused, !.due = FALSE]
  /\ queued' = <<>>
  /\ sent' = [r \in Requests |-> 0]
  /\ OverHttp(lost)

DownDroppingQueued(refused) ==
  /\ line' = [line EXCEPT !.state = "down", !.sock = 0, !.refused = refused, !.due = FALSE]
  /\ queued' = <<>>
  /\ sent' = [r \in Requests |-> 0]
  /\ call' = [r \in Requests |-> IF sent[r] # 0 THEN "failed" ELSE call[r]]
  /\ UNCHANGED wire

\* down(): what was never sent is fetched, what was sent and not answered fails.
Down(refused) ==
  LET unsent == {r \in Requests : InSeq(r, queued)} IN
  /\ line' = [line EXCEPT !.state = "down", !.sock = 0, !.refused = refused, !.due = FALSE]
  /\ queued' = <<>>
  /\ sent' = [r \in Requests |-> 0]
  /\ wire' = wire \cup unsent
  /\ call' = [r \in Requests |-> IF r \in unsent THEN "http"
                                 ELSE IF sent[r] # 0 THEN "failed" ELSE call[r]]

\* letGo(): down() for a line that is not, then nothing is kept of it.
LetGo(answered) ==
  /\ line' = NoLine
  /\ queued' = <<>>
  /\ sent' = [r \in Requests |-> 0]
  /\ wire' = wire \cup {r \in Requests : InSeq(r, queued)}
  /\ call' = [r \in Requests |-> IF r \in answered THEN "answered"
                                 ELSE IF InSeq(r, queued) THEN "http"
                                 ELSE IF sent[r] # 0 THEN "failed" ELSE call[r]]
  /\ IF line.sock = 0 THEN UNCHANGED <<pageEnd, toBff>>
     ELSE /\ pageEnd' = [pageEnd EXCEPT ![line.sock] = "closed"]
          /\ toBff' = OnWire(toBff, line.sock, <<Bye(1000)>>)

\* A token's first requests are fetched, and counted.
AskWarm(r) ==
  /\ call[r] = "unasked"
  /\ line.state = "none" /\ asked < WarmUp
  /\ asked' = asked + 1
  /\ OverHttp({r})
  /\ UNCHANGED <<line, queued, sent, pageEnd, bffVars, runs, toBff, toPage, cut>>

MayConnect == \/ line.state = "none" /\ asked = WarmUp
              \/ line.state = "down" /\ ~line.refused /\ line.due

\* connect(): a socket is opened and the request waits for it; where none can
\* be opened the line is down and the request is fetched.
AskConnect(r) ==
  /\ call[r] = "unasked"
  /\ MayConnect
  /\ asked' = 0
  /\ \/ \E s \in Sockets :
          /\ pageEnd[s] = "unused"
          /\ \A t \in Sockets : pageEnd[t] = "unused" => s <= t
          /\ pageEnd' = [pageEnd EXCEPT ![s] = "opening"]
          /\ line' = [line EXCEPT !.state = "connecting", !.sock = s, !.idle = FALSE]
          /\ queued' = Append(queued, r)
          /\ call' = [call EXCEPT ![r] = "waiting"]
          /\ UNCHANGED wire
     \/ /\ line' = [line EXCEPT !.state = "down", !.due = FALSE,
                                !.idle = IF line.state = "none" THEN FALSE ELSE @]
        /\ OverHttp({r})
        /\ UNCHANGED <<queued, pageEnd>>
  /\ UNCHANGED <<sent, bffVars, runs, toBff, toPage, cut>>

AskDown(r) ==
  /\ call[r] = "unasked"
  /\ line.state = "down" /\ ~MayConnect
  /\ OverHttp({r})
  /\ UNCHANGED <<line, asked, queued, sent, pageEnd, bffVars, runs, toBff, toPage, cut>>

AskQueued(r) ==
  /\ call[r] = "unasked"
  /\ line.state = "connecting"
  /\ line' = [line EXCEPT !.idle = FALSE]
  /\ queued' = Append(queued, r)
  /\ call' = [call EXCEPT ![r] = "waiting"]
  /\ UNCHANGED <<asked, sent, pageEnd, bffVars, runs, toBff, toPage, cut, wire>>

AskSent(r) ==
  /\ call[r] = "unasked"
  /\ line.state = "open"
  /\ \E throws \in BOOLEAN : Send([line EXCEPT !.idle = FALSE], <<r>>, throws)
  /\ UNCHANGED <<asked, queued, pageEnd, bffVars, runs, toPage, cut>>

\* Given up on by the asker, whichever way it went; what is already on a wire
\* may still be run.
Abort(r) ==
  /\ call[r] \in {"waiting", "http"}
  /\ call' = [call EXCEPT ![r] = "aborted"]
  /\ queued' = IF InSeq(r, queued)
                 THEN Without(queued, CHOOSE i \in DOMAIN queued : queued[i] = r) ELSE queued
  /\ sent' = [sent EXCEPT ![r] = 0]
  /\ UNCHANGED <<line, asked, pageEnd, bffVars, runs, toBff, toPage, cut, wire>>

\* onopen: the hello is said on the socket the line has.
Opened(s) ==
  /\ pageEnd[s] = "opening" /\ bffEnd[s] # "none" /\ ~cut[s]
  /\ pageEnd' = [pageEnd EXCEPT ![s] = "open"]
  /\ toBff' = IF line.sock = s THEN OnWire(toBff, s, <<Hello>>) ELSE toBff
  /\ UNCHANGED <<line, asked, queued, sent, call, bffVars, runs, toPage, cut, wire>>

\* onclose, with the code the BFF gave or none.
Closed(s, code) ==
  /\ pageEnd' = [pageEnd EXCEPT ![s] = "closed"]
  /\ IF line.sock = s
       THEN Down(line.state # "open" /\ code = 4401)
       ELSE UNCHANGED <<line, queued, sent, call, wire>>

TakeHelloSaid(s) ==
  /\ \E throws \in BOOLEAN : Send([line EXCEPT !.state = "open"], queued, throws)
  /\ queued' = <<>>
  /\ UNCHANGED pageEnd

TakeReply(f) ==
  \E r \in Requests :
    /\ sent[r] = f.id
    /\ IF r \in Logouts /\ f.ok THEN LetGo({r})
       ELSE /\ sent' = [sent EXCEPT ![r] = 0]
            /\ call' = [call EXCEPT ![r] = "answered"]
            /\ UNCHANGED <<line, queued, pageEnd, toBff, wire>>

TakeError(f) ==
  \E r \in Requests :
    /\ sent[r] = f.id
    /\ sent' = [sent EXCEPT ![r] = 0]
    /\ OverHttp({r})
    /\ UNCHANGED <<line, queued, pageEnd, toBff>>

\* onmessage, or onclose where the BFF closed: the next thing the socket says.
\* A socket the line has given up on is not listened to.
PageTakes(s) ==
  /\ pageEnd[s] = "open" /\ toPage[s] # <<>>
  /\ LET f == Head(toPage[s])
         mine == line.sock = s
         asker == f.k \in {"reply", "error"} /\ \E r \in Requests : sent[r] = f.id
     IN \/ f.k = "close" /\ Closed(s, f.code) /\ UNCHANGED toBff
        \/ f.k = "hello" /\ mine /\ TakeHelloSaid(s)
        \/ f.k = "reply" /\ mine /\ asker /\ TakeReply(f)
        \/ f.k = "error" /\ mine /\ asker /\ TakeError(f)
        \/ /\ f.k # "close" /\ (~mine \/ (f.k # "hello" /\ ~asker))
           /\ UNCHANGED <<line, queued, sent, call, pageEnd, toBff, wire>>
  /\ toPage' = [toPage EXCEPT ![s] = Tail(@)]
  /\ UNCHANGED <<asked, bffVars, runs, cut>>

\* The browser finds the connection lost, or could not make one.
PageLoses(s) ==
  /\ pageEnd[s] \in {"opening", "open"}
  /\ cut[s] \/ bffEnd[s] = "none"
  /\ Closed(s, 1006)
  /\ cut' = [cut EXCEPT ![s] = TRUE]
  /\ UNCHANGED <<asked, bffVars, runs, toBff, toPage>>

RetryDue == /\ line.state = "down" /\ ~line.due
            /\ line' = [line EXCEPT !.due = TRUE]
            /\ UNCHANGED <<asked, queued, sent, call, pageEnd, bffVars, runs, toBff, toPage, cut, wire>>

IdleElapses == /\ line.state # "none" /\ ~line.idle
               /\ line' = [line EXCEPT !.idle = TRUE]
               /\ UNCHANGED <<asked, queued, sent, call, pageEnd, bffVars, runs, toBff, toPage, cut, wire>>

\* sweep(), at a request of another token's: a line idle with nothing waiting goes.
Sweep ==
  /\ line.idle /\ queued = <<>> /\ \A r \in Requests : sent[r] = 0
  /\ LetGo({})
  /\ UNCHANGED <<asked, bffVars, runs, toPage, cut>>

(***************************************************************************)
(* The BFF's end                                                           *)
(***************************************************************************)

\* say(): only on a socket that is open.
Say(s, frame) == IF bffEnd[s] = "closed" THEN toPage ELSE OnWire(toPage, s, <<frame>>)

\* onUpgrade: the connection is taken and served.
Accept(s) ==
  /\ pageEnd[s] # "unused" /\ bffEnd[s] = "none" /\ ~cut[s]
  /\ bffEnd' = [bffEnd EXCEPT ![s] = "hello"]
  /\ UNCHANGED <<pageVars, running, turns, tokenKnown, runs, toBff, toPage, cut, wire>>

\* A socket that says nothing for helloWaitMs is closed.
HelloTimeout(s) ==
  /\ bffEnd[s] = "hello"
  /\ bffEnd' = [bffEnd EXCEPT ![s] = "closed"]
  /\ toPage' = Say(s, Bye(4400))
  /\ UNCHANGED <<pageVars, running, turns, tokenKnown, runs, toBff, cut, wire>>

\* run(): the route is started.
Start(s, e) ==
  /\ running' = [running EXCEPT ![s] = Append(@, e)]
  /\ runs' = [runs EXCEPT ![e.req] = @ + 1]

TakeHello(s) ==
  /\ bffEnd[s] = "hello"
  /\ bffEnd' = [bffEnd EXCEPT ![s] = IF tokenKnown THEN "ready" ELSE "closed"]
  /\ toPage' = Say(s, IF tokenKnown THEN Hello ELSE Bye(4401))
  /\ UNCHANGED <<running, turns, runs>>

FreeOffByOne(s) == Len(running[s]) <= MaxRunning
Free(s) == Len(running[s]) < MaxRunning

TakeOperation(s, f) ==
  /\ bffEnd[s] = "ready"
  /\ LET e == Entry(f.id, f.req) IN
     \/ /\ Free(s)
        /\ Start(s, e)
        /\ UNCHANGED <<turns, toPage>>
     \/ /\ ~Free(s) /\ Len(turns[s]) < MaxWaiting
        /\ turns' = [turns EXCEPT ![s] = Append(@, e)]
        /\ UNCHANGED <<running, runs, toPage>>
     \/ /\ ~Free(s) /\ Len(turns[s]) >= MaxWaiting
        /\ toPage' = Say(s, Error(f.id, f.req))
        /\ UNCHANGED <<running, turns, runs>>
  /\ UNCHANGED bffEnd

\* The socket's close at the BFF: what waited its turn is not run; what is at
\* work goes on, and its reply has nowhere to go.
BffCloses(s) ==
  /\ bffEnd' = [bffEnd EXCEPT ![s] = "closed"]
  /\ turns' = [turns EXCEPT ![s] = <<>>]
  /\ UNCHANGED <<running, runs, toPage>>

\* on("message"), or on("close") where the page closed.
BffTakes(s) ==
  /\ bffEnd[s] \in {"hello", "ready"} /\ toBff[s] # <<>>
  /\ LET f == Head(toBff[s]) IN
     \/ f.k = "hello" /\ TakeHello(s)
     \/ f.k = "op" /\ TakeOperation(s, f)
     \/ f.k = "close" /\ BffCloses(s)
  /\ toBff' = [toBff EXCEPT ![s] = Tail(@)]
  /\ UNCHANGED <<pageVars, tokenKnown, cut, wire>>

BffLoses(s) ==
  /\ cut[s] /\ bffEnd[s] \in {"hello", "ready"}
  /\ BffCloses(s)
  /\ UNCHANGED <<pageVars, tokenKnown, toBff, cut, wire>>

\* The turn that comes next, and the turns after it.
TakeTurn(q)   == [next |-> Head(q), rest |-> Tail(q)]

\* The i-th of a socket's operations at work is answered (ok where its status
\* is below 400): the reply is said, and the next in turn is started.
Finish(s, i) ==
  /\ LET e == running[s][i] IN \E ok \in BOOLEAN : toPage' = Say(s, Reply(e.id, e.req, ok))
  /\ IF turns[s] = <<>>
       THEN /\ running' = [running EXCEPT ![s] = Without(@, i)]
            /\ UNCHANGED <<turns, runs>>
       ELSE LET turn == TakeTurn(turns[s]) IN
            /\ running' = [running EXCEPT ![s] = Append(Without(@, i), turn.next)]
            /\ runs' = [runs EXCEPT ![turn.next.req] = @ + 1]
            /\ turns' = [turns EXCEPT ![s] = turn.rest]
  /\ UNCHANGED <<pageVars, bffEnd, tokenKnown, toBff, cut, wire>>

TokenExpires == /\ tokenKnown /\ tokenKnown' = FALSE
                /\ UNCHANGED <<pageVars, bffEnd, running, turns, runs, toBff, toPage, cut, wire>>

(***************************************************************************)
(* HTTP and the network                                                    *)
(***************************************************************************)

HttpRun(r) ==
  /\ r \in wire
  /\ wire' = wire \ {r}
  /\ runs' = [runs EXCEPT ![r] = @ + 1]
  /\ UNCHANGED <<pageVars, bffVars, toBff, toPage, cut>>

HttpAnswer(r) ==
  /\ call[r] = "http" /\ r \notin wire
  /\ call' = [call EXCEPT ![r] = "answered"]
  /\ UNCHANGED <<line, asked, queued, sent, pageEnd, bffVars, runs, toBff, toPage, cut, wire>>

\* The fetch fails, before or after the BFF has begun the request.
HttpFail(r) ==
  /\ call[r] = "http"
  /\ call' = [call EXCEPT ![r] = "failed"]
  /\ wire' = wire \ {r}
  /\ UNCHANGED <<line, asked, queued, sent, pageEnd, bffVars, runs, toBff, toPage, cut>>

Cut(s) == /\ bffEnd[s] \in {"hello", "ready"} /\ ~cut[s]
          /\ cut' = [cut EXCEPT ![s] = TRUE]
          /\ UNCHANGED <<pageVars, bffVars, runs, toBff, toPage, wire>>

Ask(r) == AskWarm(r) \/ AskConnect(r) \/ AskDown(r) \/ AskQueued(r) \/ AskSent(r)

Page == \/ \E r \in Requests : Ask(r) \/ Abort(r)
        \/ \E s \in Sockets : Opened(s) \/ PageTakes(s) \/ PageLoses(s)
        \/ RetryDue \/ IdleElapses \/ Sweep

Bff == \/ \E s \in Sockets : \/ Accept(s) \/ HelloTimeout(s) \/ BffTakes(s) \/ BffLoses(s)
                             \/ \E i \in DOMAIN running[s] : Finish(s, i)
       \/ TokenExpires

Network == \/ \E r \in Requests : HttpRun(r) \/ HttpAnswer(r) \/ HttpFail(r)
           \/ \E s \in Sockets : Cut(s)

Next == Page \/ Bff \/ Network

Spec == Init /\ [][Next]_vars

\* What the runtimes do of themselves: an event that has come is handled, a
\* route answers or fails, a fetch ends, a lost connection is noticed.
Fairness ==
  /\ \A s \in Sockets :
       /\ WF_vars(Accept(s) \/ PageLoses(s)) /\ WF_vars(Opened(s) \/ PageLoses(s))
       /\ WF_vars(PageTakes(s)) /\ WF_vars(PageLoses(s) /\ cut[s])
       /\ WF_vars(BffTakes(s)) /\ WF_vars(BffLoses(s)) /\ WF_vars(HelloTimeout(s))
       /\ \A r \in Requests : WF_vars(\E i \in DOMAIN running[s] : running[s][i].req = r /\ Finish(s, i))
  /\ \A r \in Requests : WF_vars(HttpRun(r) \/ HttpFail(r)) /\ WF_vars(HttpAnswer(r) \/ HttpFail(r))

FairSpec == Spec /\ Fairness

(***************************************************************************)
(* Properties                                                              *)
(***************************************************************************)

Frames == [k : {"hello"}] \cup [k : {"op"}, id : Nat, req : Requests]
            \cup [k : {"reply"}, id : Nat, req : Requests, ok : BOOLEAN]
            \cup [k : {"error"}, id : Nat, req : Requests]
            \cup [k : {"close"}, code : Nat]

Entries == [id : Nat, req : Requests]

Lines == [state : {"none", "connecting", "open", "down"}, sock : 0..MaxSockets,
          refused : BOOLEAN, due : BOOLEAN, idle : BOOLEAN, nextID : Nat]

Channels == [Sockets -> Seq(Frames)]

Calls == {"unasked", "waiting", "http"} \cup Settled

PageOK ==
  /\ line \in Lines
  /\ asked \in 0..WarmUp
  /\ queued \in Seq(Requests)
  /\ sent \in [Requests -> Nat]
  /\ call \in [Requests -> Calls]
  /\ pageEnd \in [Sockets -> {"unused", "opening", "open", "closed"}]

BffOK ==
  /\ bffEnd \in [Sockets -> {"none", "hello", "ready", "closed"}]
  /\ running \in [Sockets -> Seq(Entries)]
  /\ turns \in [Sockets -> Seq(Entries)]
  /\ tokenKnown \in BOOLEAN
  /\ runs \in [Requests -> Nat]

NetworkOK ==
  /\ toBff \in Channels /\ toPage \in Channels
  /\ cut \in [Sockets -> BOOLEAN]
  /\ wire \subseteq Requests

\* Every variable holds what its place in the code can hold.
TypeOK == PageOK /\ BffOK /\ NetworkOK

\* An answer taken as a request's is the answer of that request's own route,
\* and the request had been run when it was said.
OwnAnswer ==
  \A s \in Sockets : \A i \in DOMAIN toPage[s] :
    LET f == toPage[s][i] IN
    f.k = "reply" /\ line.sock = s =>
      /\ runs[f.req] = 1
      /\ \A r \in Requests : sent[r] = f.id => r = f.req

\* A socket's operations are bounded, and none waits while there is room for it.
OperationsBounded ==
  \A s \in Sockets :
    /\ Len(running[s]) <= MaxRunning
    /\ Len(turns[s]) <= MaxWaiting
    /\ turns[s] # <<>> => Len(running[s]) = MaxRunning /\ bffEnd[s] = "ready"

\* What the asker of each request has been told.
Told == [r \in Requests |-> IF call[r] \in {"waiting", "http"} THEN "asked" ELSE call[r]]

Once == INSTANCE RequestOnce WITH told <- Told

\* The two ends keep the promise of one fetch: each step runs a request never run before,
\* tells outcomes nobody had yet, or is not seen by the asker.  A request is not asked
\* again over HTTP once it was sent, and one given up on stays given up on
\* (socketFetch.ts, WHAT IS NOT KNOWN IS NOT RETRIED).
CarriedOnce == Once!Spec

\* Whoever asked is told: an answer, a failure, or their own giving up.
EverySettles == \A r \in Requests : call[r] \in {"waiting", "http"} ~> call[r] \in Settled

=============================================================================
