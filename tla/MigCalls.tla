------------------------------ MODULE MigCalls ------------------------------
(* Threads that call the routines of gen/util/mach, and one server that     *)
(* serves one of the four subsystems.  The process of a thread and that of  *)
(* the server may be of different architectures.  The kernel and the        *)
(* server's loop around *_server are not in src/: mach_msg sends and        *)
(* receives in one call and may fail at either, a port that loses its       *)
(* receiver destroys what is queued in it, and a reply right that is        *)
(* destroyed unused notifies the port it belongs to.                        *)
(*                                                                          *)
(* A stub of the server is either the one in *Server.c, which aborts when   *)
(* the request is good, or one of the program that uses only its check.     *)
EXTENDS Mig, FiniteSets

A == INSTANCE MigArm64
X == INSTANCE MigX8664

CONSTANTS
    Client,         \* the threads that call
    MaxCalls,       \* bound on the calls of a thread
    CodeCounts,     \* the counts of codes a caller may ask for
    StateCounts,    \* the counts of state words, sent and returned
    Rights          \* the rights a caller of child_port_check_in may name

ASSUME CountsAssumption == CodeCounts \subseteq Nat /\ StateCounts \subseteq Nat
ASSUME CallsAssumption == MaxCalls \in Nat
ASSUME RightsAssumption == Rights \subseteq MOVE_RECEIVE .. MAKE_SEND_ONCE

Arch == {"arm64", "x86_64"}
Callers(a) == IF a = "arm64" THEN A!Callers ELSE X!Callers
ReplyChecks(a) == IF a = "arm64" THEN A!ReplyChecks ELSE X!ReplyChecks
RequestChecks(a) == IF a = "arm64" THEN A!RequestChecks ELSE X!RequestChecks
Stubs(a) == IF a = "arm64" THEN A!Stubs ELSE X!Stubs
Subsystems(a) == IF a = "arm64" THEN A!Subsystems ELSE X!Subsystems

Served == DOMAIN A!Subsystems
Called == DOMAIN A!Callers

VARIABLES
    home,       \* the architecture of a thread's process
    serverHome, \* that of the server
    served,     \* the subsystem it serves
    up,         \* the server still has the receive right of its port
    waiting,    \* the thread is inside mach_msg
    serial,     \* the calls it has made, the last one included
    asked,      \* the routine of its last call
    replyPort,  \* the reply port it has: how many it has given up before
    inbox,      \* the messages queued in that reply port
    outcome,    \* what its last call has returned
    queue,      \* the requests queued in the server's port
    busy,       \* the request that the server is at, or none
    executed    \* the calls that a handler has carried out

vars == <<home, serverHome, served, up, waiting, serial, asked, replyPort,
          inbox, outcome, queue, busy, executed>>
serverVars == <<up, queue, busy, executed>>
fixed == <<home, serverHome, served>>

Idle == [stage |-> "none"]
None == [ret |-> "none", serial |-> 0]

Init ==
    /\ home \in [Client -> Arch]
    /\ serverHome \in Arch
    /\ served \in Served
    /\ up = TRUE
    /\ waiting = [c \in Client |-> FALSE]
    /\ serial = [c \in Client |-> 0]
    /\ asked = [c \in Client |-> "exception_raise"]
    /\ replyPort = [c \in Client |-> 0]
    /\ inbox = [c \in Client |-> {}]
    /\ outcome = [c \in Client |-> None]
    /\ queue = {}
    /\ busy = Idle
    /\ executed = {}

\* The requests that the server has not yet answered.
Pending == queue \cup ({busy} \ {Idle})

-----------------------------------------------------------------------------
(* The caller.                                                              *)
Stub(c, r) == Callers(home[c])[r]

ResultOf(c, r) == Result(Stub(c, asked[c]), ReplyChecks(home[c])[asked[c]], r)

Returns(c, ret, of) == outcome' = [outcome EXCEPT ![c] = [ret |-> ret, serial |-> of]]

\* mig_dealloc_reply_port: what is queued there, or comes there later, is lost.
GiveUpPort(c) ==
    /\ replyPort' = [replyPort EXCEPT ![c] = @ + 1]
    /\ inbox' = [inbox EXCEPT ![c] = {}]

\* What the stub does to its reply port when mach_msg has failed.
AfterError(c, error) ==
    IF error \in PortKept THEN UNCHANGED <<replyPort, inbox>> ELSE GiveUpPort(c)

\* The thread enters the stub of routine r.
Enter(c, r) ==
    /\ ~waiting[c]
    /\ serial[c] < MaxCalls
    /\ serial' = [serial EXCEPT ![c] = @ + 1]
    /\ asked' = [asked EXCEPT ![c] = r]

\* Counts that the arrays of the routine cannot hold; no port is taken.
RefuseArguments(c, r, codes, states) ==
    /\ Enter(c, r)
    /\ TooLarge(Stub(c, r), codes, states)
    /\ Returns(c, "MIG_ARRAY_TOO_LARGE", serial[c] + 1)
    /\ UNCHANGED <<fixed, serverVars, waiting, replyPort, inbox>>

\* The server's port is dead, or the message cannot be sent for another reason.
\* A SimpleRoutine has no reply port to care for.
SendErrors == {"MACH_SEND_INVALID_DATA", "MACH_SEND_NO_BUFFER"}

SendFails(c, r, error) ==
    /\ Enter(c, r)
    /\ error = "MACH_SEND_INVALID_DEST" <=> ~up
    /\ IF Stub(c, r).oneway THEN UNCHANGED <<replyPort, inbox>> ELSE AfterError(c, error)
    /\ Returns(c, error, serial[c] + 1)
    /\ UNCHANGED <<fixed, serverVars, waiting>>

Request(c, r, codes, states, right) ==
    [client |-> c, serial |-> serial[c] + 1, port |-> replyPort[c], routine |-> r,
     oneway |-> Stub(c, r).oneway, stage |-> "sent",
     message |-> Pack(Stub(c, r), codes, states, right)]

Send(c, r, codes, states, right) ==
    /\ Enter(c, r)
    /\ up
    /\ ~TooLarge(Stub(c, r), codes, states)
    /\ queue' = queue \cup {Request(c, r, codes, states, right)}
    /\ waiting' = [waiting EXCEPT ![c] = ~Stub(c, r).oneway]
    /\ IF Stub(c, r).oneway
       THEN Returns(c, "KERN_SUCCESS", serial[c] + 1)
       ELSE UNCHANGED outcome
    /\ UNCHANGED <<fixed, up, busy, executed, replyPort, inbox>>

\* The receive fails; the reply may come later.
ReceiveFails_StillWaiting(c) ==
    /\ waiting[c]
    /\ AfterError(c, "MACH_RCV_BODY_ERROR")
    /\ Returns(c, "MACH_RCV_BODY_ERROR", serial[c])
    /\ UNCHANGED <<fixed, serverVars, waiting, serial, asked>>

ReceiveFails_SendsAgain(c) ==
    /\ waiting[c] /\ up
    /\ \E q \in Pending :
        /\ q.client = c /\ q.serial = serial[c]
        /\ queue' = queue \cup {[q EXCEPT !.stage = "sent"]}
    /\ UNCHANGED <<fixed, up, busy, executed, waiting, serial, asked, replyPort, inbox,
                   outcome>>

ReceiveFails(c) ==
    /\ waiting[c]
    /\ AfterError(c, "MACH_RCV_BODY_ERROR")
    /\ Returns(c, "MACH_RCV_BODY_ERROR", serial[c])
    /\ waiting' = [waiting EXCEPT ![c] = FALSE]
    /\ UNCHANGED <<fixed, serverVars, serial, asked>>

\* A reply is there.  If the buffer holds it, it is checked and the reply port
\* is kept for the next call.
Receive(c) ==
    /\ waiting[c]
    /\ \E m \in inbox[c] :
        IF m.message.size + Trailer > Stub(c, asked[c]).buffer
        THEN /\ AfterError(c, "MACH_RCV_TOO_LARGE")
             /\ Returns(c, "MACH_RCV_TOO_LARGE", serial[c])
        ELSE /\ inbox' = [inbox EXCEPT ![c] = @ \ {m}]
             /\ Returns(c, ResultOf(c, m.message), m.serial)
             /\ UNCHANGED replyPort
    /\ waiting' = [waiting EXCEPT ![c] = FALSE]
    /\ UNCHANGED <<fixed, serverVars, serial, asked>>

-----------------------------------------------------------------------------
(* The server.                                                              *)
\* The answer to requests qs, as it arrives in the reply port of c: each request
\* carries one reply right, and what goes to a port given up is lost.
Arrivals(c, qs, message) ==
    {[serial |-> q.serial, message |-> message] :
        q \in {p \in qs : p.client = c /\ p.port = replyPort[c] /\ ~p.oneway}}

Reply(qs, message) ==
    inbox' = [c \in Client |-> inbox[c] \cup Arrivals(c, qs, message)]

\* The receive right and every reply right the server holds are destroyed.
GoesDown ==
    /\ up' = FALSE
    /\ Reply(Pending, DeadReply)
    /\ queue' = {}
    /\ busy' = Idle

Take(q) ==
    /\ busy = Idle
    /\ q \in queue
    /\ queue' = queue \ {q}
    /\ busy' = [q EXCEPT !.stage = "taken"]
    /\ UNCHANGED <<fixed, up, executed, inbox>>

Stage(s) == busy # Idle /\ busy.stage = s

StubOf(q) == Dispatch(Subsystems(serverHome)[served], q.message.id)

\* What *_server and the stub's check say of the request.
Verdict(q) ==
    IF StubOf(q) = "none" THEN "MIG_BAD_ID"
    ELSE CheckRequest(RequestChecks(serverHome)[StubOf(q)], q.message)

Reject_Silent ==
    /\ Stage("taken")
    /\ Verdict(busy) # "KERN_SUCCESS"
    /\ busy' = Idle
    /\ UNCHANGED <<fixed, up, queue, executed, inbox>>

Reject ==
    /\ Stage("taken")
    /\ Verdict(busy) # "KERN_SUCCESS"
    /\ Reply({busy}, ErrorReply(busy.message.id, Verdict(busy)))
    /\ busy' = Idle
    /\ UNCHANGED <<fixed, up, queue, executed>>

\* _X*: the stub in *Server.c has no handler behind it and aborts.
Abort ==
    /\ Stage("taken")
    /\ Verdict(busy) = "KERN_SUCCESS"
    /\ GoesDown
    /\ UNCHANGED <<fixed, executed>>

\* The program's own handler carries the call out ...
Handle ==
    /\ Stage("taken")
    /\ Verdict(busy) = "KERN_SUCCESS"
    /\ executed' = executed \cup {<<busy.client, busy.serial>>}
    /\ busy' = [busy EXCEPT !.stage = "handled"]
    /\ UNCHANGED <<fixed, up, queue, inbox>>

\* ... and answers with an error or with n words of state.
Answer(n) ==
    LET x == Stubs(serverHome)[StubOf(busy)]
    IN /\ Stage("handled")
       /\ n =< x.room
       /\ \/ Reply({busy}, GoodReply(busy.message.id, x, n))
          \/ Reply({busy}, ErrorReply(busy.message.id, "KERN_FAILURE"))
       /\ busy' = Idle
       /\ UNCHANGED <<fixed, up, queue, executed>>

Die == up /\ GoesDown /\ UNCHANGED <<fixed, executed>>

callerVars == <<waiting, serial, asked, replyPort, outcome>>

-----------------------------------------------------------------------------
Codes(u) == IF "code" \in u.layout.arrays THEN CodeCounts ELSE {0}
States(u) == IF "state" \in u.layout.arrays THEN StateCounts ELSE {0}
Choices(u) == IF u.layout.disposition = AnyRight /\ u.layout.descs > 0
              THEN Rights ELSE {AnyRight}

Call(c) ==
    \E r \in Called :
        \/ \E codes \in Codes(Stub(c, r)), states \in States(Stub(c, r)) :
            \/ RefuseArguments(c, r, codes, states)
            \/ \E right \in Choices(Stub(c, r)) : Send(c, r, codes, states, right)
        \/ \E error \in SendErrors \cup {"MACH_SEND_INVALID_DEST"} : SendFails(c, r, error)

Serve ==
    \/ \E q \in queue : Take(q)
    \/ Reject
    \/ Abort
    \/ Handle
    \/ \E n \in StateCounts \cup {0} : Answer(n)

Server == (Serve \/ Die) /\ UNCHANGED callerVars

Next == Server \/ \E c \in Client : Call(c) \/ Receive(c) \/ ReceiveFails(c)

Spec == Init /\ [][Next]_vars
FairSpec ==
    /\ Spec
    /\ WF_vars(Serve /\ UNCHANGED callerVars)
    /\ \A c \in Client : WF_vars(Receive(c))

-----------------------------------------------------------------------------
(* Properties.                                                              *)
Packets == [id : Nat, size : Nat, descs : Nat, disposition : Nat,
            codes : Nat, states : Nat, at : Int]
RetCodes == {"none", "KERN_SUCCESS", "KERN_FAILURE", "MIG_BAD_ID",
             "MIG_BAD_ARGUMENTS", "MIG_TYPE_ERROR"}
Outcomes == RetCodes \cup SendErrors \cup
            {"MACH_SEND_INVALID_DEST", "MACH_RCV_BODY_ERROR", "MACH_RCV_TOO_LARGE",
             "MIG_ARRAY_TOO_LARGE", "MIG_SERVER_DIED", "MIG_REPLY_MISMATCH"}
Answers == [id : Nat, size : Nat, ret : RetCodes, news : Nat]
Requests(stages) ==
    [client : Client, serial : 1 .. MaxCalls, port : 0 .. MaxCalls,
     routine : Called, oneway : BOOLEAN, stage : stages, message : Packets]

TypeOK ==
    /\ home \in [Client -> Arch] /\ serverHome \in Arch /\ served \in Served
    /\ up \in BOOLEAN
    /\ waiting \in [Client -> BOOLEAN]
    /\ serial \in [Client -> 0 .. MaxCalls]
    /\ asked \in [Client -> Called]
    /\ replyPort \in [Client -> 0 .. MaxCalls]
    /\ inbox \in [Client -> SUBSET [serial : 1 .. MaxCalls, message : Answers]]
    /\ outcome \in [Client -> [ret : Outcomes, serial : 0 .. MaxCalls]]
    /\ queue \subseteq Requests({"sent"})
    /\ busy \in {Idle} \cup Requests({"taken", "handled"})
    /\ executed \subseteq Client \X (1 .. MaxCalls)

UserTypes(a) == IF a = "arm64" THEN A!UserTypes ELSE X!UserTypes
ServerTypes(a) == IF a = "arm64" THEN A!ServerTypes ELSE X!ServerTypes
Typed(types, q) == q.message.size =< types[served].requests[q.routine]

\* The two halves of a routine are generated apart, each with sizes and limits
\* of its own, and once for every architecture.  Whatever a caller's stub
\* sends, the server that has the routine finds the right one and accepts it,
\* the types in the headers ("maximum message sizes") hold it, and a server
\* that does not have it finds none.  Whatever is answered fits the server's
\* and the caller's buffer, and is never taken for a malformed reply.
StubsAgree ==
    /\ \A q \in Pending :
        IF q.routine \in DOMAIN ServerTypes(serverHome)[served].requests
        THEN /\ StubOf(q) = q.routine
             /\ Verdict(q) = "KERN_SUCCESS"
             /\ Typed(UserTypes(home[q.client]), q)
             /\ Typed(ServerTypes(serverHome), q)
        ELSE StubOf(q) = "none"
    /\ \A c \in Client : waiting[c] =>
        \A m \in inbox[c] :
            /\ m.message.size =< Subsystems(serverHome)[served].maxsize
            /\ m.message.size + Trailer =< Stub(c, asked[c]).buffer
            /\ ResultOf(c, m.message) \notin
                   {"MIG_TYPE_ERROR", "MIG_REPLY_MISMATCH", "MIG_ARRAY_TOO_LARGE"}

\* What a call returns was said of this very call, and if a routine with a
\* reply succeeds a handler has carried it out.  A reply that comes after the
\* stub has given up waiting must not answer the thread's next call, which
\* would take it: a reply carries the routine's number and not the call's.
OwnAnswer ==
    \A c \in Client : ~waiting[c] =>
        /\ outcome[c].serial = serial[c]
        /\ outcome[c].ret = "KERN_SUCCESS" /\ ~Stub(c, asked[c]).oneway
               => <<c, serial[c]>> \in executed

\* RemoteCall as the threads see it: a call is under way while it is queued or the
\* server has not begun to carry it out.
CallOf(q) == <<q.client, q.serial>>
Underway == {CallOf(q) : q \in {p \in Pending : p.stage # "handled"}}

Standing(c) ==
    IF waiting[c] THEN "waiting"
    ELSE CASE outcome[c].ret = "none" -> "none"
           [] outcome[c].ret = "KERN_SUCCESS" ->
                  IF Stub(c, asked[c]).oneway THEN "sent" ELSE "success"
           [] OTHER -> "error"

Remote == INSTANCE RemoteCall
     WITH made <- serial, answer <- [c \in Client |-> Standing(c)],
          underway <- Underway, carried <- executed

\* The stubs, the reply ports and the server's loop together are a remote call:
\* whatever is rejected, late, given up or lost with the server, no call is
\* carried out twice, and a call that succeeds has been carried out itself.
CallsAreRemote == Remote!Spec

\* No stub waits with a timeout: a call ends because the server answers it,
\* rejects it or dies with it, wherever the request was when that happened.
CallEnds == \A c \in Client : waiting[c] ~> ~waiting[c]
=============================================================================
