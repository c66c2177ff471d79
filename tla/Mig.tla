-------------------------------- MODULE Mig --------------------------------
(* The remote procedure calls of recipes/crashpad_client/gen/util/mach, as  *)
(* the Mach interface generator has written them.  Every routine is an      *)
(* instance of one template: a stub in *User.c packs a request, sends it    *)
(* and checks the reply, a stub in *Server.c finds the routine and checks   *)
(* the request.  What differs from routine to routine is a row of numbers,  *)
(* in MigArm64 for the first copy of every file and in MigX8664 for the     *)
(* second; what the template does with a row is here.                       *)
(*                                                                          *)
(* A message keeps the fields that the stubs look at: sizes, counts and     *)
(* descriptors.  Counts are checked against their limits before any size is *)
(* computed from them, so no sum comes near 2^32.                           *)
EXTENDS Integers, Sequences

\* Bytes of the types of <mach/message.h> and <mach/ndr.h>, which are packed
\* to four bytes (__MigPackStructs).
Header == 24
Body == 4
Port == 12
NDR == 8
Word == 4
Wide == 8
Trailer == 8

\* Groups of fields that several structures share: the descriptors of one and
\* of two ports, and a flavor with its state of 1296 words.
OnePort == Body + Port
TwoPorts == Body + 2 * Port
ThreadState == 2 * Word + 1296 * Word

\* Values of MACH_MSG_TYPE_*: what a sender names and a receiver gets.
MOVE_RECEIVE == 16
MOVE_SEND == 17
MOVE_SEND_ONCE == 18
COPY_SEND == 19
MAKE_SEND == 20
MAKE_SEND_ONCE == 21
AnyRight == 0    \* child_port: the caller chooses, the server accepts any

\* The right that arrives for the one a sender has named.
Received(disposition) ==
    CASE disposition \in {COPY_SEND, MAKE_SEND} -> MOVE_SEND
      [] disposition = MAKE_SEND_ONCE -> MOVE_SEND_ONCE
      [] OTHER -> disposition

MACH_NOTIFY_SEND_ONCE == 71    \* octal 0107: a reply right was destroyed

\* mig_reply_error_t, the smallest reply.
ReplyError == Header + NDR + Word

\* __MachMsgErrorWithoutTimeout: the errors of mach_msg after which the stub
\* keeps its reply port, because nothing was sent.
PortKept_Always ==
    {"MACH_SEND_INVALID_DATA", "MACH_SEND_INVALID_DEST",
     "MACH_SEND_INVALID_HEADER", "MACH_RCV_BODY_ERROR"}

PortKept == {"MACH_SEND_INVALID_DATA", "MACH_SEND_INVALID_DEST",
             "MACH_SEND_INVALID_HEADER"}

-----------------------------------------------------------------------------
(* The tables.  The layout of a request, for a caller's stub and for a      *)
(* server's check:                                                          *)
(*   bytes    sizeof(Request), with the arrays at their limits              *)
(*   descs    port descriptors, all of one disposition                      *)
(*   arrays   the variable arrays at its end, "code" and "state"            *)
(*   cut      what sizeof(Request) loses if the arrays are empty            *)
(*   unit     bytes of a code                                               *)
(*   shift    bytes of the codes at their limit, by which what follows them *)
(*            moves when there are fewer                                    *)
(*   codes, states  the limits of the counts                                *)
Fixed(bytes, descs, disposition) ==
    [bytes |-> bytes, descs |-> descs, disposition |-> disposition,
     arrays |-> {}, cut |-> 0, unit |-> Word, shift |-> 0,
     codes |-> 0, states |-> 0]

\* A caller's stub: its message id, the request, the buffer for the reply and
\* its limit of new_state.
Caller(id, layout, buffer, news) ==
    [id |-> id, layout |-> layout, oneway |-> FALSE, buffer |-> buffer,
     news |-> news]

\* A SimpleRoutine, which waits for no reply.
OneWay(id, layout) ==
    [id |-> id, layout |-> layout, oneway |-> TRUE, buffer |-> 0, news |-> 0]

\* The check of a reply: its id, sizeof(__Reply), what that loses without
\* new_state, and the limit of new_stateCnt.
Expect(id, bytes, cut, news) ==
    [id |-> id, bytes |-> bytes, cut |-> cut, news |-> news]

\* A routine of a server: sizeof(Reply), its cut, and the new_stateCnt that
\* the handler is offered.
Routine(bytes, cut, room) == [bytes |-> bytes, cut |-> cut, room |-> room]

Largest(sizes) == CHOOSE m \in sizes : \A n \in sizes : n =< m

\* A subsystem: the ids of its first and last routine, the stubs in between
\* ("none" for a null entry), and maxsize, the size of the union of replies.
Subsystem(first, last, stub, replies) ==
    [first |-> first, last |-> last, stub |-> stub,
     maxsize |-> Largest({replies[r] : r \in DOMAIN replies})]

-----------------------------------------------------------------------------
(* The caller's stub.                                                       *)
TooLarge(u, codes, states) ==
    \/ "code" \in u.layout.arrays /\ codes > u.layout.codes
    \/ "state" \in u.layout.arrays /\ states > u.layout.states

\* How far the state has moved: the codes are packed tight before it.
Moved(l, codes) == IF "state" \in l.arrays THEN l.unit * codes - l.shift ELSE 0

Bytes_Whole(l, codes, states) == l.bytes

Bytes(l, codes, states) ==
    l.bytes - l.cut + (IF "code" \in l.arrays THEN l.unit * codes ELSE 0)
                    + (IF "state" \in l.arrays THEN Word * states ELSE 0)

\* The request as the kernel delivers it; disposition is the caller's choice
\* where the row leaves it open.
Pack(u, codes, states, disposition) ==
    [id |-> u.id, size |-> Bytes(u.layout, codes, states),
     descs |-> u.layout.descs,
     disposition |-> Received(IF u.layout.disposition = AnyRight
                              THEN disposition ELSE u.layout.disposition),
     codes |-> codes, states |-> states, at |-> Moved(u.layout, codes)]

-----------------------------------------------------------------------------
(* The server's stubs.                                                      *)
Least(l) == l.bytes - l.cut

\* Complex bit, descriptor count and size.
WellSized(l, m) ==
    /\ m.descs = l.descs
    /\ m.size >= Least(l) /\ m.size =< l.bytes

RightType(l, m) ==
    l.descs > 0 /\ l.disposition # AnyRight => m.disposition = l.disposition

CodesFit(l, m) ==
    "code" \in l.arrays =>
        /\ m.codes =< l.codes
        /\ (m.size - Least(l)) \div l.unit >= m.codes
        /\ IF "state" \in l.arrays
           THEN m.size >= Least(l) + l.unit * m.codes
           ELSE m.size = Least(l) + l.unit * m.codes

\* The count is found only if both sides have moved it to the same place.
StatesFit(l, m) ==
    "state" \in l.arrays =>
        LET rest == m.size - l.unit * m.codes IN
        /\ m.at = Moved(l, m.codes)
        /\ m.states =< l.states
        /\ (rest - Least(l)) \div Word >= m.states
        /\ rest = Least(l) + Word * m.states

\* __MIG_check__Request__*
CheckRequest(l, m) ==
    IF ~WellSized(l, m) THEN "MIG_BAD_ARGUMENTS"
    ELSE IF ~RightType(l, m) THEN "MIG_TYPE_ERROR"
    ELSE IF CodesFit(l, m) /\ StatesFit(l, m) THEN "KERN_SUCCESS"
    ELSE "MIG_BAD_ARGUMENTS"

\* *_server: the stub for a message id.
Dispatch(s, id) ==
    IF id \in s.first .. s.last THEN s.stub[id - s.first + 1] ELSE "none"

ReplyId(id) == id + 100

\* MIG_RETURN_ERROR, and the preset size of *_server.
ErrorReply(id, ret) ==
    [id |-> ReplyId(id), size |-> ReplyError, ret |-> ret, news |-> 0]

\* The reply of a routine that has succeeded with n words of new_state.
GoodReply(id, x, n) ==
    [id |-> ReplyId(id), size |-> x.bytes - x.cut + Word * n,
     ret |-> "KERN_SUCCESS", news |-> n]

\* What the kernel sends to a reply port whose right was destroyed unused.
DeadReply ==
    [id |-> MACH_NOTIFY_SEND_ONCE, size |-> Header, ret |-> "none", news |-> 0]

-----------------------------------------------------------------------------
(* The caller's stub again.                                                 *)
SizeExpected(e, r) ==
    \/ r.size =< e.bytes /\ r.size >= e.bytes - e.cut
    \/ r.size = ReplyError /\ (e.cut > 0 => r.ret # "KERN_SUCCESS")

NewsFit(e, r) ==
    e.cut > 0 =>
        /\ r.news =< e.news
        /\ (r.size - (e.bytes - e.cut)) \div Word >= r.news
        /\ r.size = e.bytes - e.cut + Word * r.news

\* __MIG_check__Reply__*; no reply of these routines is complex.
CheckReply(e, r) ==
    IF r.id # e.id
    THEN IF r.id = MACH_NOTIFY_SEND_ONCE
         THEN "MIG_SERVER_DIED" ELSE "MIG_REPLY_MISMATCH"
    ELSE IF ~SizeExpected(e, r) THEN "MIG_TYPE_ERROR"
    ELSE IF r.ret # "KERN_SUCCESS" THEN r.ret
    ELSE IF ~NewsFit(e, r) THEN "MIG_TYPE_ERROR"
    ELSE "KERN_SUCCESS"

\* What the stub returns: it looks at the count once more before it copies.
Result(u, e, r) ==
    IF CheckReply(e, r) = "KERN_SUCCESS" /\ r.news > u.news
    THEN "MIG_ARRAY_TOO_LARGE" ELSE CheckReply(e, r)
=============================================================================
