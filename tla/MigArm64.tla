------------------------------ MODULE MigArm64 -------------------------------
(* The rows of the routines of gen/util/mach: the first copy of every file, *)
(* which is the one compiled for arm64.  A size is written as the sum of    *)
(* the fields of its structure, a cut or a shift as the number that stands  *)
(* in the arithmetic of the stub: that they agree is what is to be shown.   *)
EXTENDS Mig

-----------------------------------------------------------------------------
(* exc: the caller's side (exc.h, excUser.c).                               *)
exc_requests ==
    [exception_raise |-> Header + TwoPorts + NDR + 2 * Word + 2 * Word,
     exception_raise_state |-> Header + NDR + 2 * Word + 2 * Word + ThreadState,
     exception_raise_state_identity |-> Header + TwoPorts + NDR + 2 * Word + 2 * Word + ThreadState]

exc_replies ==
    [exception_raise |-> Header + NDR + Word,
     exception_raise_state |-> Header + NDR + Word + ThreadState,
     exception_raise_state_identity |-> Header + NDR + Word + ThreadState]

exception_raise ==
    Caller(2401,
        [bytes |-> Header + TwoPorts + NDR + 2 * Word + 2 * Word,
         descs |-> 2, disposition |-> COPY_SEND, arrays |-> {"code"},
         cut |-> 8, unit |-> 4, shift |-> 0, codes |-> 2, states |-> 0],
        Header + NDR + Word + Trailer, 0)

Reply_exception_raise == Expect(2501, exc_replies.exception_raise, 0, 0)

exception_raise_state ==
    Caller(2402,
        [bytes |-> Header + NDR + 2 * Word + 2 * Word + ThreadState,
         descs |-> 0, disposition |-> 0, arrays |-> {"code", "state"},
         cut |-> 5192, unit |-> 4, shift |-> 8, codes |-> 2, states |-> 1296],
        Header + NDR + Word + ThreadState + Trailer, 1296)

Reply_exception_raise_state ==
    Expect(2502, exc_replies.exception_raise_state, 5184, 1296)

exception_raise_state_identity ==
    Caller(2403,
        [bytes |-> Header + TwoPorts + NDR + 2 * Word + 2 * Word + ThreadState,
         descs |-> 2, disposition |-> COPY_SEND, arrays |-> {"code", "state"},
         cut |-> 5192, unit |-> 4, shift |-> 8, codes |-> 2, states |-> 1296],
        Header + NDR + Word + ThreadState + Trailer, 1296)

Reply_exception_raise_state_identity ==
    Expect(2503, exc_replies.exception_raise_state_identity, 5184, 1296)

-----------------------------------------------------------------------------
(* exc: the server's side (excServer.h, excServer.c).                       *)
catch_exc_requests ==
    [exception_raise |-> Header + TwoPorts + NDR + 2 * Word + 2 * Word,
     exception_raise_state |-> Header + NDR + 2 * Word + 2 * Word + ThreadState,
     exception_raise_state_identity |-> Header + TwoPorts + NDR + 2 * Word + 2 * Word + ThreadState]

catch_exc_replies ==
    [exception_raise |-> Header + NDR + Word,
     exception_raise_state |-> Header + NDR + Word + ThreadState,
     exception_raise_state_identity |-> Header + NDR + Word + ThreadState]

Request_exception_raise ==
    [bytes |-> catch_exc_requests.exception_raise,
     descs |-> 2, disposition |-> MOVE_SEND, arrays |-> {"code"},
     cut |-> 8, unit |-> 4, shift |-> 0, codes |-> 2, states |-> 0]

Xexception_raise == Routine(catch_exc_replies.exception_raise, 0, 0)

Request_exception_raise_state ==
    [bytes |-> catch_exc_requests.exception_raise_state,
     descs |-> 0, disposition |-> 0, arrays |-> {"code", "state"},
     cut |-> 5192, unit |-> 4, shift |-> 8, codes |-> 2, states |-> 1296]

Xexception_raise_state ==
    Routine(catch_exc_replies.exception_raise_state, 5184, 1296)

Request_exception_raise_state_identity ==
    [bytes |-> catch_exc_requests.exception_raise_state_identity,
     descs |-> 2, disposition |-> MOVE_SEND, arrays |-> {"code", "state"},
     cut |-> 5192, unit |-> 4, shift |-> 8, codes |-> 2, states |-> 1296]

Xexception_raise_state_identity ==
    Routine(catch_exc_replies.exception_raise_state_identity, 5184, 1296)

catch_exc_subsystem ==
    Subsystem(2401, 2403,
    <<"exception_raise",
      "exception_raise_state",
      "exception_raise_state_identity">>,
    catch_exc_replies)

-----------------------------------------------------------------------------
(* mach_exc: the caller's side (mach_exc.h, mach_excUser.c).                *)
mach_exc_requests ==
    [mach_exception_raise |-> Header + TwoPorts + NDR + 2 * Word + 2 * Wide,
     mach_exception_raise_state |-> Header + NDR + 2 * Word + 2 * Wide + ThreadState,
     mach_exception_raise_state_identity |-> Header + TwoPorts + NDR + 2 * Word + 2 * Wide + ThreadState]

mach_exc_replies ==
    [mach_exception_raise |-> Header + NDR + Word,
     mach_exception_raise_state |-> Header + NDR + Word + ThreadState,
     mach_exception_raise_state_identity |-> Header + NDR + Word + ThreadState]

mach_exception_raise ==
    Caller(2405,
        [bytes |-> Header + TwoPorts + NDR + 2 * Word + 2 * Wide,
         descs |-> 2, disposition |-> COPY_SEND, arrays |-> {"code"},
         cut |-> 16, unit |-> 8, shift |-> 0, codes |-> 2, states |-> 0],
        Header + NDR + Word + Trailer, 0)

Reply_mach_exception_raise ==
    Expect(2505, mach_exc_replies.mach_exception_raise, 0, 0)

mach_exception_raise_state ==
    Caller(2406,
        [bytes |-> Header + NDR + 2 * Word + 2 * Wide + ThreadState,
         descs |-> 0, disposition |-> 0, arrays |-> {"code", "state"},
         cut |-> 5200, unit |-> 8, shift |-> 16, codes |-> 2, states |-> 1296],
        Header + NDR + Word + ThreadState + Trailer, 1296)

Reply_mach_exception_raise_state ==
    Expect(2506, mach_exc_replies.mach_exception_raise_state, 5184, 1296)

mach_exception_raise_state_identity ==
    Caller(2407,
        [bytes |-> Header + TwoPorts + NDR + 2 * Word + 2 * Wide + ThreadState,
         descs |-> 2, disposition |-> COPY_SEND, arrays |-> {"code", "state"},
         cut |-> 5200, unit |-> 8, shift |-> 16, codes |-> 2, states |-> 1296],
        Header + NDR + Word + ThreadState + Trailer, 1296)

Reply_mach_exception_raise_state_identity ==
    Expect(2507, mach_exc_replies.mach_exception_raise_state_identity, 5184, 1296)

-----------------------------------------------------------------------------
(* mach_exc: the server's side (mach_excServer.h, mach_excServer.c).        *)
catch_mach_exc_requests ==
    [mach_exception_raise |-> Header + TwoPorts + NDR + 2 * Word + 2 * Wide,
     mach_exception_raise_state |-> Header + NDR + 2 * Word + 2 * Wide + ThreadState,
     mach_exception_raise_state_identity |-> Header + TwoPorts + NDR + 2 * Word + 2 * Wide + ThreadState]

catch_mach_exc_replies ==
    [mach_exception_raise |-> Header + NDR + Word,
     mach_exception_raise_state |-> Header + NDR + Word + ThreadState,
     mach_exception_raise_state_identity |-> Header + NDR + Word + ThreadState]

Request_mach_exception_raise ==
    [bytes |-> catch_mach_exc_requests.mach_exception_raise,
     descs |-> 2, disposition |-> MOVE_SEND, arrays |-> {"code"},
     cut |-> 16, unit |-> 8, shift |-> 0, codes |-> 2, states |-> 0]

Xmach_exception_raise ==
    Routine(catch_mach_exc_replies.mach_exception_raise, 0, 0)

Request_mach_exception_raise_state ==
    [bytes |-> catch_mach_exc_requests.mach_exception_raise_state,
     descs |-> 0, disposition |-> 0, arrays |-> {"code", "state"},
     cut |-> 5200, unit |-> 8, shift |-> 16, codes |-> 2, states |-> 1296]

Xmach_exception_raise_state ==
    Routine(catch_mach_exc_replies.mach_exception_raise_state, 5184, 1296)

Request_mach_exception_raise_state_identity ==
    [bytes |-> catch_mach_exc_requests.mach_exception_raise_state_identity,
     descs |-> 2, disposition |-> MOVE_SEND, arrays |-> {"code", "state"},
     cut |-> 5200, unit |-> 8, shift |-> 16, codes |-> 2, states |-> 1296]

Xmach_exception_raise_state_identity ==
    Routine(catch_mach_exc_replies.mach_exception_raise_state_identity, 5184, 1296)

catch_mach_exc_subsystem ==
    Subsystem(2405, 2410,
    <<"mach_exception_raise",
      "mach_exception_raise_state",
      "mach_exception_raise_state_identity",
      "none",
      "none",
      "none">>,
    catch_mach_exc_replies)

-----------------------------------------------------------------------------
(* notify: the caller's side (notify.h, notifyUser.c).                      *)
notify_requests ==
    [mach_notify_port_deleted |-> Header + NDR + Word,
     mach_notify_port_destroyed |-> Header + OnePort,
     mach_notify_no_senders |-> Header + NDR + Word,
     mach_notify_send_once |-> Header,
     mach_notify_dead_name |-> Header + NDR + Word]

notify_replies ==
    [mach_notify_port_deleted |-> Header + NDR + Word,
     mach_notify_port_destroyed |-> Header + NDR + Word,
     mach_notify_no_senders |-> Header + NDR + Word,
     mach_notify_send_once |-> Header + NDR + Word,
     mach_notify_dead_name |-> Header + NDR + Word]

mach_notify_port_deleted == OneWay(65, Fixed(Header + NDR + Word, 0, 0))

mach_notify_port_destroyed ==
    OneWay(69, Fixed(Header + OnePort, 1, MOVE_RECEIVE))

mach_notify_no_senders == OneWay(70, Fixed(Header + NDR + Word, 0, 0))

mach_notify_send_once == OneWay(71, Fixed(Header, 0, 0))

mach_notify_dead_name == OneWay(72, Fixed(Header + NDR + Word, 0, 0))

-----------------------------------------------------------------------------
(* notify: the server's side (notifyServer.h, notifyServer.c).              *)
do_notify_requests ==
    [mach_notify_port_deleted |-> Header + NDR + Word,
     mach_notify_port_destroyed |-> Header + OnePort,
     mach_notify_no_senders |-> Header + NDR + Word,
     mach_notify_send_once |-> Header,
     mach_notify_dead_name |-> Header + NDR + Word]

do_notify_replies ==
    [mach_notify_port_deleted |-> Header + NDR + Word,
     mach_notify_port_destroyed |-> Header + NDR + Word,
     mach_notify_no_senders |-> Header + NDR + Word,
     mach_notify_send_once |-> Header + NDR + Word,
     mach_notify_dead_name |-> Header + NDR + Word]

Request_mach_notify_port_deleted ==
    Fixed(do_notify_requests.mach_notify_port_deleted, 0, 0)

Xmach_notify_port_deleted ==
    Routine(do_notify_replies.mach_notify_port_deleted, 0, 0)

Request_mach_notify_port_destroyed ==
    Fixed(do_notify_requests.mach_notify_port_destroyed, 1, MOVE_RECEIVE)

Xmach_notify_port_destroyed ==
    Routine(do_notify_replies.mach_notify_port_destroyed, 0, 0)

Request_mach_notify_no_senders ==
    Fixed(do_notify_requests.mach_notify_no_senders, 0, 0)

Xmach_notify_no_senders ==
    Routine(do_notify_replies.mach_notify_no_senders, 0, 0)

Request_mach_notify_send_once ==
    Fixed(do_notify_requests.mach_notify_send_once, 0, 0)

Xmach_notify_send_once ==
    Routine(do_notify_replies.mach_notify_send_once, 0, 0)

Request_mach_notify_dead_name ==
    Fixed(do_notify_requests.mach_notify_dead_name, 0, 0)

Xmach_notify_dead_name ==
    Routine(do_notify_replies.mach_notify_dead_name, 0, 0)

do_notify_subsystem ==
    Subsystem(64, 72,
    <<"none",
      "mach_notify_port_deleted",
      "none",
      "none",
      "none",
      "mach_notify_port_destroyed",
      "mach_notify_no_senders",
      "mach_notify_send_once",
      "mach_notify_dead_name">>,
    do_notify_replies)

-----------------------------------------------------------------------------
(* child_port: the caller's side (child_port.h, child_portUser.c).          *)
child_port_requests ==
    [child_port_check_in |-> Header + OnePort + NDR + Wide]

child_port_replies == [child_port_check_in |-> Header + NDR + Word]

child_port_check_in ==
    OneWay(10011, Fixed(Header + OnePort + NDR + Wide, 1, AnyRight))

-----------------------------------------------------------------------------
(* child_port: the server's side (child_portServer.h, child_portServer.c).  *)
handle_child_port_requests ==
    [child_port_check_in |-> Header + OnePort + NDR + Wide]

handle_child_port_replies == [child_port_check_in |-> Header + NDR + Word]

Request_child_port_check_in ==
    Fixed(handle_child_port_requests.child_port_check_in, 1, AnyRight)

Xchild_port_check_in ==
    Routine(handle_child_port_replies.child_port_check_in, 0, 0)

handle_child_port_subsystem ==
    Subsystem(10011, 10011,
    <<"child_port_check_in">>,
    handle_child_port_replies)

-----------------------------------------------------------------------------
(* The same as tables, by the name of the routine.                          *)
Callers ==
    [exception_raise |-> exception_raise,
     exception_raise_state |-> exception_raise_state,
     exception_raise_state_identity |-> exception_raise_state_identity,
     mach_exception_raise |-> mach_exception_raise,
     mach_exception_raise_state |-> mach_exception_raise_state,
     mach_exception_raise_state_identity |-> mach_exception_raise_state_identity,
     mach_notify_port_deleted |-> mach_notify_port_deleted,
     mach_notify_port_destroyed |-> mach_notify_port_destroyed,
     mach_notify_no_senders |-> mach_notify_no_senders,
     mach_notify_send_once |-> mach_notify_send_once,
     mach_notify_dead_name |-> mach_notify_dead_name,
     child_port_check_in |-> child_port_check_in]

ReplyChecks ==
    [exception_raise |-> Reply_exception_raise,
     exception_raise_state |-> Reply_exception_raise_state,
     exception_raise_state_identity |-> Reply_exception_raise_state_identity,
     mach_exception_raise |-> Reply_mach_exception_raise,
     mach_exception_raise_state |-> Reply_mach_exception_raise_state,
     mach_exception_raise_state_identity |-> Reply_mach_exception_raise_state_identity]

RequestChecks ==
    [exception_raise |-> Request_exception_raise,
     exception_raise_state |-> Request_exception_raise_state,
     exception_raise_state_identity |-> Request_exception_raise_state_identity,
     mach_exception_raise |-> Request_mach_exception_raise,
     mach_exception_raise_state |-> Request_mach_exception_raise_state,
     mach_exception_raise_state_identity |-> Request_mach_exception_raise_state_identity,
     mach_notify_port_deleted |-> Request_mach_notify_port_deleted,
     mach_notify_port_destroyed |-> Request_mach_notify_port_destroyed,
     mach_notify_no_senders |-> Request_mach_notify_no_senders,
     mach_notify_send_once |-> Request_mach_notify_send_once,
     mach_notify_dead_name |-> Request_mach_notify_dead_name,
     child_port_check_in |-> Request_child_port_check_in]

Stubs ==
    [exception_raise |-> Xexception_raise,
     exception_raise_state |-> Xexception_raise_state,
     exception_raise_state_identity |-> Xexception_raise_state_identity,
     mach_exception_raise |-> Xmach_exception_raise,
     mach_exception_raise_state |-> Xmach_exception_raise_state,
     mach_exception_raise_state_identity |-> Xmach_exception_raise_state_identity,
     mach_notify_port_deleted |-> Xmach_notify_port_deleted,
     mach_notify_port_destroyed |-> Xmach_notify_port_destroyed,
     mach_notify_no_senders |-> Xmach_notify_no_senders,
     mach_notify_send_once |-> Xmach_notify_send_once,
     mach_notify_dead_name |-> Xmach_notify_dead_name,
     child_port_check_in |-> Xchild_port_check_in]

Subsystems ==
    [exc |-> catch_exc_subsystem,
     mach_exc |-> catch_mach_exc_subsystem,
     notify |-> do_notify_subsystem,
     child_port |-> handle_child_port_subsystem]

UserTypes ==
    [exc |-> [requests |-> exc_requests, replies |-> exc_replies],
     mach_exc |-> [requests |-> mach_exc_requests, replies |-> mach_exc_replies],
     notify |-> [requests |-> notify_requests, replies |-> notify_replies],
     child_port |-> [requests |-> child_port_requests, replies |-> child_port_replies]]

ServerTypes ==
    [exc |-> [requests |-> catch_exc_requests, replies |-> catch_exc_replies],
     mach_exc |-> [requests |-> catch_mach_exc_requests, replies |-> catch_mach_exc_replies],
     notify |-> [requests |-> do_notify_requests, replies |-> do_notify_replies],
     child_port |-> [requests |-> handle_child_port_requests, replies |-> handle_child_port_replies]]

=============================================================================
