--------------------------- MODULE MigCalls_proofs ---------------------------
(* Proofs about MigCalls, for any set of threads, any number of calls and    *)
(* any counts.  First the tables: what TLC reads off for the counts of the   *)
(* configuration follows here from a few equations on every row.  Then the   *)
(* messages that fit such a row, and last the calls.                         *)
EXTENDS MigCalls, TLAPS

-----------------------------------------------------------------------------
(* The tables.                                                              *)

\* Both copies of the generated files have the same callers' stubs.
LEMMA SameCallers == X!Callers = A!Callers
<1>1. X!exception_raise = A!exception_raise
  BY DEF A!exception_raise, A!Caller, A!Header, A!TwoPorts, A!NDR, A!Word,
      A!COPY_SEND, A!Trailer, A!Body, A!Port, X!exception_raise, X!Caller,
      X!Header, X!TwoPorts, X!NDR, X!Word, X!COPY_SEND, X!Trailer, X!Body,
      X!Port
<1>2. X!exception_raise_state = A!exception_raise_state
  BY DEF A!exception_raise_state, A!Caller, A!Header, A!NDR, A!Word,
      A!ThreadState, A!Trailer, X!exception_raise_state, X!Caller, X!Header,
      X!NDR, X!Word, X!ThreadState, X!Trailer
<1>3. X!exception_raise_state_identity = A!exception_raise_state_identity
  BY DEF A!exception_raise_state_identity, A!Caller, A!Header, A!TwoPorts,
      A!NDR, A!Word, A!ThreadState, A!COPY_SEND, A!Trailer, A!Body, A!Port,
      X!exception_raise_state_identity, X!Caller, X!Header, X!TwoPorts,
      X!NDR, X!Word, X!ThreadState, X!COPY_SEND, X!Trailer, X!Body, X!Port
<1>4. X!mach_exception_raise = A!mach_exception_raise
  BY DEF A!mach_exception_raise, A!Caller, A!Header, A!TwoPorts, A!NDR,
      A!Word, A!Wide, A!COPY_SEND, A!Trailer, A!Body, A!Port,
      X!mach_exception_raise, X!Caller, X!Header, X!TwoPorts, X!NDR, X!Word,
      X!Wide, X!COPY_SEND, X!Trailer, X!Body, X!Port
<1>5. X!mach_exception_raise_state = A!mach_exception_raise_state
  BY DEF A!mach_exception_raise_state, A!Caller, A!Header, A!NDR, A!Word,
      A!Wide, A!ThreadState, A!Trailer, X!mach_exception_raise_state,
      X!Caller, X!Header, X!NDR, X!Word, X!Wide, X!ThreadState, X!Trailer
<1>6. X!mach_exception_raise_state_identity = A!mach_exception_raise_state_identity
  BY DEF A!mach_exception_raise_state_identity, A!Caller, A!Header,
      A!TwoPorts, A!NDR, A!Word, A!Wide, A!ThreadState, A!COPY_SEND,
      A!Trailer, A!Body, A!Port, X!mach_exception_raise_state_identity,
      X!Caller, X!Header, X!TwoPorts, X!NDR, X!Word, X!Wide, X!ThreadState,
      X!COPY_SEND, X!Trailer, X!Body, X!Port
<1>7. X!mach_notify_port_deleted = A!mach_notify_port_deleted
  BY DEF A!mach_notify_port_deleted, A!OneWay, A!Fixed, A!Header, A!NDR,
      A!Word, X!mach_notify_port_deleted, X!OneWay, X!Fixed, X!Header,
      X!NDR, X!Word
<1>8. X!mach_notify_port_destroyed = A!mach_notify_port_destroyed
  BY DEF A!mach_notify_port_destroyed, A!OneWay, A!Fixed, A!Header,
      A!OnePort, A!MOVE_RECEIVE, A!Word, A!Body, A!Port,
      X!mach_notify_port_destroyed, X!OneWay, X!Fixed, X!Header, X!OnePort,
      X!MOVE_RECEIVE, X!Word, X!Body, X!Port
<1>9. X!mach_notify_no_senders = A!mach_notify_no_senders
  BY DEF A!mach_notify_no_senders, A!OneWay, A!Fixed, A!Header, A!NDR,
      A!Word, X!mach_notify_no_senders, X!OneWay, X!Fixed, X!Header, X!NDR,
      X!Word
<1>10. X!mach_notify_send_once = A!mach_notify_send_once
  BY DEF A!mach_notify_send_once, A!OneWay, A!Fixed, A!Header, A!Word,
      X!mach_notify_send_once, X!OneWay, X!Fixed, X!Header, X!Word
<1>11. X!mach_notify_dead_name = A!mach_notify_dead_name
  BY DEF A!mach_notify_dead_name, A!OneWay, A!Fixed, A!Header, A!NDR,
      A!Word, X!mach_notify_dead_name, X!OneWay, X!Fixed, X!Header, X!NDR,
      X!Word
<1>12. X!child_port_check_in = A!child_port_check_in
  BY DEF A!child_port_check_in, A!OneWay, A!Fixed, A!Header, A!OnePort,
      A!NDR, A!Wide, A!AnyRight, A!Word, A!Body, A!Port,
      X!child_port_check_in, X!OneWay, X!Fixed, X!Header, X!OnePort, X!NDR,
      X!Wide, X!AnyRight, X!Word, X!Body, X!Port
<1> QED BY <1>1, <1>2, <1>3, <1>4, <1>5, <1>6, <1>7, <1>8, <1>9, <1>10,
    <1>11, <1>12 DEF A!Callers, X!Callers

\* Both copies of the generated files have the same checks of replies.
LEMMA SameReplyChecks == X!ReplyChecks = A!ReplyChecks
<1>1. X!Reply_exception_raise = A!Reply_exception_raise
  BY DEF A!Reply_exception_raise, A!Expect, A!exc_replies, A!Header, A!NDR,
      A!Word, A!ThreadState, X!Reply_exception_raise, X!Expect,
      X!exc_replies, X!Header, X!NDR, X!Word, X!ThreadState
<1>2. X!Reply_exception_raise_state = A!Reply_exception_raise_state
  BY DEF A!Reply_exception_raise_state, A!Expect, A!exc_replies, A!Header,
      A!NDR, A!Word, A!ThreadState, X!Reply_exception_raise_state, X!Expect,
      X!exc_replies, X!Header, X!NDR, X!Word, X!ThreadState
<1>3. X!Reply_exception_raise_state_identity = A!Reply_exception_raise_state_identity
  BY DEF A!Reply_exception_raise_state_identity, A!Expect, A!exc_replies,
      A!Header, A!NDR, A!Word, A!ThreadState,
      X!Reply_exception_raise_state_identity, X!Expect, X!exc_replies,
      X!Header, X!NDR, X!Word, X!ThreadState
<1>4. X!Reply_mach_exception_raise = A!Reply_mach_exception_raise
  BY DEF A!Reply_mach_exception_raise, A!Expect, A!mach_exc_replies,
      A!Header, A!NDR, A!Word, A!ThreadState, X!Reply_mach_exception_raise,
      X!Expect, X!mach_exc_replies, X!Header, X!NDR, X!Word, X!ThreadState
<1>5. X!Reply_mach_exception_raise_state = A!Reply_mach_exception_raise_state
  BY DEF A!Reply_mach_exception_raise_state, A!Expect, A!mach_exc_replies,
      A!Header, A!NDR, A!Word, A!ThreadState,
      X!Reply_mach_exception_raise_state, X!Expect, X!mach_exc_replies,
      X!Header, X!NDR, X!Word, X!ThreadState
<1>6. X!Reply_mach_exception_raise_state_identity = A!Reply_mach_exception_raise_state_identity
  BY DEF A!Reply_mach_exception_raise_state_identity, A!Expect,
      A!mach_exc_replies, A!Header, A!NDR, A!Word, A!ThreadState,
      X!Reply_mach_exception_raise_state_identity, X!Expect,
      X!mach_exc_replies, X!Header, X!NDR, X!Word, X!ThreadState
<1> QED BY <1>1, <1>2, <1>3, <1>4, <1>5, <1>6 DEF A!ReplyChecks, X!ReplyChecks

\* Both copies of the generated files have the same checks of requests.
LEMMA SameRequestChecks == X!RequestChecks = A!RequestChecks
<1>1. X!Request_exception_raise = A!Request_exception_raise
  BY DEF A!Request_exception_raise, A!catch_exc_requests, A!MOVE_SEND,
      A!Header, A!TwoPorts, A!NDR, A!Word, A!ThreadState, A!Body, A!Port,
      X!Request_exception_raise, X!catch_exc_requests, X!MOVE_SEND,
      X!Header, X!TwoPorts, X!NDR, X!Word, X!ThreadState, X!Body, X!Port
<1>2. X!Request_exception_raise_state = A!Request_exception_raise_state
  BY DEF A!Request_exception_raise_state, A!catch_exc_requests, A!Header,
      A!TwoPorts, A!NDR, A!Word, A!ThreadState, A!Body, A!Port,
      X!Request_exception_raise_state, X!catch_exc_requests, X!Header,
      X!TwoPorts, X!NDR, X!Word, X!ThreadState, X!Body, X!Port
<1>3. X!Request_exception_raise_state_identity = A!Request_exception_raise_state_identity
  BY DEF A!Request_exception_raise_state_identity, A!catch_exc_requests,
      A!MOVE_SEND, A!Header, A!TwoPorts, A!NDR, A!Word, A!ThreadState,
      A!Body, A!Port, X!Request_exception_raise_state_identity,
      X!catch_exc_requests, X!MOVE_SEND, X!Header, X!TwoPorts, X!NDR,
      X!Word, X!ThreadState, X!Body, X!Port
<1>4. X!Request_mach_exception_raise = A!Request_mach_exception_raise
  BY DEF A!Request_mach_exception_raise, A!catch_mach_exc_requests,
      A!MOVE_SEND, A!Header, A!TwoPorts, A!NDR, A!Word, A!Wide,
      A!ThreadState, A!Body, A!Port, X!Request_mach_exception_raise,
      X!catch_mach_exc_requests, X!MOVE_SEND, X!Header, X!TwoPorts, X!NDR,
      X!Word, X!Wide, X!ThreadState, X!Body, X!Port
<1>5. X!Request_mach_exception_raise_state = A!Request_mach_exception_raise_state
  BY DEF A!Request_mach_exception_raise_state, A!catch_mach_exc_requests,
      A!Header, A!TwoPorts, A!NDR, A!Word, A!Wide, A!ThreadState, A!Body,
      A!Port, X!Request_mach_exception_raise_state,
      X!catch_mach_exc_requests, X!Header, X!TwoPorts, X!NDR, X!Word,
      X!Wide, X!ThreadState, X!Body, X!Port
<1>6. X!Request_mach_exception_raise_state_identity = A!Request_mach_exception_raise_state_identity
  BY DEF A!Request_mach_exception_raise_state_identity,
      A!catch_mach_exc_requests, A!MOVE_SEND, A!Header, A!TwoPorts, A!NDR,
      A!Word, A!Wide, A!ThreadState, A!Body, A!Port,
      X!Request_mach_exception_raise_state_identity,
      X!catch_mach_exc_requests, X!MOVE_SEND, X!Header, X!TwoPorts, X!NDR,
      X!Word, X!Wide, X!ThreadState, X!Body, X!Port
<1>7. X!Request_mach_notify_port_deleted = A!Request_mach_notify_port_deleted
  BY DEF A!Request_mach_notify_port_deleted, A!Fixed, A!do_notify_requests,
      A!Word, A!Header, A!NDR, A!OnePort, A!Body, A!Port,
      X!Request_mach_notify_port_deleted, X!Fixed, X!do_notify_requests,
      X!Word, X!Header, X!NDR, X!OnePort, X!Body, X!Port
<1>8. X!Request_mach_notify_port_destroyed = A!Request_mach_notify_port_destroyed
  BY DEF A!Request_mach_notify_port_destroyed, A!Fixed,
      A!do_notify_requests, A!MOVE_RECEIVE, A!Word, A!Header, A!NDR,
      A!OnePort, A!Body, A!Port, X!Request_mach_notify_port_destroyed,
      X!Fixed, X!do_notify_requests, X!MOVE_RECEIVE, X!Word, X!Header,
      X!NDR, X!OnePort, X!Body, X!Port
<1>9. X!Request_mach_notify_no_senders = A!Request_mach_notify_no_senders
  BY DEF A!Request_mach_notify_no_senders, A!Fixed, A!do_notify_requests,
      A!Word, A!Header, A!NDR, A!OnePort, A!Body, A!Port,
      X!Request_mach_notify_no_senders, X!Fixed, X!do_notify_requests,
      X!Word, X!Header, X!NDR, X!OnePort, X!Body, X!Port
<1>10. X!Request_mach_notify_send_once = A!Request_mach_notify_send_once
  BY DEF A!Request_mach_notify_send_once, A!Fixed, A!do_notify_requests,
      A!Word, A!Header, A!NDR, A!OnePort, A!Body, A!Port,
      X!Request_mach_notify_send_once, X!Fixed, X!do_notify_requests,
      X!Word, X!Header, X!NDR, X!OnePort, X!Body, X!Port
<1>11. X!Request_mach_notify_dead_name = A!Request_mach_notify_dead_name
  BY DEF A!Request_mach_notify_dead_name, A!Fixed, A!do_notify_requests,
      A!Word, A!Header, A!NDR, A!OnePort, A!Body, A!Port,
      X!Request_mach_notify_dead_name, X!Fixed, X!do_notify_requests,
      X!Word, X!Header, X!NDR, X!OnePort, X!Body, X!Port
<1>12. X!Request_child_port_check_in = A!Request_child_port_check_in
  BY DEF A!Request_child_port_check_in, A!Fixed,
      A!handle_child_port_requests, A!AnyRight, A!Word, A!Header, A!OnePort,
      A!NDR, A!Wide, A!Body, A!Port, X!Request_child_port_check_in, X!Fixed,
      X!handle_child_port_requests, X!AnyRight, X!Word, X!Header, X!OnePort,
      X!NDR, X!Wide, X!Body, X!Port
<1> QED BY <1>1, <1>2, <1>3, <1>4, <1>5, <1>6, <1>7, <1>8, <1>9, <1>10,
    <1>11, <1>12 DEF A!RequestChecks, X!RequestChecks

\* Both copies of the generated files have the same server's stubs.
LEMMA SameStubs == X!Stubs = A!Stubs
<1>1. X!Xexception_raise = A!Xexception_raise
  BY DEF A!Xexception_raise, A!Routine, A!catch_exc_replies, A!Header,
      A!NDR, A!Word, A!ThreadState, X!Xexception_raise, X!Routine,
      X!catch_exc_replies, X!Header, X!NDR, X!Word, X!ThreadState
<1>2. X!Xexception_raise_state = A!Xexception_raise_state
  BY DEF A!Xexception_raise_state, A!Routine, A!catch_exc_replies, A!Header,
      A!NDR, A!Word, A!ThreadState, X!Xexception_raise_state, X!Routine,
      X!catch_exc_replies, X!Header, X!NDR, X!Word, X!ThreadState
<1>3. X!Xexception_raise_state_identity = A!Xexception_raise_state_identity
  BY DEF A!Xexception_raise_state_identity, A!Routine, A!catch_exc_replies,
      A!Header, A!NDR, A!Word, A!ThreadState,
      X!Xexception_raise_state_identity, X!Routine, X!catch_exc_replies,
      X!Header, X!NDR, X!Word, X!ThreadState
<1>4. X!Xmach_exception_raise = A!Xmach_exception_raise
  BY DEF A!Xmach_exception_raise, A!Routine, A!catch_mach_exc_replies,
      A!Header, A!NDR, A!Word, A!ThreadState, X!Xmach_exception_raise,
      X!Routine, X!catch_mach_exc_replies, X!Header, X!NDR, X!Word,
      X!ThreadState
<1>5. X!Xmach_exception_raise_state = A!Xmach_exception_raise_state
  BY DEF A!Xmach_exception_raise_state, A!Routine, A!catch_mach_exc_replies,
      A!Header, A!NDR, A!Word, A!ThreadState, X!Xmach_exception_raise_state,
      X!Routine, X!catch_mach_exc_replies, X!Header, X!NDR, X!Word,
      X!ThreadState
<1>6. X!Xmach_exception_raise_state_identity = A!Xmach_exception_raise_state_identity
  BY DEF A!Xmach_exception_raise_state_identity, A!Routine,
      A!catch_mach_exc_replies, A!Header, A!NDR, A!Word, A!ThreadState,
      X!Xmach_exception_raise_state_identity, X!Routine,
      X!catch_mach_exc_replies, X!Header, X!NDR, X!Word, X!ThreadState
<1>7. X!Xmach_notify_port_deleted = A!Xmach_notify_port_deleted
  BY DEF A!Xmach_notify_port_deleted, A!Routine, A!do_notify_replies,
      A!Header, A!NDR, A!Word, X!Xmach_notify_port_deleted, X!Routine,
      X!do_notify_replies, X!Header, X!NDR, X!Word
<1>8. X!Xmach_notify_port_destroyed = A!Xmach_notify_port_destroyed
  BY DEF A!Xmach_notify_port_destroyed, A!Routine, A!do_notify_replies,
      A!Header, A!NDR, A!Word, X!Xmach_notify_port_destroyed, X!Routine,
      X!do_notify_replies, X!Header, X!NDR, X!Word
<1>9. X!Xmach_notify_no_senders = A!Xmach_notify_no_senders
  BY DEF A!Xmach_notify_no_senders, A!Routine, A!do_notify_replies,
      A!Header, A!NDR, A!Word, X!Xmach_notify_no_senders, X!Routine,
      X!do_notify_replies, X!Header, X!NDR, X!Word
<1>10. X!Xmach_notify_send_once = A!Xmach_notify_send_once
  BY DEF A!Xmach_notify_send_once, A!Routine, A!do_notify_replies, A!Header,
      A!NDR, A!Word, X!Xmach_notify_send_once, X!Routine,
      X!do_notify_replies, X!Header, X!NDR, X!Word
<1>11. X!Xmach_notify_dead_name = A!Xmach_notify_dead_name
  BY DEF A!Xmach_notify_dead_name, A!Routine, A!do_notify_replies, A!Header,
      A!NDR, A!Word, X!Xmach_notify_dead_name, X!Routine,
      X!do_notify_replies, X!Header, X!NDR, X!Word
<1>12. X!Xchild_port_check_in = A!Xchild_port_check_in
  BY DEF A!Xchild_port_check_in, A!Routine, A!handle_child_port_replies,
      A!Header, A!NDR, A!Word, X!Xchild_port_check_in, X!Routine,
      X!handle_child_port_replies, X!Header, X!NDR, X!Word
<1> QED BY <1>1, <1>2, <1>3, <1>4, <1>5, <1>6, <1>7, <1>8, <1>9, <1>10,
    <1>11, <1>12 DEF A!Stubs, X!Stubs

\* Both copies of the generated files have the same subsystems.
LEMMA SameSubsystems == X!Subsystems = A!Subsystems
<1>1. X!catch_exc_subsystem = A!catch_exc_subsystem
  BY DEF A!catch_exc_subsystem, A!Subsystem, A!catch_exc_replies, A!Largest,
      A!Header, A!NDR, A!Word, A!ThreadState, X!catch_exc_subsystem,
      X!Subsystem, X!catch_exc_replies, X!Largest, X!Header, X!NDR, X!Word,
      X!ThreadState
<1>2. X!catch_mach_exc_subsystem = A!catch_mach_exc_subsystem
  BY DEF A!catch_mach_exc_subsystem, A!Subsystem, A!catch_mach_exc_replies,
      A!Largest, A!Header, A!NDR, A!Word, A!ThreadState,
      X!catch_mach_exc_subsystem, X!Subsystem, X!catch_mach_exc_replies,
      X!Largest, X!Header, X!NDR, X!Word, X!ThreadState
<1>3. X!do_notify_subsystem = A!do_notify_subsystem
  BY DEF A!do_notify_subsystem, A!Subsystem, A!do_notify_replies, A!Largest,
      A!Header, A!NDR, A!Word, X!do_notify_subsystem, X!Subsystem,
      X!do_notify_replies, X!Largest, X!Header, X!NDR, X!Word
<1>4. X!handle_child_port_subsystem = A!handle_child_port_subsystem
  BY DEF A!handle_child_port_subsystem, A!Subsystem,
      A!handle_child_port_replies, A!Largest, A!Header, A!NDR, A!Word,
      X!handle_child_port_subsystem, X!Subsystem,
      X!handle_child_port_replies, X!Largest, X!Header, X!NDR, X!Word
<1> QED BY <1>1, <1>2, <1>3, <1>4 DEF A!Subsystems, X!Subsystems

\* ... and the same types in their headers.
LEMMA SameUserTypes == X!UserTypes = A!UserTypes
<1>1. X!exc_requests = A!exc_requests
  BY DEF A!exc_requests, A!Header, A!TwoPorts, A!NDR, A!Word, A!ThreadState,
      A!Body, A!Port, X!exc_requests, X!Header, X!TwoPorts, X!NDR, X!Word,
      X!ThreadState, X!Body, X!Port
<1>2. X!exc_replies = A!exc_replies
  BY DEF A!exc_replies, A!Header, A!NDR, A!Word, A!ThreadState,
      X!exc_replies, X!Header, X!NDR, X!Word, X!ThreadState
<1>3. X!mach_exc_requests = A!mach_exc_requests
  BY DEF A!mach_exc_requests, A!Header, A!TwoPorts, A!NDR, A!Word, A!Wide,
      A!ThreadState, A!Body, A!Port, X!mach_exc_requests, X!Header,
      X!TwoPorts, X!NDR, X!Word, X!Wide, X!ThreadState, X!Body, X!Port
<1>4. X!mach_exc_replies = A!mach_exc_replies
  BY DEF A!mach_exc_replies, A!Header, A!NDR, A!Word, A!ThreadState,
      X!mach_exc_replies, X!Header, X!NDR, X!Word, X!ThreadState
<1>5. X!notify_requests = A!notify_requests
  BY DEF A!notify_requests, A!Header, A!NDR, A!Word, A!OnePort, A!Body,
      A!Port, X!notify_requests, X!Header, X!NDR, X!Word, X!OnePort, X!Body,
      X!Port
<1>6. X!notify_replies = A!notify_replies
  BY DEF A!notify_replies, A!Header, A!NDR, A!Word, X!notify_replies,
      X!Header, X!NDR, X!Word
<1>7. X!child_port_requests = A!child_port_requests
  BY DEF A!child_port_requests, A!Header, A!OnePort, A!NDR, A!Wide, A!Body,
      A!Port, X!child_port_requests, X!Header, X!OnePort, X!NDR, X!Wide,
      X!Body, X!Port
<1>8. X!child_port_replies = A!child_port_replies
  BY DEF A!child_port_replies, A!Header, A!NDR, A!Word,
      X!child_port_replies, X!Header, X!NDR, X!Word
<1> QED BY <1>1, <1>2, <1>3, <1>4, <1>5, <1>6, <1>7, <1>8 DEF A!UserTypes, X!UserTypes

\* ... and the same types in the headers of the servers.
LEMMA SameServerTypes == X!ServerTypes = A!ServerTypes
<1>1. X!catch_exc_requests = A!catch_exc_requests
  BY DEF A!catch_exc_requests, A!Header, A!TwoPorts, A!NDR, A!Word,
      A!ThreadState, A!Body, A!Port, X!catch_exc_requests, X!Header,
      X!TwoPorts, X!NDR, X!Word, X!ThreadState, X!Body, X!Port
<1>2. X!catch_exc_replies = A!catch_exc_replies
  BY DEF A!catch_exc_replies, A!Header, A!NDR, A!Word, A!ThreadState,
      X!catch_exc_replies, X!Header, X!NDR, X!Word, X!ThreadState
<1>3. X!catch_mach_exc_requests = A!catch_mach_exc_requests
  BY DEF A!catch_mach_exc_requests, A!Header, A!TwoPorts, A!NDR, A!Word,
      A!Wide, A!ThreadState, A!Body, A!Port, X!catch_mach_exc_requests,
      X!Header, X!TwoPorts, X!NDR, X!Word, X!Wide, X!ThreadState, X!Body,
      X!Port
<1>4. X!catch_mach_exc_replies = A!catch_mach_exc_replies
  BY DEF A!catch_mach_exc_replies, A!Header, A!NDR, A!Word, A!ThreadState,
      X!catch_mach_exc_replies, X!Header, X!NDR, X!Word, X!ThreadState
<1>5. X!do_notify_requests = A!do_notify_requests
  BY DEF A!do_notify_requests, A!Header, A!NDR, A!Word, A!OnePort, A!Body,
      A!Port, X!do_notify_requests, X!Header, X!NDR, X!Word, X!OnePort,
      X!Body, X!Port
<1>6. X!do_notify_replies = A!do_notify_replies
  BY DEF A!do_notify_replies, A!Header, A!NDR, A!Word, X!do_notify_replies,
      X!Header, X!NDR, X!Word
<1>7. X!handle_child_port_requests = A!handle_child_port_requests
  BY DEF A!handle_child_port_requests, A!Header, A!OnePort, A!NDR, A!Wide,
      A!Body, A!Port, X!handle_child_port_requests, X!Header, X!OnePort,
      X!NDR, X!Wide, X!Body, X!Port
<1>8. X!handle_child_port_replies = A!handle_child_port_replies
  BY DEF A!handle_child_port_replies, A!Header, A!NDR, A!Word,
      X!handle_child_port_replies, X!Header, X!NDR, X!Word
<1> QED BY <1>1, <1>2, <1>3, <1>4, <1>5, <1>6, <1>7, <1>8 DEF A!ServerTypes, X!ServerTypes

\* So the architecture of a process makes no difference.
LEMMA AnyArch ==
    ASSUME NEW a
    PROVE  /\ Callers(a) = A!Callers
           /\ ReplyChecks(a) = A!ReplyChecks
           /\ RequestChecks(a) = A!RequestChecks
           /\ Stubs(a) = A!Stubs
           /\ Subsystems(a) = A!Subsystems
           /\ UserTypes(a) = A!UserTypes
           /\ ServerTypes(a) = A!ServerTypes
BY SameCallers, SameReplyChecks, SameRequestChecks, SameStubs, SameSubsystems,
   SameUserTypes, SameServerTypes
DEF Callers, ReplyChecks, RequestChecks, Stubs, Subsystems, UserTypes, ServerTypes

Routines ==
    {"exception_raise",
     "exception_raise_state",
     "exception_raise_state_identity",
     "mach_exception_raise",
     "mach_exception_raise_state",
     "mach_exception_raise_state_identity",
     "mach_notify_port_deleted",
     "mach_notify_port_destroyed",
     "mach_notify_no_senders",
     "mach_notify_send_once",
     "mach_notify_dead_name",
     "child_port_check_in"}
Rpcs ==
    {"exception_raise",
     "exception_raise_state",
     "exception_raise_state_identity",
     "mach_exception_raise",
     "mach_exception_raise_state",
     "mach_exception_raise_state_identity"}

\* The names of the routines and of the subsystems.
LEMMA Names == Called = Routines /\ Served = {"exc", "mach_exc", "notify", "child_port"}
BY DEF Called, Served, Routines, A!Callers, A!Subsystems

\* What makes the two halves of a request fit: the same bytes, the same arrays
\* with the same limits, and literals that are what the structure says.
Agrees(u, l) ==
    /\ u.layout.bytes = l.bytes /\ u.layout.descs = l.descs
    /\ u.layout.arrays = l.arrays /\ u.layout.cut = l.cut
    /\ u.layout.unit = l.unit /\ u.layout.shift = l.shift
    /\ u.layout.codes = l.codes /\ u.layout.states = l.states
    /\ l.bytes \in Nat /\ l.descs \in Nat /\ l.codes \in Nat /\ l.states \in Nat
    /\ l.arrays \in {{}, {"code"}, {"code", "state"}}
    /\ l.unit \in {4, 8} /\ l.cut \in Nat /\ l.shift \in Nat
    /\ l.bytes >= l.cut
    /\ l.arrays = {} => l.cut = 0
    /\ l.arrays = {"code"} => l.cut = l.unit * l.codes
    /\ l.arrays = {"code", "state"} => l.cut = l.unit * l.codes + 4 * l.states
    /\ l.descs > 0 /\ l.disposition # AnyRight =>
          /\ u.layout.disposition # AnyRight
          /\ Received(u.layout.disposition) = l.disposition
    /\ u.layout.disposition \in 0 .. 21

\* They fit in every routine.
LEMMA AllAgree == \A r \in Routines : Agrees(A!Callers[r], A!RequestChecks[r])
<1>1. Agrees(A!Callers["exception_raise"], A!RequestChecks["exception_raise"])
  <2>1. A!Callers["exception_raise"] = A!exception_raise /\ A!RequestChecks["exception_raise"] = A!Request_exception_raise
    BY DEF A!Callers, A!RequestChecks
  <2> QED
    BY <2>1 DEF A!Request_exception_raise, A!catch_exc_requests,
        A!exception_raise, A!Body, A!COPY_SEND, A!Caller, A!Header,
        A!MOVE_SEND, A!NDR, A!Port, A!ThreadState, A!Trailer, A!TwoPorts,
        A!Word, Agrees, AnyRight, Received, MOVE_SEND, COPY_SEND, MAKE_SEND,
        MAKE_SEND_ONCE
<1>2. Agrees(A!Callers["exception_raise_state"], A!RequestChecks["exception_raise_state"])
  <2>1. A!Callers["exception_raise_state"] = A!exception_raise_state /\ A!RequestChecks["exception_raise_state"] = A!Request_exception_raise_state
    BY DEF A!Callers, A!RequestChecks
  <2> QED
    BY <2>1 DEF A!Request_exception_raise_state, A!catch_exc_requests,
        A!exception_raise_state, A!Body, A!Caller, A!Header, A!NDR, A!Port,
        A!ThreadState, A!Trailer, A!TwoPorts, A!Word, Agrees, AnyRight,
        Received, MOVE_SEND, COPY_SEND, MAKE_SEND, MAKE_SEND_ONCE
<1>3. Agrees(A!Callers["exception_raise_state_identity"], A!RequestChecks["exception_raise_state_identity"])
  <2>1. A!Callers["exception_raise_state_identity"] = A!exception_raise_state_identity /\ A!RequestChecks["exception_raise_state_identity"] = A!Request_exception_raise_state_identity
    BY DEF A!Callers, A!RequestChecks
  <2> QED
    BY <2>1 DEF A!Request_exception_raise_state_identity,
        A!catch_exc_requests, A!exception_raise_state_identity, A!Body,
        A!COPY_SEND, A!Caller, A!Header, A!MOVE_SEND, A!NDR, A!Port,
        A!ThreadState, A!Trailer, A!TwoPorts, A!Word, Agrees, AnyRight,
        Received, MOVE_SEND, COPY_SEND, MAKE_SEND, MAKE_SEND_ONCE
<1>4. Agrees(A!Callers["mach_exception_raise"], A!RequestChecks["mach_exception_raise"])
  <2>1. A!Callers["mach_exception_raise"] = A!mach_exception_raise /\ A!RequestChecks["mach_exception_raise"] = A!Request_mach_exception_raise
    BY DEF A!Callers, A!RequestChecks
  <2> QED
    BY <2>1 DEF A!Request_mach_exception_raise, A!catch_mach_exc_requests,
        A!mach_exception_raise, A!Body, A!COPY_SEND, A!Caller, A!Header,
        A!MOVE_SEND, A!NDR, A!Port, A!ThreadState, A!Trailer, A!TwoPorts,
        A!Wide, A!Word, Agrees, AnyRight, Received, MOVE_SEND, COPY_SEND,
        MAKE_SEND, MAKE_SEND_ONCE
<1>5. Agrees(A!Callers["mach_exception_raise_state"], A!RequestChecks["mach_exception_raise_state"])
  <2>1. A!Callers["mach_exception_raise_state"] = A!mach_exception_raise_state /\ A!RequestChecks["mach_exception_raise_state"] = A!Request_mach_exception_raise_state
    BY DEF A!Callers, A!RequestChecks
  <2> QED
    BY <2>1 DEF A!Request_mach_exception_raise_state,
        A!catch_mach_exc_requests, A!mach_exception_raise_state, A!Body,
        A!Caller, A!Header, A!NDR, A!Port, A!ThreadState, A!Trailer,
        A!TwoPorts, A!Wide, A!Word, Agrees, AnyRight, Received, MOVE_SEND,
        COPY_SEND, MAKE_SEND, MAKE_SEND_ONCE
<1>6. Agrees(A!Callers["mach_exception_raise_state_identity"], A!RequestChecks["mach_exception_raise_state_identity"])
  <2>1. A!Callers["mach_exception_raise_state_identity"] = A!mach_exception_raise_state_identity /\ A!RequestChecks["mach_exception_raise_state_identity"] = A!Request_mach_exception_raise_state_identity
    BY DEF A!Callers, A!RequestChecks
  <2> QED
    BY <2>1 DEF A!Request_mach_exception_raise_state_identity,
        A!catch_mach_exc_requests, A!mach_exception_raise_state_identity,
        A!Body, A!COPY_SEND, A!Caller, A!Header, A!MOVE_SEND, A!NDR, A!Port,
        A!ThreadState, A!Trailer, A!TwoPorts, A!Wide, A!Word, Agrees,
        AnyRight, Received, MOVE_SEND, COPY_SEND, MAKE_SEND, MAKE_SEND_ONCE
<1>7. Agrees(A!Callers["mach_notify_port_deleted"], A!RequestChecks["mach_notify_port_deleted"])
  <2>1. A!Callers["mach_notify_port_deleted"] = A!mach_notify_port_deleted /\ A!RequestChecks["mach_notify_port_deleted"] = A!Request_mach_notify_port_deleted
    BY DEF A!Callers, A!RequestChecks
  <2> QED
    BY <2>1 DEF A!Request_mach_notify_port_deleted, A!do_notify_requests,
        A!mach_notify_port_deleted, A!Body, A!Fixed, A!Header, A!NDR,
        A!OnePort, A!OneWay, A!Port, A!Word, Agrees, AnyRight, Received,
        MOVE_SEND, COPY_SEND, MAKE_SEND, MAKE_SEND_ONCE
<1>8. Agrees(A!Callers["mach_notify_port_destroyed"], A!RequestChecks["mach_notify_port_destroyed"])
  <2>1. A!Callers["mach_notify_port_destroyed"] = A!mach_notify_port_destroyed /\ A!RequestChecks["mach_notify_port_destroyed"] = A!Request_mach_notify_port_destroyed
    BY DEF A!Callers, A!RequestChecks
  <2> QED
    BY <2>1 DEF A!Request_mach_notify_port_destroyed, A!do_notify_requests,
        A!mach_notify_port_destroyed, A!Body, A!Fixed, A!Header,
        A!MOVE_RECEIVE, A!NDR, A!OnePort, A!OneWay, A!Port, A!Word, Agrees,
        AnyRight, Received, MOVE_SEND, COPY_SEND, MAKE_SEND, MAKE_SEND_ONCE
<1>9. Agrees(A!Callers["mach_notify_no_senders"], A!RequestChecks["mach_notify_no_senders"])
  <2>1. A!Callers["mach_notify_no_senders"] = A!mach_notify_no_senders /\ A!RequestChecks["mach_notify_no_senders"] = A!Request_mach_notify_no_senders
    BY DEF A!Callers, A!RequestChecks
  <2> QED
    BY <2>1 DEF A!Request_mach_notify_no_senders, A!do_notify_requests,
        A!mach_notify_no_senders, A!Body, A!Fixed, A!Header, A!NDR,
        A!OnePort, A!OneWay, A!Port, A!Word, Agrees, AnyRight, Received,
        MOVE_SEND, COPY_SEND, MAKE_SEND, MAKE_SEND_ONCE
<1>10. Agrees(A!Callers["mach_notify_send_once"], A!RequestChecks["mach_notify_send_once"])
  <2>1. A!Callers["mach_notify_send_once"] = A!mach_notify_send_once /\ A!RequestChecks["mach_notify_send_once"] = A!Request_mach_notify_send_once
    BY DEF A!Callers, A!RequestChecks
  <2> QED
    BY <2>1 DEF A!Request_mach_notify_send_once, A!do_notify_requests,
        A!mach_notify_send_once, A!Body, A!Fixed, A!Header, A!NDR,
        A!OnePort, A!OneWay, A!Port, A!Word, Agrees, AnyRight, Received,
        MOVE_SEND, COPY_SEND, MAKE_SEND, MAKE_SEND_ONCE
<1>11. Agrees(A!Callers["mach_notify_dead_name"], A!RequestChecks["mach_notify_dead_name"])
  <2>1. A!Callers["mach_notify_dead_name"] = A!mach_notify_dead_name /\ A!RequestChecks["mach_notify_dead_name"] = A!Request_mach_notify_dead_name
    BY DEF A!Callers, A!RequestChecks
  <2> QED
    BY <2>1 DEF A!Request_mach_notify_dead_name, A!do_notify_requests,
        A!mach_notify_dead_name, A!Body, A!Fixed, A!Header, A!NDR,
        A!OnePort, A!OneWay, A!Port, A!Word, Agrees, AnyRight, Received,
        MOVE_SEND, COPY_SEND, MAKE_SEND, MAKE_SEND_ONCE
<1>12. Agrees(A!Callers["child_port_check_in"], A!RequestChecks["child_port_check_in"])
  <2>1. A!Callers["child_port_check_in"] = A!child_port_check_in /\ A!RequestChecks["child_port_check_in"] = A!Request_child_port_check_in
    BY DEF A!Callers, A!RequestChecks
  <2> QED
    BY <2>1 DEF A!Request_child_port_check_in, A!child_port_check_in,
        A!handle_child_port_requests, A!AnyRight, A!Body, A!Fixed, A!Header,
        A!NDR, A!OnePort, A!OneWay, A!Port, A!Wide, A!Word, Agrees,
        AnyRight, Received, MOVE_SEND, COPY_SEND, MAKE_SEND, MAKE_SEND_ONCE
<1> QED BY <1>1, <1>2, <1>3, <1>4, <1>5, <1>6, <1>7, <1>8, <1>9, <1>10,
    <1>11, <1>12 DEF Routines

\* The message id of every routine, and whether it waits for a reply.
LEMMA Ids ==
    /\ A!Callers["exception_raise"].id = 2401 /\ A!Callers["exception_raise"].oneway = FALSE
    /\ A!Callers["exception_raise_state"].id = 2402 /\ A!Callers["exception_raise_state"].oneway = FALSE
    /\ A!Callers["exception_raise_state_identity"].id = 2403 /\ A!Callers["exception_raise_state_identity"].oneway = FALSE
    /\ A!Callers["mach_exception_raise"].id = 2405 /\ A!Callers["mach_exception_raise"].oneway = FALSE
    /\ A!Callers["mach_exception_raise_state"].id = 2406 /\ A!Callers["mach_exception_raise_state"].oneway = FALSE
    /\ A!Callers["mach_exception_raise_state_identity"].id = 2407 /\ A!Callers["mach_exception_raise_state_identity"].oneway = FALSE
    /\ A!Callers["mach_notify_port_deleted"].id = 65 /\ A!Callers["mach_notify_port_deleted"].oneway = TRUE
    /\ A!Callers["mach_notify_port_destroyed"].id = 69 /\ A!Callers["mach_notify_port_destroyed"].oneway = TRUE
    /\ A!Callers["mach_notify_no_senders"].id = 70 /\ A!Callers["mach_notify_no_senders"].oneway = TRUE
    /\ A!Callers["mach_notify_send_once"].id = 71 /\ A!Callers["mach_notify_send_once"].oneway = TRUE
    /\ A!Callers["mach_notify_dead_name"].id = 72 /\ A!Callers["mach_notify_dead_name"].oneway = TRUE
    /\ A!Callers["child_port_check_in"].id = 10011 /\ A!Callers["child_port_check_in"].oneway = TRUE
<1>1. A!Callers["exception_raise"] = A!exception_raise
  BY DEF A!Callers
<1>2. A!Callers["exception_raise_state"] = A!exception_raise_state
  BY DEF A!Callers
<1>3. A!Callers["exception_raise_state_identity"] = A!exception_raise_state_identity
  BY DEF A!Callers
<1>4. A!Callers["mach_exception_raise"] = A!mach_exception_raise
  BY DEF A!Callers
<1>5. A!Callers["mach_exception_raise_state"] = A!mach_exception_raise_state
  BY DEF A!Callers
<1>6. A!Callers["mach_exception_raise_state_identity"] = A!mach_exception_raise_state_identity
  BY DEF A!Callers
<1>7. A!Callers["mach_notify_port_deleted"] = A!mach_notify_port_deleted
  BY DEF A!Callers
<1>8. A!Callers["mach_notify_port_destroyed"] = A!mach_notify_port_destroyed
  BY DEF A!Callers
<1>9. A!Callers["mach_notify_no_senders"] = A!mach_notify_no_senders
  BY DEF A!Callers
<1>10. A!Callers["mach_notify_send_once"] = A!mach_notify_send_once
  BY DEF A!Callers
<1>11. A!Callers["mach_notify_dead_name"] = A!mach_notify_dead_name
  BY DEF A!Callers
<1>12. A!Callers["child_port_check_in"] = A!child_port_check_in
  BY DEF A!Callers
<1> QED
  BY <1>1, <1>2, <1>3, <1>4, <1>5, <1>6, <1>7, <1>8, <1>9, <1>10, <1>11,
     <1>12
  DEF A!exception_raise, A!exception_raise_state,
     A!exception_raise_state_identity, A!mach_exception_raise,
     A!mach_exception_raise_state, A!mach_exception_raise_state_identity,
     A!mach_notify_port_deleted, A!mach_notify_port_destroyed,
     A!mach_notify_no_senders, A!mach_notify_send_once,
     A!mach_notify_dead_name, A!child_port_check_in, A!Caller, A!OneWay

\* The routines of a subsystem, by its types.
In(s) == DOMAIN A!ServerTypes[s].requests

LEMMA Routing ==
    /\ In("exc") = {"exception_raise",
         "exception_raise_state",
         "exception_raise_state_identity"}
    /\ In("mach_exc") = {"mach_exception_raise",
         "mach_exception_raise_state",
         "mach_exception_raise_state_identity"}
    /\ In("notify") = {"mach_notify_port_deleted",
         "mach_notify_port_destroyed",
         "mach_notify_no_senders",
         "mach_notify_send_once",
         "mach_notify_dead_name"}
    /\ In("child_port") = {"child_port_check_in"}
BY DEF In, A!ServerTypes, A!catch_exc_requests, A!catch_mach_exc_requests,
   A!do_notify_requests, A!handle_child_port_requests

\* The server finds the stub of a routine that it has, and none for another.
LEMMA Dispatches ==
    \A s \in Served, r \in Routines :
        Dispatch(A!Subsystems[s], A!Callers[r].id) = IF r \in In(s) THEN r ELSE "none"
<1>1. \A r \in Routines : Dispatch(A!Subsystems["exc"], A!Callers[r].id)
                              = IF r \in In("exc") THEN r ELSE "none"
  <2> DEFINE S == A!Subsystems["exc"]
  <2>1. S.first = 2401 /\ S.last = 2403 /\ S.stub = <<"exception_raise",
           "exception_raise_state",
           "exception_raise_state_identity">>
    BY DEF A!Subsystems, A!catch_exc_subsystem, A!Subsystem
  <2> HIDE DEF S
  <2>r0. Dispatch(S, A!Callers["exception_raise"].id) = "exception_raise"
    BY <2>1, Ids DEF Dispatch
  <2>r1. Dispatch(S, A!Callers["exception_raise_state"].id) = "exception_raise_state"
    BY <2>1, Ids DEF Dispatch
  <2>r2. Dispatch(S, A!Callers["exception_raise_state_identity"].id) = "exception_raise_state_identity"
    BY <2>1, Ids DEF Dispatch
  <2>r3. Dispatch(S, A!Callers["mach_exception_raise"].id) = "none"
    BY <2>1, Ids DEF Dispatch
  <2>r4. Dispatch(S, A!Callers["mach_exception_raise_state"].id) = "none"
    BY <2>1, Ids DEF Dispatch
  <2>r5. Dispatch(S, A!Callers["mach_exception_raise_state_identity"].id) = "none"
    BY <2>1, Ids DEF Dispatch
  <2>r6. Dispatch(S, A!Callers["mach_notify_port_deleted"].id) = "none"
    BY <2>1, Ids DEF Dispatch
  <2>r7. Dispatch(S, A!Callers["mach_notify_port_destroyed"].id) = "none"
    BY <2>1, Ids DEF Dispatch
  <2>r8. Dispatch(S, A!Callers["mach_notify_no_senders"].id) = "none"
    BY <2>1, Ids DEF Dispatch
  <2>r9. Dispatch(S, A!Callers["mach_notify_send_once"].id) = "none"
    BY <2>1, Ids DEF Dispatch
  <2>r10. Dispatch(S, A!Callers["mach_notify_dead_name"].id) = "none"
    BY <2>1, Ids DEF Dispatch
  <2>r11. Dispatch(S, A!Callers["child_port_check_in"].id) = "none"
    BY <2>1, Ids DEF Dispatch
  <2> QED
    BY <2>r0, <2>r1, <2>r2, <2>r3, <2>r4, <2>r5, <2>r6, <2>r7, <2>r8, <2>r9,
        <2>r10, <2>r11, Routing DEF Routines, S
<1>2. \A r \in Routines : Dispatch(A!Subsystems["mach_exc"], A!Callers[r].id)
                              = IF r \in In("mach_exc") THEN r ELSE "none"
  <2> DEFINE S == A!Subsystems["mach_exc"]
  <2>1. S.first = 2405 /\ S.last = 2410 /\ S.stub = <<"mach_exception_raise",
           "mach_exception_raise_state",
           "mach_exception_raise_state_identity",
           "none",
           "none",
           "none">>
    BY DEF A!Subsystems, A!catch_mach_exc_subsystem, A!Subsystem
  <2> HIDE DEF S
  <2>r0. Dispatch(S, A!Callers["exception_raise"].id) = "none"
    BY <2>1, Ids DEF Dispatch
  <2>r1. Dispatch(S, A!Callers["exception_raise_state"].id) = "none"
    BY <2>1, Ids DEF Dispatch
  <2>r2. Dispatch(S, A!Callers["exception_raise_state_identity"].id) = "none"
    BY <2>1, Ids DEF Dispatch
  <2>r3. Dispatch(S, A!Callers["mach_exception_raise"].id) = "mach_exception_raise"
    BY <2>1, Ids DEF Dispatch
  <2>r4. Dispatch(S, A!Callers["mach_exception_raise_state"].id) = "mach_exception_raise_state"
    BY <2>1, Ids DEF Dispatch
  <2>r5. Dispatch(S, A!Callers["mach_exception_raise_state_identity"].id) = "mach_exception_raise_state_identity"
    BY <2>1, Ids DEF Dispatch
  <2>r6. Dispatch(S, A!Callers["mach_notify_port_deleted"].id) = "none"
    BY <2>1, Ids DEF Dispatch
  <2>r7. Dispatch(S, A!Callers["mach_notify_port_destroyed"].id) = "none"
    BY <2>1, Ids DEF Dispatch
  <2>r8. Dispatch(S, A!Callers["mach_notify_no_senders"].id) = "none"
    BY <2>1, Ids DEF Dispatch
  <2>r9. Dispatch(S, A!Callers["mach_notify_send_once"].id) = "none"
    BY <2>1, Ids DEF Dispatch
  <2>r10. Dispatch(S, A!Callers["mach_notify_dead_name"].id) = "none"
    BY <2>1, Ids DEF Dispatch
  <2>r11. Dispatch(S, A!Callers["child_port_check_in"].id) = "none"
    BY <2>1, Ids DEF Dispatch
  <2> QED
    BY <2>r0, <2>r1, <2>r2, <2>r3, <2>r4, <2>r5, <2>r6, <2>r7, <2>r8, <2>r9,
        <2>r10, <2>r11, Routing DEF Routines, S
<1>3. \A r \in Routines : Dispatch(A!Subsystems["notify"], A!Callers[r].id)
                              = IF r \in In("notify") THEN r ELSE "none"
  <2> DEFINE S == A!Subsystems["notify"]
  <2>1. S.first = 64 /\ S.last = 72 /\ S.stub = <<"none",
           "mach_notify_port_deleted",
           "none",
           "none",
           "none",
           "mach_notify_port_destroyed",
           "mach_notify_no_senders",
           "mach_notify_send_once",
           "mach_notify_dead_name">>
    BY DEF A!Subsystems, A!do_notify_subsystem, A!Subsystem
  <2> HIDE DEF S
  <2>r0. Dispatch(S, A!Callers["exception_raise"].id) = "none"
    BY <2>1, Ids DEF Dispatch
  <2>r1. Dispatch(S, A!Callers["exception_raise_state"].id) = "none"
    BY <2>1, Ids DEF Dispatch
  <2>r2. Dispatch(S, A!Callers["exception_raise_state_identity"].id) = "none"
    BY <2>1, Ids DEF Dispatch
  <2>r3. Dispatch(S, A!Callers["mach_exception_raise"].id) = "none"
    BY <2>1, Ids DEF Dispatch
  <2>r4. Dispatch(S, A!Callers["mach_exception_raise_state"].id) = "none"
    BY <2>1, Ids DEF Dispatch
  <2>r5. Dispatch(S, A!Callers["mach_exception_raise_state_identity"].id) = "none"
    BY <2>1, Ids DEF Dispatch
  <2>r6. Dispatch(S, A!Callers["mach_notify_port_deleted"].id) = "mach_notify_port_deleted"
    BY <2>1, Ids DEF Dispatch
  <2>r7. Dispatch(S, A!Callers["mach_notify_port_destroyed"].id) = "mach_notify_port_destroyed"
    BY <2>1, Ids DEF Dispatch
  <2>r8. Dispatch(S, A!Callers["mach_notify_no_senders"].id) = "mach_notify_no_senders"
    BY <2>1, Ids DEF Dispatch
  <2>r9. Dispatch(S, A!Callers["mach_notify_send_once"].id) = "mach_notify_send_once"
    BY <2>1, Ids DEF Dispatch
  <2>r10. Dispatch(S, A!Callers["mach_notify_dead_name"].id) = "mach_notify_dead_name"
    BY <2>1, Ids DEF Dispatch
  <2>r11. Dispatch(S, A!Callers["child_port_check_in"].id) = "none"
    BY <2>1, Ids DEF Dispatch
  <2> QED
    BY <2>r0, <2>r1, <2>r2, <2>r3, <2>r4, <2>r5, <2>r6, <2>r7, <2>r8, <2>r9,
        <2>r10, <2>r11, Routing DEF Routines, S
<1>4. \A r \in Routines : Dispatch(A!Subsystems["child_port"], A!Callers[r].id)
                              = IF r \in In("child_port") THEN r ELSE "none"
  <2> DEFINE S == A!Subsystems["child_port"]
  <2>1. S.first = 10011 /\ S.last = 10011 /\ S.stub = <<"child_port_check_in">>
    BY DEF A!Subsystems, A!handle_child_port_subsystem, A!Subsystem
  <2> HIDE DEF S
  <2>r0. Dispatch(S, A!Callers["exception_raise"].id) = "none"
    BY <2>1, Ids DEF Dispatch
  <2>r1. Dispatch(S, A!Callers["exception_raise_state"].id) = "none"
    BY <2>1, Ids DEF Dispatch
  <2>r2. Dispatch(S, A!Callers["exception_raise_state_identity"].id) = "none"
    BY <2>1, Ids DEF Dispatch
  <2>r3. Dispatch(S, A!Callers["mach_exception_raise"].id) = "none"
    BY <2>1, Ids DEF Dispatch
  <2>r4. Dispatch(S, A!Callers["mach_exception_raise_state"].id) = "none"
    BY <2>1, Ids DEF Dispatch
  <2>r5. Dispatch(S, A!Callers["mach_exception_raise_state_identity"].id) = "none"
    BY <2>1, Ids DEF Dispatch
  <2>r6. Dispatch(S, A!Callers["mach_notify_port_deleted"].id) = "none"
    BY <2>1, Ids DEF Dispatch
  <2>r7. Dispatch(S, A!Callers["mach_notify_port_destroyed"].id) = "none"
    BY <2>1, Ids DEF Dispatch
  <2>r8. Dispatch(S, A!Callers["mach_notify_no_senders"].id) = "none"
    BY <2>1, Ids DEF Dispatch
  <2>r9. Dispatch(S, A!Callers["mach_notify_send_once"].id) = "none"
    BY <2>1, Ids DEF Dispatch
  <2>r10. Dispatch(S, A!Callers["mach_notify_dead_name"].id) = "none"
    BY <2>1, Ids DEF Dispatch
  <2>r11. Dispatch(S, A!Callers["child_port_check_in"].id) = "child_port_check_in"
    BY <2>1, Ids DEF Dispatch
  <2> QED
    BY <2>r0, <2>r1, <2>r2, <2>r3, <2>r4, <2>r5, <2>r6, <2>r7, <2>r8, <2>r9,
        <2>r10, <2>r11, Routing DEF Routines, S
<1> QED BY <1>1, <1>2, <1>3, <1>4, Names

\* The types in the headers are the ones the server's check uses.
LEMMA Types ==
    \A s \in Served : \A r \in In(s) :
        /\ A!UserTypes[s].requests[r] = A!RequestChecks[r].bytes
        /\ A!ServerTypes[s].requests[r] = A!RequestChecks[r].bytes
<1>1. \A r \in In("exc") :
        /\ A!UserTypes["exc"].requests[r] = A!RequestChecks[r].bytes
        /\ A!ServerTypes["exc"].requests[r] = A!RequestChecks[r].bytes
  BY Routing DEF A!UserTypes, A!ServerTypes, A!exc_requests, A!catch_exc_requests,
      A!catch_exc_replies, A!Header, A!TwoPorts, A!NDR, A!Word,
      A!ThreadState, A!Wide, A!OnePort, A!Body, A!Port, A!RequestChecks,
      A!Request_exception_raise, A!Request_exception_raise_state,
      A!Request_exception_raise_state_identity, A!Fixed
<1>2. \A r \in In("mach_exc") :
        /\ A!UserTypes["mach_exc"].requests[r] = A!RequestChecks[r].bytes
        /\ A!ServerTypes["mach_exc"].requests[r] = A!RequestChecks[r].bytes
  BY Routing DEF A!UserTypes, A!ServerTypes, A!mach_exc_requests,
      A!catch_mach_exc_requests, A!catch_mach_exc_replies, A!Header,
      A!TwoPorts, A!NDR, A!Word, A!ThreadState, A!Wide, A!OnePort, A!Body,
      A!Port, A!RequestChecks, A!Request_mach_exception_raise,
      A!Request_mach_exception_raise_state,
      A!Request_mach_exception_raise_state_identity, A!Fixed
<1>3. \A r \in In("notify") :
        /\ A!UserTypes["notify"].requests[r] = A!RequestChecks[r].bytes
        /\ A!ServerTypes["notify"].requests[r] = A!RequestChecks[r].bytes
  BY Routing DEF A!UserTypes, A!ServerTypes, A!notify_requests, A!do_notify_requests,
      A!do_notify_replies, A!Header, A!TwoPorts, A!NDR, A!Word,
      A!ThreadState, A!Wide, A!OnePort, A!Body, A!Port, A!RequestChecks,
      A!Request_mach_notify_port_deleted,
      A!Request_mach_notify_port_destroyed,
      A!Request_mach_notify_no_senders, A!Request_mach_notify_send_once,
      A!Request_mach_notify_dead_name, A!Fixed
<1>4. \A r \in In("child_port") :
        /\ A!UserTypes["child_port"].requests[r] = A!RequestChecks[r].bytes
        /\ A!ServerTypes["child_port"].requests[r] = A!RequestChecks[r].bytes
  BY Routing DEF A!UserTypes, A!ServerTypes, A!child_port_requests,
      A!handle_child_port_requests, A!handle_child_port_replies, A!Header,
      A!TwoPorts, A!NDR, A!Word, A!ThreadState, A!Wide, A!OnePort, A!Body,
      A!Port, A!RequestChecks, A!Request_child_port_check_in, A!Fixed
<1> QED BY <1>1, <1>2, <1>3, <1>4, Names

LEMMA LargestIs ==
    ASSUME NEW S \in SUBSET Int, NEW m \in S, \A n \in S : n =< m
    PROVE  Largest(S) \in S /\ \A n \in S : n =< Largest(S)
BY DEF Largest

\* What makes the two halves of a reply fit.
Answering(u, e, x) ==
    /\ e.id = u.id + 100 /\ e.id # MACH_NOTIFY_SEND_ONCE
    /\ e.bytes = x.bytes /\ e.cut = x.cut /\ e.news = x.room /\ u.news = x.room
    /\ u.buffer = x.bytes + Trailer
    /\ x.room \in Nat /\ x.cut = 4 * x.room /\ x.bytes \in Nat
    /\ x.cut = 0 => x.bytes = ReplyError
    /\ x.cut > 0 => x.bytes - x.cut > ReplyError

\* They fit in every routine that replies.
LEMMA AllAnswer ==
    \A r \in Rpcs : Answering(A!Callers[r], A!ReplyChecks[r], A!Stubs[r])
<1>1. Answering(A!Callers["exception_raise"], A!ReplyChecks["exception_raise"], A!Stubs["exception_raise"])
  <2>1. A!Callers["exception_raise"] = A!exception_raise /\ A!ReplyChecks["exception_raise"] = A!Reply_exception_raise
        /\ A!Stubs["exception_raise"] = A!Xexception_raise
    BY DEF A!Callers, A!ReplyChecks, A!Stubs
  <2> QED
    BY <2>1 DEF A!exception_raise, A!Reply_exception_raise,
        A!Xexception_raise, A!Caller, A!Header, A!TwoPorts, A!NDR, A!Word,
        A!COPY_SEND, A!Trailer, A!Expect, A!exc_replies, A!Routine,
        A!catch_exc_replies, A!Body, A!Port, A!ThreadState, Answering,
        Header, NDR, Word, Trailer, ReplyError, MACH_NOTIFY_SEND_ONCE
<1>2. Answering(A!Callers["exception_raise_state"], A!ReplyChecks["exception_raise_state"], A!Stubs["exception_raise_state"])
  <2>1. A!Callers["exception_raise_state"] = A!exception_raise_state /\ A!ReplyChecks["exception_raise_state"] = A!Reply_exception_raise_state
        /\ A!Stubs["exception_raise_state"] = A!Xexception_raise_state
    BY DEF A!Callers, A!ReplyChecks, A!Stubs
  <2> QED
    BY <2>1 DEF A!exception_raise_state, A!Reply_exception_raise_state,
        A!Xexception_raise_state, A!Caller, A!Header, A!NDR, A!Word,
        A!ThreadState, A!Trailer, A!Expect, A!exc_replies, A!Routine,
        A!catch_exc_replies, Answering, Header, NDR, Word, Trailer,
        ReplyError, MACH_NOTIFY_SEND_ONCE
<1>3. Answering(A!Callers["exception_raise_state_identity"], A!ReplyChecks["exception_raise_state_identity"], A!Stubs["exception_raise_state_identity"])
  <2>1. A!Callers["exception_raise_state_identity"] = A!exception_raise_state_identity /\ A!ReplyChecks["exception_raise_state_identity"] = A!Reply_exception_raise_state_identity
        /\ A!Stubs["exception_raise_state_identity"] = A!Xexception_raise_state_identity
    BY DEF A!Callers, A!ReplyChecks, A!Stubs
  <2> QED
    BY <2>1 DEF A!exception_raise_state_identity,
        A!Reply_exception_raise_state_identity,
        A!Xexception_raise_state_identity, A!Caller, A!Header, A!TwoPorts,
        A!NDR, A!Word, A!ThreadState, A!COPY_SEND, A!Trailer, A!Expect,
        A!exc_replies, A!Routine, A!catch_exc_replies, A!Body, A!Port,
        Answering, Header, NDR, Word, Trailer, ReplyError,
        MACH_NOTIFY_SEND_ONCE
<1>4. Answering(A!Callers["mach_exception_raise"], A!ReplyChecks["mach_exception_raise"], A!Stubs["mach_exception_raise"])
  <2>1. A!Callers["mach_exception_raise"] = A!mach_exception_raise /\ A!ReplyChecks["mach_exception_raise"] = A!Reply_mach_exception_raise
        /\ A!Stubs["mach_exception_raise"] = A!Xmach_exception_raise
    BY DEF A!Callers, A!ReplyChecks, A!Stubs
  <2> QED
    BY <2>1 DEF A!mach_exception_raise, A!Reply_mach_exception_raise,
        A!Xmach_exception_raise, A!Caller, A!Header, A!TwoPorts, A!NDR,
        A!Word, A!Wide, A!COPY_SEND, A!Trailer, A!Expect,
        A!mach_exc_replies, A!Routine, A!catch_mach_exc_replies, A!Body,
        A!Port, A!ThreadState, Answering, Header, NDR, Word, Trailer,
        ReplyError, MACH_NOTIFY_SEND_ONCE
<1>5. Answering(A!Callers["mach_exception_raise_state"], A!ReplyChecks["mach_exception_raise_state"], A!Stubs["mach_exception_raise_state"])
  <2>1. A!Callers["mach_exception_raise_state"] = A!mach_exception_raise_state /\ A!ReplyChecks["mach_exception_raise_state"] = A!Reply_mach_exception_raise_state
        /\ A!Stubs["mach_exception_raise_state"] = A!Xmach_exception_raise_state
    BY DEF A!Callers, A!ReplyChecks, A!Stubs
  <2> QED
    BY <2>1 DEF A!mach_exception_raise_state,
        A!Reply_mach_exception_raise_state, A!Xmach_exception_raise_state,
        A!Caller, A!Header, A!NDR, A!Word, A!Wide, A!ThreadState, A!Trailer,
        A!Expect, A!mach_exc_replies, A!Routine, A!catch_mach_exc_replies,
        Answering, Header, NDR, Word, Trailer, ReplyError,
        MACH_NOTIFY_SEND_ONCE
<1>6. Answering(A!Callers["mach_exception_raise_state_identity"], A!ReplyChecks["mach_exception_raise_state_identity"], A!Stubs["mach_exception_raise_state_identity"])
  <2>1. A!Callers["mach_exception_raise_state_identity"] = A!mach_exception_raise_state_identity /\ A!ReplyChecks["mach_exception_raise_state_identity"] = A!Reply_mach_exception_raise_state_identity
        /\ A!Stubs["mach_exception_raise_state_identity"] = A!Xmach_exception_raise_state_identity
    BY DEF A!Callers, A!ReplyChecks, A!Stubs
  <2> QED
    BY <2>1 DEF A!mach_exception_raise_state_identity,
        A!Reply_mach_exception_raise_state_identity,
        A!Xmach_exception_raise_state_identity, A!Caller, A!Header,
        A!TwoPorts, A!NDR, A!Word, A!Wide, A!ThreadState, A!COPY_SEND,
        A!Trailer, A!Expect, A!mach_exc_replies, A!Routine,
        A!catch_mach_exc_replies, A!Body, A!Port, Answering, Header, NDR,
        Word, Trailer, ReplyError, MACH_NOTIFY_SEND_ONCE
<1> QED BY <1>1, <1>2, <1>3, <1>4, <1>5, <1>6 DEF Rpcs

\* The buffer of the server's loop holds every reply of its routines.
LEMMA Fits ==
    \A s \in Served :
        /\ A!Subsystems[s].maxsize \in Nat /\ A!Subsystems[s].maxsize >= ReplyError
        /\ \A r \in Rpcs \cap In(s) : A!Stubs[r].bytes =< A!Subsystems[s].maxsize
<1>1. /\ A!Subsystems["exc"].maxsize \in Nat /\ A!Subsystems["exc"].maxsize >= ReplyError
      /\ \A r \in Rpcs \cap In("exc") : A!Stubs[r].bytes =< A!Subsystems["exc"].maxsize
  <2> DEFINE R == {A!catch_exc_replies[r] : r \in DOMAIN A!catch_exc_replies}
  <2>1. R = {36, 5228}
    BY DEF A!catch_exc_replies, A!Header, A!NDR, A!Word, A!ThreadState
  <2>2. A!Subsystems["exc"].maxsize = A!Largest(R)
    BY DEF A!Subsystems, A!catch_exc_subsystem, A!Subsystem
  <2>3. A!Largest(R) = 5228
    BY <2>1 DEF A!Largest
  <2>4. \A r \in In("exc") : A!Stubs[r].bytes =< 5228
    BY Routing DEF A!Stubs, A!Xexception_raise, A!Xexception_raise_state,
      A!Xexception_raise_state_identity, A!Routine, A!catch_exc_replies,
      A!Header, A!NDR, A!Word, A!ThreadState
  <2> QED BY <2>2, <2>3, <2>4 DEF ReplyError, Header, NDR, Word
<1>2. /\ A!Subsystems["mach_exc"].maxsize \in Nat /\ A!Subsystems["mach_exc"].maxsize >= ReplyError
      /\ \A r \in Rpcs \cap In("mach_exc") : A!Stubs[r].bytes =< A!Subsystems["mach_exc"].maxsize
  <2> DEFINE R == {A!catch_mach_exc_replies[r] : r \in DOMAIN A!catch_mach_exc_replies}
  <2>1. R = {36, 5228}
    BY DEF A!catch_mach_exc_replies, A!Header, A!NDR, A!Word, A!ThreadState
  <2>2. A!Subsystems["mach_exc"].maxsize = A!Largest(R)
    BY DEF A!Subsystems, A!catch_mach_exc_subsystem, A!Subsystem
  <2>3. A!Largest(R) = 5228
    BY <2>1 DEF A!Largest
  <2>4. \A r \in In("mach_exc") : A!Stubs[r].bytes =< 5228
    BY Routing DEF A!Stubs, A!Xmach_exception_raise,
      A!Xmach_exception_raise_state, A!Xmach_exception_raise_state_identity,
      A!Routine, A!catch_mach_exc_replies, A!Header, A!NDR, A!Word,
      A!ThreadState
  <2> QED BY <2>2, <2>3, <2>4 DEF ReplyError, Header, NDR, Word
<1>3. /\ A!Subsystems["notify"].maxsize \in Nat /\ A!Subsystems["notify"].maxsize >= ReplyError
      /\ \A r \in Rpcs \cap In("notify") : A!Stubs[r].bytes =< A!Subsystems["notify"].maxsize
  <2> DEFINE R == {A!do_notify_replies[r] : r \in DOMAIN A!do_notify_replies}
  <2>1. R = {36}
    BY DEF A!do_notify_replies, A!Header, A!NDR, A!Word, A!ThreadState
  <2>2. A!Subsystems["notify"].maxsize = A!Largest(R)
    BY DEF A!Subsystems, A!do_notify_subsystem, A!Subsystem
  <2>3. A!Largest(R) = 36
    BY <2>1 DEF A!Largest
  <2> QED BY <2>2, <2>3, Routing DEF ReplyError, Header, NDR, Word, Rpcs
<1>4. /\ A!Subsystems["child_port"].maxsize \in Nat /\ A!Subsystems["child_port"].maxsize >= ReplyError
      /\ \A r \in Rpcs \cap In("child_port") : A!Stubs[r].bytes =< A!Subsystems["child_port"].maxsize
  <2> DEFINE R == {A!handle_child_port_replies[r] : r \in DOMAIN A!handle_child_port_replies}
  <2>1. R = {36}
    BY DEF A!handle_child_port_replies, A!Header, A!NDR, A!Word,
      A!ThreadState
  <2>2. A!Subsystems["child_port"].maxsize = A!Largest(R)
    BY DEF A!Subsystems, A!handle_child_port_subsystem, A!Subsystem
  <2>3. A!Largest(R) = 36
    BY <2>1 DEF A!Largest
  <2> QED BY <2>2, <2>3, Routing DEF ReplyError, Header, NDR, Word, Rpcs
<1> QED BY <1>1, <1>2, <1>3, <1>4, Names

-----------------------------------------------------------------------------
(* The messages.                                                            *)

\* A request that a caller's stub may have packed.
Packed(u, m) ==
    \E codes \in Nat, states \in Nat, right \in 0 .. 21 :
        /\ ~TooLarge(u, codes, states)
        /\ m = Pack(u, codes, states, right)

\* The answers that a routine may get.
Answered(u, x, m) ==
    \/ m = DeadReply
    \/ m = ErrorReply(u.id, "MIG_BAD_ID")
    \/ m = ErrorReply(u.id, "KERN_FAILURE")
    \/ \E n \in Nat : n =< x.room /\ m = GoodReply(u.id, x, n)

\* A packed request fits its structure and passes the check.
LEMMA GoodRequest ==
    ASSUME NEW u, NEW l, NEW m, Agrees(u, l), Packed(u, m)
    PROVE  /\ CheckRequest(l, m) = "KERN_SUCCESS"
           /\ m.size \in Nat /\ m.size =< l.bytes
           /\ m.id = u.id
<1>1. PICK codes \in Nat, states \in Nat, right \in 0 .. 21 :
          ~TooLarge(u, codes, states) /\ m = Pack(u, codes, states, right)
  BY DEF Packed
<1>2. /\ m.id = u.id /\ m.descs = l.descs /\ m.codes = codes /\ m.states = states
      /\ m.size = Bytes(l, codes, states) /\ m.at = Moved(l, codes)
      /\ l.disposition # AnyRight /\ l.descs > 0 => m.disposition = l.disposition
  BY <1>1 DEF Pack, Agrees, Bytes, Moved
<1>3. "code" # "state"
  OBVIOUS
<1>4. CASE l.arrays = {}
  <2>1. m.size = l.bytes /\ Least(l) = l.bytes
    BY <1>2, <1>4 DEF Bytes, Agrees, Least
  <2> QED
    BY <1>2, <1>4, <2>1 DEF CheckRequest, WellSized, RightType, CodesFit, StatesFit, Agrees
<1>5. CASE l.arrays = {"code"}
  <2>1. codes =< l.codes
    BY <1>1, <1>5 DEF TooLarge, Agrees
  <2>2. CASE l.unit = 4
    <3>1. m.size = Least(l) + 4 * codes /\ Least(l) = l.bytes - 4 * l.codes /\ Least(l) \in Nat
      BY <1>2, <1>3, <1>5, <2>2 DEF Bytes, Agrees, Least
    <3>2. WellSized(l, m) /\ RightType(l, m) /\ m.size \in Nat /\ m.size =< l.bytes
      BY <1>2, <2>1, <3>1 DEF WellSized, RightType, Agrees
    <3>3. CodesFit(l, m)
      BY <1>2, <1>3, <1>5, <2>1, <2>2, <3>1 DEF CodesFit, Agrees
    <3>4. StatesFit(l, m)
      BY <1>3, <1>5 DEF StatesFit
    <3> QED BY <1>2, <3>2, <3>3, <3>4 DEF CheckRequest
  <2>3. CASE l.unit = 8
    <3>1. m.size = Least(l) + 8 * codes /\ Least(l) = l.bytes - 8 * l.codes /\ Least(l) \in Nat
      BY <1>2, <1>3, <1>5, <2>3 DEF Bytes, Agrees, Least
    <3>2. WellSized(l, m) /\ RightType(l, m) /\ m.size \in Nat /\ m.size =< l.bytes
      BY <1>2, <2>1, <3>1 DEF WellSized, RightType, Agrees
    <3>3. CodesFit(l, m)
      BY <1>2, <1>3, <1>5, <2>1, <2>3, <3>1 DEF CodesFit, Agrees
    <3>4. StatesFit(l, m)
      BY <1>3, <1>5 DEF StatesFit
    <3> QED BY <1>2, <3>2, <3>3, <3>4 DEF CheckRequest
  <2> QED BY <2>2, <2>3 DEF Agrees
<1>6. CASE l.arrays = {"code", "state"}
  <2>1. codes =< l.codes /\ states =< l.states
    BY <1>1, <1>6 DEF TooLarge, Agrees
  <2>2. CASE l.unit = 4
    <3>1. /\ m.size = Least(l) + 4 * codes + 4 * states
          /\ Least(l) = l.bytes - 4 * l.codes - 4 * l.states /\ Least(l) \in Nat
      BY <1>2, <1>6, <2>2 DEF Bytes, Agrees, Least, Word
    <3>2. WellSized(l, m) /\ RightType(l, m) /\ m.size \in Nat /\ m.size =< l.bytes
      BY <1>2, <2>1, <3>1 DEF WellSized, RightType, Agrees
    <3>3. CodesFit(l, m)
      BY <1>2, <1>6, <2>1, <2>2, <3>1 DEF CodesFit, Agrees
    <3>4. StatesFit(l, m)
      BY <1>2, <1>6, <2>1, <2>2, <3>1 DEF StatesFit, Agrees, Word
    <3> QED BY <1>2, <3>2, <3>3, <3>4 DEF CheckRequest
  <2>3. CASE l.unit = 8
    <3>1. /\ m.size = Least(l) + 8 * codes + 4 * states
          /\ Least(l) = l.bytes - 8 * l.codes - 4 * l.states /\ Least(l) \in Nat
      BY <1>2, <1>6, <2>3 DEF Bytes, Agrees, Least, Word
    <3>2. WellSized(l, m) /\ RightType(l, m) /\ m.size \in Nat /\ m.size =< l.bytes
      BY <1>2, <2>1, <3>1 DEF WellSized, RightType, Agrees
    <3>3. CodesFit(l, m)
      BY <1>2, <1>6, <2>1, <2>3, <3>1 DEF CodesFit, Agrees
    <3>4. StatesFit(l, m)
      BY <1>2, <1>6, <2>1, <2>3, <3>1 DEF StatesFit, Agrees, Word
    <3> QED BY <1>2, <3>2, <3>3, <3>4 DEF CheckRequest
  <2> QED BY <2>2, <2>3 DEF Agrees
<1> QED BY <1>4, <1>5, <1>6 DEF Agrees

\* An answer fits the caller's buffer and is taken for what it is.
LEMMA GoodAnswer ==
    ASSUME NEW u, NEW e, NEW x, NEW m, u.id \in Nat,
           Answering(u, e, x), Answered(u, x, m)
    PROVE  /\ m.size + Trailer =< u.buffer
           /\ Result(u, e, m) \in {"MIG_SERVER_DIED", "MIG_BAD_ID", "KERN_FAILURE", "KERN_SUCCESS"}
           /\ Result(u, e, m) = "KERN_SUCCESS" => m.ret = "KERN_SUCCESS"
           /\ m \in Answers
           /\ m.size =< x.bytes
<1> USE DEF Header, NDR, Word, Trailer, ReplyError
<1>0. x.bytes >= 36
  BY DEF Answering
<1>1. CASE m = DeadReply
  <2>1. m.id = MACH_NOTIFY_SEND_ONCE /\ m.size = 24 /\ m.news = 0 /\ m \in Answers
    BY <1>1 DEF DeadReply, MACH_NOTIFY_SEND_ONCE, Answers, RetCodes
  <2>2. Result(u, e, m) = "MIG_SERVER_DIED"
    BY <2>1 DEF Result, CheckReply, Answering
  <2> QED BY <1>0, <2>1, <2>2 DEF Answering
<1>2. ASSUME NEW ret \in {"MIG_BAD_ID", "KERN_FAILURE"}, m = ErrorReply(u.id, ret)
      PROVE  /\ Result(u, e, m) = ret /\ m \in Answers /\ m.size = 36
  <2>1. m.id = u.id + 100 /\ m.size = 36 /\ m.ret = ret /\ m.news = 0 /\ ret # "KERN_SUCCESS"
        /\ m \in Answers
    BY <1>2 DEF ErrorReply, ReplyId, Answers, RetCodes
  <2>2. SizeExpected(e, m) /\ m.id = e.id
    BY <2>1 DEF SizeExpected, Answering
  <2>3. CheckReply(e, m) = ret
    BY <2>1, <2>2 DEF CheckReply
  <2> QED BY <2>1, <2>3 DEF Result
<1>3. CASE \E n \in Nat : n =< x.room /\ m = GoodReply(u.id, x, n)
  <2>1. PICK n \in Nat : n =< x.room /\ m = GoodReply(u.id, x, n)
    BY <1>3
  <2>2. /\ m.id = e.id /\ m.size = x.bytes - x.cut + 4 * n /\ m.ret = "KERN_SUCCESS"
        /\ m.news = n /\ m.size \in Nat /\ m.size =< x.bytes /\ m.size >= x.bytes - x.cut
    BY <2>1 DEF GoodReply, ReplyId, Answering
  <2>3. SizeExpected(e, m)
    BY <2>2 DEF SizeExpected, Answering
  <2>4. NewsFit(e, m)
    BY <2>1, <2>2 DEF NewsFit, Answering
  <2>5. Result(u, e, m) = "KERN_SUCCESS"
    BY <2>1, <2>2, <2>3, <2>4 DEF Result, CheckReply, Answering
  <2>6. m \in Answers
    BY <2>1, <2>2 DEF GoodReply, Answers, RetCodes, ReplyId
  <2> QED BY <2>2, <2>5, <2>6 DEF Answering
<1> QED BY <1>0, <1>1, <1>2, <1>3 DEF Answered, Answering

-----------------------------------------------------------------------------
(* The calls.                                                               *)

\* The answer to q would arrive where its caller looks.
Current(q) == ~q.oneway /\ q.port = replyPort[q.client]

\* A pending request is well packed and is not newer than its caller's last
\* call; if its answer can still arrive, it belongs to that very call, which
\* waits for it and has got no other.
SentWell ==
    \A q \in Pending :
        /\ q.serial =< serial[q.client] /\ q.port =< replyPort[q.client]
        /\ q.oneway = A!Callers[q.routine].oneway
        /\ Packed(A!Callers[q.routine], q.message)
        /\ Current(q) => /\ waiting[q.client] /\ q.serial = serial[q.client]
                         /\ q.routine = asked[q.client] /\ inbox[q.client] = {}

SameCall(p, q) == p.client = q.client /\ p.serial = q.serial

Distinct ==
    /\ \A p, q \in queue : SameCall(p, q) => p = q
    /\ busy # Idle => \A q \in queue : ~SameCall(busy, q)

\* A message in a reply port is the only one, and answers the call that waits.
Arrived ==
    \A c \in Client : \A m \in inbox[c] :
        /\ waiting[c] /\ m.serial = serial[c] /\ inbox[c] = {m}
        /\ Answered(A!Callers[asked[c]], A!Stubs[asked[c]], m.message)
        /\ m.message.ret = "KERN_SUCCESS" =>
               <<c, serial[c]>> \in executed /\ asked[c] \in In(served)

Carried ==
    busy # Idle /\ busy.stage = "handled" =>
        <<busy.client, busy.serial>> \in executed /\ busy.routine \in In(served)

\* A thread gives up at most one port in a call, and only calls with a reply
\* wait.
Ports ==
    \A c \in Client :
        /\ replyPort[c] =< serial[c]
        /\ waiting[c] => replyPort[c] < serial[c] /\ asked[c] \in Rpcs

IInv == TypeOK /\ SentWell /\ Distinct /\ Arrived /\ Carried /\ Ports /\ OwnAnswer

LEMMA OneWays ==
    \A r \in Routines : A!Callers[r].oneway \in BOOLEAN /\ (~A!Callers[r].oneway <=> r \in Rpcs)
<1>1. \A r \in Rpcs : A!Callers[r].oneway = FALSE
  BY Ids DEF Rpcs
<1>2. \A r \in Routines \ Rpcs : A!Callers[r].oneway = TRUE
  BY Ids DEF Rpcs, Routines
<1> QED BY <1>1, <1>2

LEMMA IdIsNat == \A r \in Routines : A!Callers[r].id \in Nat
BY Ids DEF Routines

\* What the server finds for a pending request.
LEMMA VerdictIs ==
    ASSUME IInv, NEW q \in Pending
    PROVE  IF q.routine \in In(served)
           THEN /\ StubOf(q) = q.routine /\ Verdict(q) = "KERN_SUCCESS"
                /\ q.message.size =< A!RequestChecks[q.routine].bytes
           ELSE StubOf(q) = "none" /\ Verdict(q) = "MIG_BAD_ID"
<1>1. q.routine \in Routines /\ served \in Served
  BY Names DEF IInv, TypeOK, Pending, Requests
<1>2. Agrees(A!Callers[q.routine], A!RequestChecks[q.routine])
  BY <1>1, AllAgree
<1>3. Packed(A!Callers[q.routine], q.message)
  BY DEF IInv, SentWell
<1>4. /\ CheckRequest(A!RequestChecks[q.routine], q.message) = "KERN_SUCCESS"
      /\ q.message.size =< A!RequestChecks[q.routine].bytes
      /\ q.message.id = A!Callers[q.routine].id
  BY <1>2, <1>3, GoodRequest
<1>5. StubOf(q) = IF q.routine \in In(served) THEN q.routine ELSE "none"
  BY <1>1, <1>4, Dispatches, AnyArch DEF StubOf
<1>6. q.routine # "none"
  BY <1>1 DEF Routines
<1> QED BY <1>4, <1>5, <1>6, AnyArch DEF Verdict

\* Pending requests are requests.
LEMMA PendingTyped ==
    ASSUME TypeOK
    PROVE  /\ Pending \subseteq Requests({"sent", "taken", "handled"})
           /\ busy # Idle => busy \in Pending
           /\ Idle \notin Requests({"sent", "taken", "handled"})
<1>1. queue \subseteq Requests({"sent", "taken", "handled"})
  BY DEF TypeOK, Requests
<1>2. busy # Idle => busy \in Requests({"sent", "taken", "handled"})
  BY DEF TypeOK, Requests
<1>3. Idle \notin Requests({"sent", "taken", "handled"})
  BY DEF Idle, Requests
<1> QED BY <1>1, <1>2, <1>3 DEF Pending

LEMMA InitIInv == Init => IInv
<1> SUFFICES ASSUME Init PROVE IInv
  OBVIOUS
<1>1. TypeOK
  <2>1. "exception_raise" \in Called
    BY Names DEF Routines
  <2>2. None \in [ret : Outcomes, serial : 0 .. MaxCalls] /\ 0 \in 0 .. MaxCalls
    BY CallsAssumption DEF None, Outcomes, RetCodes
  <2> QED BY <2>1, <2>2 DEF Init, TypeOK
<1>2. Pending = {}
  BY DEF Init, Pending
<1>3. SentWell /\ Distinct /\ Arrived /\ Carried /\ Ports
  BY <1>2 DEF Init, SentWell, Distinct, Arrived, Carried, Ports, Idle
<1>4. OwnAnswer
  BY DEF Init, OwnAnswer, None
<1> QED BY <1>1, <1>3, <1>4 DEF IInv

\* The steps in which the server answers requests Q with the same message:
\* a reply to the request at hand, or the notice of its death to all.
LEMMA Replying ==
    ASSUME IInv, NEW Q, NEW message \in Answers,
           \/ Q = {busy} /\ busy # Idle /\ queue' = queue
           \/ Q = Pending /\ queue' = {},
           \A q \in Q : ~q.oneway =>
               /\ Answered(A!Callers[q.routine], A!Stubs[q.routine], message)
               /\ message.ret = "KERN_SUCCESS" =>
                      <<q.client, q.serial>> \in executed /\ q.routine \in In(served),
           Reply(Q, message), busy' = Idle, up' \in BOOLEAN,
           UNCHANGED <<fixed, callerVars, executed>>
    PROVE  IInv'
<1> USE DEF fixed, callerVars
<1>0. TypeOK /\ Q \subseteq Pending
  BY PendingTyped DEF IInv
<1>1. Pending' \subseteq Pending \ Q
  <2>1. Pending' = queue'
    BY DEF Pending
  <2>2. ASSUME Q = {busy}, busy # Idle, queue' = queue  PROVE busy \notin queue
    BY <2>2 DEF IInv, Distinct, SameCall
  <2> QED BY <2>1, <2>2 DEF Pending
<1>2. TypeOK'
  <2>1. ASSUME NEW c \in Client
        PROVE  Arrivals(c, Q, message) \subseteq [serial : 1 .. MaxCalls, message : Answers]
    BY <1>0, PendingTyped DEF Arrivals, Requests
  <2>2. inbox' \in [Client -> SUBSET [serial : 1 .. MaxCalls, message : Answers]]
    BY <1>0, <2>1 DEF Reply, TypeOK
  <2>3. queue' \subseteq Requests({"sent"})
    BY <1>0 DEF TypeOK
  <2> QED BY <1>0, <2>2, <2>3 DEF TypeOK
<1>3. ASSUME NEW c \in Client, NEW m \in inbox'[c]
      PROVE  m \in inbox[c] \/ \E q \in Q : /\ q.client = c /\ Current(q)
                                            /\ m = [serial |-> q.serial, message |-> message]
  BY <1>3 DEF Reply, Arrivals, Current
<1>4. ASSUME NEW c \in Client, NEW q \in Pending', q.client = c, Current(q)
      PROVE  inbox'[c] = {}
  <2>1. inbox[c] = {} /\ q.serial = serial[c] /\ q \in Pending /\ q \notin Q /\ q \in queue
    BY <1>1, <1>4 DEF IInv, SentWell, Pending
  <2>2. ASSUME NEW p \in Q, p.client = c, Current(p) PROVE FALSE
    <3>1. p \in Pending /\ p.serial = serial[c]
      BY <1>0, <2>2 DEF IInv, SentWell
    <3>2. CASE Q = {busy} /\ busy # Idle
      BY <2>1, <2>2, <3>1, <3>2, <1>4 DEF IInv, Distinct, SameCall
    <3>3. CASE Q = Pending
      BY <2>1, <3>3
    <3> QED BY <3>2, <3>3
  <2> QED BY <1>3, <2>1, <2>2
<1>5. SentWell'
  <2> SUFFICES ASSUME NEW q \in Pending' PROVE
        /\ q.serial =< serial[q.client] /\ q.port =< replyPort[q.client]
        /\ q.oneway = A!Callers[q.routine].oneway
        /\ Packed(A!Callers[q.routine], q.message)
        /\ Current(q) => /\ waiting[q.client] /\ q.serial = serial[q.client]
                         /\ q.routine = asked[q.client] /\ inbox'[q.client] = {}
    BY DEF SentWell, Current
  <2>1. q \in Pending /\ q.client \in Client
    BY <1>0, <1>1, PendingTyped DEF Requests
  <2> QED BY <1>4, <2>1 DEF IInv, SentWell
<1>6. Distinct'
  BY <1>0, PendingTyped DEF IInv, Distinct
<1>7. Arrived'
  <2> SUFFICES ASSUME NEW c \in Client, NEW m \in inbox'[c] PROVE
        /\ waiting[c] /\ m.serial = serial[c] /\ inbox'[c] = {m}
        /\ Answered(A!Callers[asked[c]], A!Stubs[asked[c]], m.message)
        /\ m.message.ret = "KERN_SUCCESS" =>
               <<c, serial[c]>> \in executed /\ asked[c] \in In(served)
    BY DEF Arrived, In
  <2>1. CASE m \in inbox[c]
    <3>1. \A q \in Q : ~(q.client = c /\ Current(q))
      BY <1>0, <2>1 DEF IInv, SentWell
    <3>2. inbox'[c] = inbox[c]
      BY <1>3, <3>1 DEF Reply, Arrivals
    <3> QED BY <2>1, <3>2 DEF IInv, Arrived
  <2>2. ASSUME NEW q \in Q, q.client = c, Current(q),
               m = [serial |-> q.serial, message |-> message]
        PROVE  /\ waiting[c] /\ m.serial = serial[c] /\ inbox'[c] = {m}
               /\ Answered(A!Callers[asked[c]], A!Stubs[asked[c]], m.message)
               /\ m.message.ret = "KERN_SUCCESS" =>
                      <<c, serial[c]>> \in executed /\ asked[c] \in In(served)
    <3>1. \A p \in Q : p.client = c /\ Current(p) =>
              /\ waiting[c] /\ p.serial = serial[c] /\ p.routine = asked[c] /\ inbox[c] = {}
      BY <1>0 DEF IInv, SentWell
    <3>2. \A n \in inbox'[c] : n = m
      BY <1>3, <2>2, <3>1
    <3>3. waiting[c] /\ m.serial = serial[c] /\ inbox'[c] = {m} /\ m.message = message
      BY <2>2, <3>1, <3>2
    <3>4. ~q.oneway /\ q.routine = asked[c] /\ q.serial = serial[c]
      BY <2>2, <3>1 DEF Current
    <3> QED BY <2>2, <3>3, <3>4
  <2> QED BY <1>3, <2>1, <2>2
<1>8. Carried' /\ Ports' /\ OwnAnswer'
  BY AnyArch DEF IInv, Carried, Ports, OwnAnswer, Stub
<1> QED BY <1>2, <1>5, <1>6, <1>7, <1>8 DEF IInv

-----------------------------------------------------------------------------
(* The server's steps.                                                      *)
LEMMA TakeStep ==
    ASSUME IInv, NEW q \in queue, Take(q), UNCHANGED callerVars
    PROVE  IInv'
<1> USE DEF fixed, callerVars
<1>0. /\ TypeOK /\ busy = Idle /\ q \in Requests({"sent"}) /\ queue' = queue \ {q}
      /\ busy' = [q EXCEPT !.stage = "taken"] /\ inbox' = inbox
  BY DEF IInv, TypeOK, Take
<1>1. /\ busy' \in Requests({"taken"}) /\ busy'.stage = "taken"
      /\ busy'.client = q.client /\ busy'.serial = q.serial /\ busy'.port = q.port
      /\ busy'.routine = q.routine /\ busy'.oneway = q.oneway /\ busy'.message = q.message
  BY <1>0 DEF Requests
<1>2. TypeOK'
  <2>1. Requests({"taken"}) \subseteq Requests({"taken", "handled"})
    BY DEF Requests
  <2> QED BY <1>0, <1>1, <2>1 DEF TypeOK, Take
<1>3. \A p \in Pending' : p \in queue \/ p = busy'
  BY <1>0 DEF Pending
<1>4. SentWell'
  <2> SUFFICES ASSUME NEW p \in Pending' PROVE
        /\ p.serial =< serial[p.client] /\ p.port =< replyPort[p.client]
        /\ p.oneway = A!Callers[p.routine].oneway
        /\ Packed(A!Callers[p.routine], p.message)
        /\ ~p.oneway /\ p.port = replyPort[p.client] =>
              /\ waiting[p.client] /\ p.serial = serial[p.client]
              /\ p.routine = asked[p.client] /\ inbox[p.client] = {}
    BY <1>0 DEF SentWell, Current
  <2>1. PICK r \in Pending :
            /\ p.client = r.client /\ p.serial = r.serial /\ p.port = r.port
            /\ p.routine = r.routine /\ p.oneway = r.oneway /\ p.message = r.message
    BY <1>1, <1>3 DEF Pending
  <2> QED BY <2>1 DEF IInv, SentWell, Current
<1>5. Distinct'
  <2>1. \A p \in queue' : ~SameCall(q, p)
    BY <1>0 DEF IInv, Distinct
  <2>2. \A p \in queue' : ~SameCall(busy', p)
    BY <1>1, <2>1 DEF SameCall
  <2>3. \A p, r \in queue' : SameCall(p, r) => p = r
    BY <1>0 DEF IInv, Distinct
  <2> QED BY <2>2, <2>3 DEF Distinct, SameCall
<1>6. Arrived'
  BY <1>0 DEF IInv, Arrived, Take
<1>7. Carried'
  BY <1>1 DEF Carried
<1>8. Ports' /\ OwnAnswer'
  BY AnyArch DEF IInv, Ports, OwnAnswer, Stub, Take
<1> QED BY <1>2, <1>4, <1>5, <1>6, <1>7, <1>8 DEF IInv

LEMMA HandleStep ==
    ASSUME IInv, Handle, UNCHANGED callerVars
    PROVE  IInv'
<1> USE DEF fixed, callerVars
<1>0. /\ TypeOK /\ busy # Idle /\ busy \in Requests({"taken", "handled"}) /\ queue' = queue
      /\ busy' = [busy EXCEPT !.stage = "handled"] /\ inbox' = inbox
      /\ executed' = executed \cup {<<busy.client, busy.serial>>}
      /\ Verdict(busy) = "KERN_SUCCESS"
  BY DEF IInv, TypeOK, Handle, Stage
<1>1. /\ busy' \in Requests({"taken", "handled"}) /\ busy'.stage = "handled"
      /\ busy'.client = busy.client /\ busy'.serial = busy.serial /\ busy'.port = busy.port
      /\ busy'.routine = busy.routine /\ busy'.oneway = busy.oneway
      /\ busy'.message = busy.message /\ <<busy.client, busy.serial>> \in Client \X (1 .. MaxCalls)
  BY <1>0 DEF Requests
<1>2. TypeOK'
  BY <1>0, <1>1 DEF TypeOK, Handle
<1>3. \A p \in Pending' : p \in Pending \/ p = busy'
  BY <1>0 DEF Pending
<1>4. busy \in Pending
  BY <1>0 DEF Pending
<1>5. SentWell'
  <2> SUFFICES ASSUME NEW p \in Pending' PROVE
        /\ p.serial =< serial[p.client] /\ p.port =< replyPort[p.client]
        /\ p.oneway = A!Callers[p.routine].oneway
        /\ Packed(A!Callers[p.routine], p.message)
        /\ ~p.oneway /\ p.port = replyPort[p.client] =>
              /\ waiting[p.client] /\ p.serial = serial[p.client]
              /\ p.routine = asked[p.client] /\ inbox[p.client] = {}
    BY <1>0 DEF SentWell, Current
  <2>1. PICK r \in Pending :
            /\ p.client = r.client /\ p.serial = r.serial /\ p.port = r.port
            /\ p.routine = r.routine /\ p.oneway = r.oneway /\ p.message = r.message
    BY <1>1, <1>3, <1>4
  <2> QED BY <2>1 DEF IInv, SentWell, Current
<1>6. Distinct'
  BY <1>0, <1>1 DEF IInv, Distinct, SameCall
<1>7. Arrived'
  BY <1>0 DEF IInv, Arrived, Handle
<1>8. Carried'
  <2>1. busy.routine \in In(served)
    BY <1>0, <1>4, VerdictIs
  <2> QED BY <1>0, <1>1, <2>1 DEF Carried, Handle, In
<1>9. Ports' /\ OwnAnswer'
  BY <1>0, AnyArch DEF IInv, Ports, OwnAnswer, Stub, Handle
<1> QED BY <1>2, <1>5, <1>6, <1>7, <1>8, <1>9 DEF IInv

\* What is answered to the request at hand.
LEMMA AnsweringStep ==
    ASSUME IInv, Reject \/ (\E n \in StateCounts \cup {0} : Answer(n)), UNCHANGED callerVars
    PROVE  IInv'
<1>0. /\ TypeOK /\ busy # Idle /\ busy \in Pending /\ busy.routine \in Routines
      /\ queue' = queue /\ busy' = Idle /\ up' \in BOOLEAN
      /\ UNCHANGED <<fixed, callerVars, executed>>
  BY Names DEF IInv, TypeOK, Reject, Answer, Stage, Pending, Requests, fixed
<1>1. busy.message.id = A!Callers[busy.routine].id /\ A!Callers[busy.routine].id \in Nat
  BY <1>0, AllAgree, GoodRequest, IdIsNat DEF IInv, SentWell
<1>2. ~busy.oneway => busy.routine \in Rpcs
  BY <1>0, OneWays DEF IInv, SentWell
<1>3. ASSUME NEW ret \in {"MIG_BAD_ID", "KERN_FAILURE"},
             Reply({busy}, ErrorReply(busy.message.id, ret))
      PROVE  IInv'
  <2>1. ErrorReply(busy.message.id, ret) \in Answers
    BY <1>1 DEF ErrorReply, Answers, RetCodes, ReplyId, ReplyError, Header, NDR, Word
  <2>2. ErrorReply(busy.message.id, ret).ret # "KERN_SUCCESS"
    BY DEF ErrorReply
  <2>3. Answered(A!Callers[busy.routine], A!Stubs[busy.routine],
                 ErrorReply(busy.message.id, ret))
    BY <1>1 DEF Answered
  <2> QED BY <1>0, <1>3, <2>1, <2>2, <2>3, Replying
<1>4. CASE Reject
  <2>1. Verdict(busy) = "MIG_BAD_ID"
    BY <1>0, <1>4, VerdictIs DEF Reject
  <2> QED BY <1>3, <1>4, <2>1 DEF Reject
<1>5. ASSUME NEW n \in StateCounts \cup {0}, Answer(n) PROVE IInv'
  <2>1. /\ busy.routine \in In(served) /\ <<busy.client, busy.serial>> \in executed
    BY <1>5 DEF IInv, Carried, Answer, Stage
  <2>2. StubOf(busy) = busy.routine
    BY <1>0, <2>1, VerdictIs
  <2> DEFINE x == A!Stubs[busy.routine]
  <2>3. n =< x.room /\ n \in Nat
    BY <1>5, <2>2, AnyArch, CountsAssumption DEF Answer
  <2>4. CASE Reply({busy}, GoodReply(busy.message.id, x, n))
    <3>1. CASE busy.oneway
      <4>1. Reply({busy}, DeadReply)
        BY <2>4, <3>1 DEF Reply, Arrivals
      <4>2. DeadReply \in Answers
        BY DEF DeadReply, Answers, RetCodes, MACH_NOTIFY_SEND_ONCE, Header
      <4> QED BY <1>0, <3>1, <4>1, <4>2, Replying
    <3>2. CASE ~busy.oneway
      <4>1. Answered(A!Callers[busy.routine], x, GoodReply(busy.message.id, x, n))
        BY <1>1, <2>3 DEF Answered
      <4>2. GoodReply(busy.message.id, x, n) \in Answers
        BY <1>1, <1>2, <3>2, <4>1, AllAnswer, GoodAnswer
      <4> QED BY <1>0, <2>1, <2>4, <4>1, <4>2, Replying
    <3> QED BY <3>1, <3>2, <1>0, PendingTyped DEF Requests
  <2>5. CASE Reply({busy}, ErrorReply(busy.message.id, "KERN_FAILURE"))
    BY <1>3, <2>5
  <2> QED BY <1>5, <2>2, <2>4, <2>5, AnyArch DEF Answer
<1> QED BY <1>4, <1>5

LEMMA DownStep ==
    ASSUME IInv, GoesDown, UNCHANGED <<fixed, callerVars, executed>>
    PROVE  IInv'
<1>1. DeadReply \in Answers /\ DeadReply.ret # "KERN_SUCCESS"
  BY DEF DeadReply, Answers, RetCodes, MACH_NOTIFY_SEND_ONCE, Header
<1>2. \A q \in Pending : Answered(A!Callers[q.routine], A!Stubs[q.routine], DeadReply)
  BY DEF Answered
<1>3. queue' = {} /\ busy' = Idle /\ up' \in BOOLEAN /\ Reply(Pending, DeadReply)
  BY DEF GoesDown
<1> QED BY <1>1, <1>2, <1>3, Replying

LEMMA ServerStep == IInv /\ Server => IInv'
BY TakeStep, HandleStep, AnsweringStep, DownStep DEF Server, Serve, Abort, Die, callerVars

-----------------------------------------------------------------------------
(* The callers' steps.                                                      *)

\* A thread that is not waiting has no answer on its way.
LEMMA Quiet ==
    ASSUME IInv, NEW c \in Client, ~waiting[c]
    PROVE  inbox[c] = {} /\ \A q \in Pending : q.client = c => ~Current(q)
<1>1. \A m \in inbox[c] : FALSE
  BY DEF IInv, Arrived
<1>2. \A q \in Pending : q.client = c => ~Current(q)
  BY DEF IInv, SentWell
<1> QED BY <1>1, <1>2

\* A call that ends without a message: its arguments are refused, or it cannot
\* be sent.
LEMMA FailingStep ==
    ASSUME IInv, NEW c \in Client, NEW r \in Called, NEW ret \in Outcomes,
           ret # "KERN_SUCCESS", Enter(c, r), Returns(c, ret, serial[c] + 1),
           UNCHANGED <<replyPort, inbox>> \/ GiveUpPort(c),
           UNCHANGED <<fixed, serverVars, waiting>>
    PROVE  IInv'
<1> USE DEF fixed, serverVars
<1>a. TypeOK /\ ~waiting[c] /\ inbox[c] = {} /\ Pending' = Pending
  BY Quiet DEF IInv, Enter, Pending
<1>b. inbox' = inbox
  BY <1>a DEF GiveUpPort, TypeOK
<1>0. /\ TypeOK /\ ~waiting[c] /\ inbox[c] = {} /\ inbox' = inbox
      /\ serial' = [serial EXCEPT ![c] = @ + 1] /\ serial[c] + 1 \in 1 .. MaxCalls
      /\ asked' = [asked EXCEPT ![c] = r] /\ Pending' = Pending
  BY <1>a, <1>b, CallsAssumption DEF TypeOK, Enter
<1>1. \/ replyPort' = replyPort
      \/ replyPort' = [replyPort EXCEPT ![c] = @ + 1]
  BY DEF GiveUpPort
<1>2. replyPort[c] =< serial[c] /\ replyPort[c] \in Nat /\ serial[c] \in Nat
  BY <1>0 DEF IInv, Ports, TypeOK
<1>3. TypeOK'
  <2>1. replyPort' \in [Client -> 0 .. MaxCalls]
    <3>1. replyPort[c] + 1 \in 0 .. MaxCalls
      BY <1>0, <1>2, CallsAssumption
    <3> QED BY <1>0, <1>1, <3>1 DEF TypeOK
  <2>2. serial' \in [Client -> 0 .. MaxCalls] /\ asked' \in [Client -> Called]
    BY <1>0 DEF TypeOK
  <2>3. outcome' \in [Client -> [ret : Outcomes, serial : 0 .. MaxCalls]]
    BY <1>0 DEF TypeOK, Returns
  <2> QED BY <1>0, <2>1, <2>2, <2>3 DEF TypeOK
<1>4. SentWell'
  <2> SUFFICES ASSUME NEW q \in Pending PROVE
        /\ q.serial =< serial'[q.client] /\ q.port =< replyPort'[q.client]
        /\ q.oneway = A!Callers[q.routine].oneway
        /\ Packed(A!Callers[q.routine], q.message)
        /\ ~q.oneway /\ q.port = replyPort'[q.client] =>
              /\ waiting[q.client] /\ q.serial = serial'[q.client]
              /\ q.routine = asked'[q.client] /\ inbox[q.client] = {}
    BY <1>0 DEF SentWell, Current
  <2>1. /\ q.serial =< serial[q.client] /\ q.port =< replyPort[q.client]
        /\ q.oneway = A!Callers[q.routine].oneway
        /\ Packed(A!Callers[q.routine], q.message)
        /\ Current(q) => /\ waiting[q.client] /\ q.serial = serial[q.client]
                         /\ q.routine = asked[q.client] /\ inbox[q.client] = {}
    BY DEF IInv, SentWell
  <2>2. q.client \in Client /\ q.serial \in Nat /\ q.port \in Nat
    BY <1>0, PendingTyped DEF Requests
  <2>3. CASE q.client = c
    <3>1. ~Current(q)
      BY <2>3, Quiet, <1>0
    <3>2. q.serial =< serial'[c] /\ q.port =< replyPort'[c]
      BY <1>0, <1>1, <1>2, <2>1, <2>2, <2>3 DEF TypeOK
    <3>3. ~q.oneway => q.port # replyPort'[c]
      BY <1>0, <1>1, <1>2, <2>1, <2>2, <2>3, <3>1 DEF TypeOK, Current
    <3> QED BY <2>1, <2>3, <3>2, <3>3
  <2>4. CASE q.client # c
    BY <1>0, <1>1, <2>1, <2>2, <2>4 DEF TypeOK, Current
  <2> QED BY <2>3, <2>4
<1>5. Distinct' /\ Carried'
  BY DEF IInv, Distinct, Carried, SameCall, In
<1>6. Arrived'
  <2> SUFFICES ASSUME NEW d \in Client, NEW m \in inbox[d], d # c PROVE
        /\ waiting[d] /\ m.serial = serial'[d] /\ inbox[d] = {m}
        /\ Answered(A!Callers[asked'[d]], A!Stubs[asked'[d]], m.message)
        /\ m.message.ret = "KERN_SUCCESS" =>
               <<d, serial'[d]>> \in executed /\ asked'[d] \in In(served)
    BY <1>0 DEF Arrived, In
  <2>1. serial'[d] = serial[d] /\ asked'[d] = asked[d]
    BY <1>0 DEF TypeOK
  <2> QED BY <2>1 DEF IInv, Arrived
<1>7. Ports'
  <2> SUFFICES ASSUME NEW d \in Client
               PROVE  /\ replyPort'[d] =< serial'[d]
                      /\ waiting[d] => replyPort'[d] < serial'[d] /\ asked'[d] \in Rpcs
    BY DEF Ports
  <2>1. CASE d = c
    BY <1>0, <1>1, <1>2, <2>1 DEF TypeOK
  <2>2. CASE d # c
    BY <1>0, <1>1, <2>2 DEF TypeOK, IInv, Ports
  <2> QED BY <2>1, <2>2
<1>8. OwnAnswer'
  <2> SUFFICES ASSUME NEW d \in Client, ~waiting[d]
               PROVE  /\ outcome'[d].serial = serial'[d]
                      /\ outcome'[d].ret = "KERN_SUCCESS" /\ ~A!Callers[asked'[d]].oneway
                             => <<d, serial'[d]>> \in executed
    BY AnyArch DEF OwnAnswer, Stub
  <2>1. CASE d = c
    BY <1>0, <2>1 DEF TypeOK, Returns
  <2>2. CASE d # c
    BY <1>0, <2>2, AnyArch DEF TypeOK, Returns, IInv, OwnAnswer, Stub
  <2> QED BY <2>1, <2>2
<1> QED BY <1>3, <1>4, <1>5, <1>6, <1>7, <1>8 DEF IInv

\* What is sent is well packed.
LEMMA PackTyped ==
    ASSUME NEW r \in Routines, NEW codes \in Nat, NEW states \in Nat,
           NEW right \in 0 .. 21, ~TooLarge(A!Callers[r], codes, states)
    PROVE  /\ Packed(A!Callers[r], Pack(A!Callers[r], codes, states, right))
           /\ Pack(A!Callers[r], codes, states, right) \in Packets
<1> DEFINE u == A!Callers[r]
           l == A!RequestChecks[r]
           m == Pack(u, codes, states, right)
<1>1. Packed(u, m)
  BY DEF Packed
<1>2. Agrees(u, l) /\ u.id \in Nat
  BY AllAgree, IdIsNat
<1>3. m.size \in Nat
  BY <1>1, <1>2, GoodRequest
<1>4. Moved(u.layout, codes) \in Int
  <2>1. CASE l.unit = 4
    BY <1>2, <2>1 DEF Moved, Agrees
  <2>2. CASE l.unit = 8
    BY <1>2, <2>2 DEF Moved, Agrees
  <2> QED BY <1>2, <2>1, <2>2 DEF Agrees
<1>5. \A d \in 0 .. 21 : Received(d) \in Nat
  BY DEF Received, COPY_SEND, MAKE_SEND, MOVE_SEND, MAKE_SEND_ONCE, MOVE_SEND_ONCE
<1>6. u.layout.disposition \in 0 .. 21 /\ u.layout.descs \in Nat
  BY <1>2 DEF Agrees
<1>7. Received(IF u.layout.disposition = AnyRight THEN right ELSE u.layout.disposition) \in Nat
  BY <1>5, <1>6
<1>8. m = [id |-> u.id, size |-> m.size, descs |-> u.layout.descs,
           disposition |-> Received(IF u.layout.disposition = AnyRight
                                    THEN right ELSE u.layout.disposition),
           codes |-> codes, states |-> states, at |-> Moved(u.layout, codes)]
  BY DEF Pack
<1> HIDE DEF m
<1>9. m \in Packets
  BY <1>2, <1>3, <1>4, <1>6, <1>7, <1>8 DEF Packets
<1> QED BY <1>1, <1>9 DEF m

\* What a caller may ask for can be packed.
LEMMA Choosable ==
    ASSUME NEW c \in Client, NEW r \in Called, NEW codes \in Codes(Stub(c, r)),
           NEW states \in States(Stub(c, r)), NEW right \in Choices(Stub(c, r))
    PROVE  codes \in Nat /\ states \in Nat /\ right \in 0 .. 21
<1>1. {0} \subseteq Nat
  OBVIOUS
<1>a. Codes(Stub(c, r)) \subseteq Nat
  BY <1>1, CountsAssumption, Zenon DEF Codes
<1>b. States(Stub(c, r)) \subseteq Nat
  BY <1>1, CountsAssumption, Zenon DEF States
<1>2. MOVE_RECEIVE .. MAKE_SEND_ONCE \subseteq 0 .. 21 /\ AnyRight \in 0 .. 21
  BY DEF MOVE_RECEIVE, MAKE_SEND_ONCE, AnyRight
<1>3. Choices(Stub(c, r)) \subseteq 0 .. 21
  BY <1>2, RightsAssumption DEF Choices
<1> QED BY <1>a, <1>b, <1>3

LEMMA SendStep ==
    ASSUME IInv, NEW c \in Client, NEW r \in Called, NEW codes \in Codes(Stub(c, r)),
           NEW states \in States(Stub(c, r)), NEW right \in Choices(Stub(c, r)),
           Send(c, r, codes, states, right)
    PROVE  IInv'
<1> USE DEF fixed
<1> DEFINE u == A!Callers[r]
           new == Request(c, r, codes, states, right)
<1>1. /\ TypeOK /\ ~waiting[c] /\ inbox[c] = {} /\ r \in Routines
      /\ serial[c] \in Nat /\ serial[c] + 1 \in 1 .. MaxCalls
      /\ replyPort[c] \in 0 .. MaxCalls /\ replyPort[c] =< serial[c]
  BY Quiet, Names, CallsAssumption DEF IInv, TypeOK, Send, Enter, Ports
<1>2. /\ serial' = [serial EXCEPT ![c] = @ + 1] /\ asked' = [asked EXCEPT ![c] = r]
      /\ queue' = queue \cup {new} /\ waiting' = [waiting EXCEPT ![c] = ~u.oneway]
      /\ busy' = busy /\ executed' = executed /\ replyPort' = replyPort /\ inbox' = inbox
      /\ IF u.oneway THEN Returns(c, "KERN_SUCCESS", serial[c] + 1) ELSE outcome' = outcome
  <2>1. Stub(c, r) = u
    BY AnyArch DEF Stub
  <2>2. waiting' = [waiting EXCEPT ![c] = ~u.oneway]
    BY <2>1, Zenon DEF Send
  <2> QED BY <2>1, <2>2 DEF Send, Enter
<1>3. Packed(u, Pack(u, codes, states, right)) /\ Pack(u, codes, states, right) \in Packets
  BY <1>1, Choosable, PackTyped, AnyArch DEF Send, Stub
<1>4. u.oneway \in BOOLEAN /\ (~u.oneway => r \in Rpcs)
  BY <1>1, OneWays
<1>5. /\ new.client = c /\ new.serial = serial[c] + 1 /\ new.port = replyPort[c]
      /\ new.routine = r /\ new.oneway = u.oneway /\ new.stage = "sent"
      /\ new.message = Pack(u, codes, states, right)
      /\ new \in Requests({"sent"})
  BY <1>1, <1>3, <1>4, AnyArch DEF Request, Requests, Stub
<1> HIDE DEF new
<1>6. Pending' = Pending \cup {new}
  BY <1>2 DEF Pending
<1>7. ASSUME NEW q \in Pending, q.client = c
      PROVE  q.serial # serial[c] + 1 /\ q.serial =< serial[c] /\ ~Current(q)
  <2>1. q.serial =< serial[c] /\ q.serial \in Nat
    BY <1>1, <1>7, PendingTyped DEF IInv, SentWell, Requests
  <2> QED BY <1>1, <1>7, <2>1, Quiet
<1>8. TypeOK'
  <2>1. queue' \subseteq Requests({"sent"})
    BY <1>1, <1>2, <1>5 DEF TypeOK
  <2>2. waiting' \in [Client -> BOOLEAN] /\ asked' \in [Client -> Called]
    BY <1>1, <1>2 DEF TypeOK
  <2>3. serial' \in [Client -> 0 .. MaxCalls]
    BY <1>1, <1>2 DEF TypeOK
  <2>4. outcome' \in [Client -> [ret : Outcomes, serial : 0 .. MaxCalls]]
    <3>1. [ret |-> "KERN_SUCCESS", serial |-> serial[c] + 1]
             \in [ret : Outcomes, serial : 0 .. MaxCalls]
      BY <1>1 DEF Outcomes, RetCodes
    <3> QED BY <1>1, <1>2, <3>1 DEF TypeOK, Returns
  <2> QED BY <1>1, <1>2, <2>1, <2>2, <2>3, <2>4 DEF TypeOK, Send
<1>9. SentWell'
  <2> SUFFICES ASSUME NEW q \in Pending' PROVE
        /\ q.serial =< serial'[q.client] /\ q.port =< replyPort[q.client]
        /\ q.oneway = A!Callers[q.routine].oneway
        /\ Packed(A!Callers[q.routine], q.message)
        /\ ~q.oneway /\ q.port = replyPort[q.client] =>
              /\ waiting'[q.client] /\ q.serial = serial'[q.client]
              /\ q.routine = asked'[q.client] /\ inbox[q.client] = {}
    BY <1>2 DEF SentWell, Current
  <2>1. CASE q = new
    <3>1. serial'[c] = serial[c] + 1 /\ asked'[c] = r /\ waiting'[c] = ~u.oneway
      BY <1>1, <1>2 DEF TypeOK
    <3>2. Packed(A!Callers[q.routine], q.message)
      BY <1>3, <1>5, <2>1
    <3>3. q.oneway = u.oneway /\ (~q.oneway => waiting'[c])
      BY <1>4, <1>5, <2>1, <3>1, Zenon
    <3> QED BY <1>1, <1>5, <2>1, <3>1, <3>2, <3>3
  <2>2. CASE q \in Pending
    <3>1. /\ q.serial =< serial[q.client] /\ q.port =< replyPort[q.client]
          /\ q.oneway = A!Callers[q.routine].oneway
          /\ Packed(A!Callers[q.routine], q.message)
          /\ Current(q) => /\ waiting[q.client] /\ q.serial = serial[q.client]
                           /\ q.routine = asked[q.client] /\ inbox[q.client] = {}
      BY <2>2 DEF IInv, SentWell
    <3>2. q.client \in Client /\ q.serial \in Nat
      BY <1>1, <2>2, PendingTyped DEF Requests
    <3>3. CASE q.client = c
      <4>1. ~Current(q) /\ q.serial =< serial[c]
        BY <1>7, <2>2, <3>3
      <4>2. q.serial =< serial'[c]
        BY <1>1, <1>2, <3>2, <4>1 DEF TypeOK
      <4> QED BY <3>1, <3>3, <4>1, <4>2 DEF Current
    <3>4. CASE q.client # c
      BY <1>1, <1>2, <3>1, <3>2, <3>4 DEF TypeOK, Current
    <3> QED BY <3>3, <3>4
  <2> QED BY <1>6, <2>1, <2>2
<1>10. Distinct'
  <2>1. ASSUME NEW q \in Pending PROVE ~SameCall(new, q) /\ ~SameCall(q, new)
    BY <1>5, <1>7 DEF SameCall
  <2>2. queue \subseteq Pending /\ (busy # Idle => busy \in Pending)
    BY <1>1, PendingTyped DEF Pending
  <2>3. \A p, q \in queue' : SameCall(p, q) => p = q
    BY <1>2, <2>1, <2>2 DEF IInv, Distinct
  <2>4. busy # Idle => \A q \in queue' : ~SameCall(busy, q)
    BY <1>2, <2>1, <2>2 DEF IInv, Distinct
  <2> QED BY <1>2, <2>3, <2>4 DEF Distinct, SameCall
<1>11. Arrived'
  <2> SUFFICES ASSUME NEW d \in Client, NEW m \in inbox[d], d # c PROVE
        /\ waiting'[d] /\ m.serial = serial'[d] /\ inbox[d] = {m}
        /\ Answered(A!Callers[asked'[d]], A!Stubs[asked'[d]], m.message)
        /\ m.message.ret = "KERN_SUCCESS" =>
               <<d, serial'[d]>> \in executed /\ asked'[d] \in In(served)
    BY <1>1, <1>2 DEF Arrived, In, Send
  <2>1. serial'[d] = serial[d] /\ asked'[d] = asked[d] /\ waiting'[d] = waiting[d]
    BY <1>1, <1>2 DEF TypeOK
  <2> QED BY <2>1 DEF IInv, Arrived
<1>12. Carried'
  BY <1>2 DEF IInv, Carried, In, Send
<1>13. Ports'
  <2> SUFFICES ASSUME NEW d \in Client
               PROVE  /\ replyPort[d] =< serial'[d]
                      /\ waiting'[d] => replyPort[d] < serial'[d] /\ asked'[d] \in Rpcs
    BY <1>2 DEF Ports
  <2>1. CASE d = c
    BY <1>1, <1>2, <1>4, <2>1 DEF TypeOK
  <2>2. CASE d # c
    BY <1>1, <1>2, <2>2 DEF TypeOK, IInv, Ports
  <2> QED BY <2>1, <2>2
<1>14. OwnAnswer'
  <2> SUFFICES ASSUME NEW d \in Client, ~waiting'[d]
               PROVE  /\ outcome'[d].serial = serial'[d]
                      /\ outcome'[d].ret = "KERN_SUCCESS" /\ ~A!Callers[asked'[d]].oneway
                             => <<d, serial'[d]>> \in executed
    BY <1>2, AnyArch DEF OwnAnswer, Stub
  <2>1. CASE d = c
    <3>1. u.oneway
      BY <1>1, <1>2, <1>4, <2>1 DEF TypeOK
    <3>2. outcome'[c].serial = serial[c] + 1 /\ serial'[c] = serial[c] + 1 /\ asked'[c] = r
      BY <1>1, <1>2, <3>1 DEF TypeOK, Returns
    <3> QED BY <2>1, <3>1, <3>2
  <2>2. CASE d # c
    <3>1. /\ serial'[d] = serial[d] /\ asked'[d] = asked[d] /\ waiting'[d] = waiting[d]
          /\ outcome'[d] = outcome[d]
      BY <1>1, <1>2, <2>2 DEF TypeOK, Returns
    <3> QED BY <3>1, AnyArch DEF IInv, OwnAnswer, Stub
  <2> QED BY <2>1, <2>2
<1> QED BY <1>8, <1>9, <1>10, <1>11, <1>12, <1>13, <1>14 DEF IInv

\* A call that has waited ends with outcome ret: with the answer to it, its port
\* empty, or without one, its port given up.
LEMMA EndingStep ==
    ASSUME IInv, NEW c \in Client, waiting[c], NEW ret \in Outcomes,
           Returns(c, ret, serial[c]),
           \/ /\ inbox[c] # {} /\ inbox' = [inbox EXCEPT ![c] = {}] /\ replyPort' = replyPort
              /\ ret = "KERN_SUCCESS" => <<c, serial[c]>> \in executed
           \/ GiveUpPort(c) /\ ret # "KERN_SUCCESS",
           waiting' = [waiting EXCEPT ![c] = FALSE],
           UNCHANGED <<fixed, serverVars, serial, asked>>
    PROVE  IInv'
<1> USE DEF fixed, serverVars
<1>1. /\ TypeOK /\ Pending' = Pending /\ inbox' = [inbox EXCEPT ![c] = {}]
      /\ serial[c] \in 0 .. MaxCalls /\ replyPort[c] \in Nat /\ replyPort[c] < serial[c]
  BY DEF IInv, TypeOK, Pending, GiveUpPort, Ports
<1>2. \/ replyPort' = replyPort /\ inbox[c] # {}
      \/ replyPort' = [replyPort EXCEPT ![c] = @ + 1]
  BY DEF GiveUpPort
<1>3. TypeOK'
  <2>1. replyPort' \in [Client -> 0 .. MaxCalls]
    <3>1. replyPort[c] + 1 \in 0 .. MaxCalls
      BY <1>1, CallsAssumption
    <3> QED BY <1>1, <1>2, <3>1 DEF TypeOK
  <2>2. waiting' \in [Client -> BOOLEAN]
    BY <1>1 DEF TypeOK
  <2>3. inbox' \in [Client -> SUBSET [serial : 1 .. MaxCalls, message : Answers]]
    BY <1>1 DEF TypeOK
  <2>4. outcome' \in [Client -> [ret : Outcomes, serial : 0 .. MaxCalls]]
    BY <1>1 DEF TypeOK, Returns
  <2> QED BY <1>1, <2>1, <2>2, <2>3, <2>4 DEF TypeOK
<1>4. SentWell'
  <2> SUFFICES ASSUME NEW q \in Pending PROVE
        /\ q.serial =< serial[q.client] /\ q.port =< replyPort'[q.client]
        /\ q.oneway = A!Callers[q.routine].oneway
        /\ Packed(A!Callers[q.routine], q.message)
        /\ ~q.oneway /\ q.port = replyPort'[q.client] =>
              /\ waiting'[q.client] /\ q.serial = serial[q.client]
              /\ q.routine = asked[q.client] /\ inbox'[q.client] = {}
    BY <1>1 DEF SentWell, Current
  <2>1. /\ q.serial =< serial[q.client] /\ q.port =< replyPort[q.client]
        /\ q.oneway = A!Callers[q.routine].oneway
        /\ Packed(A!Callers[q.routine], q.message)
        /\ Current(q) => /\ waiting[q.client] /\ q.serial = serial[q.client]
                         /\ q.routine = asked[q.client] /\ inbox[q.client] = {}
    BY DEF IInv, SentWell
  <2>2. q.client \in Client /\ q.serial \in Nat /\ q.port \in Nat
    BY <1>1, PendingTyped DEF Requests
  <2>3. CASE q.client = c
    <3>1. q.port =< replyPort'[c]
      BY <1>1, <1>2, <2>1, <2>2, <2>3 DEF TypeOK
    <3>2. ~q.oneway => q.port # replyPort'[c]
      BY <1>1, <1>2, <2>1, <2>2, <2>3 DEF TypeOK, Current
    <3> QED BY <2>1, <2>3, <3>1, <3>2
  <2>4. CASE q.client # c
    BY <1>1, <1>2, <2>1, <2>2, <2>4 DEF TypeOK, Current
  <2> QED BY <2>3, <2>4
<1>5. Distinct' /\ Carried'
  BY DEF IInv, Distinct, Carried, SameCall, In
<1>6. Arrived'
  <2> SUFFICES ASSUME NEW d \in Client, NEW m \in inbox'[d] PROVE
        /\ waiting'[d] /\ m.serial = serial[d] /\ inbox'[d] = {m}
        /\ Answered(A!Callers[asked[d]], A!Stubs[asked[d]], m.message)
        /\ m.message.ret = "KERN_SUCCESS" =>
               <<d, serial[d]>> \in executed /\ asked[d] \in In(served)
    BY DEF Arrived, In
  <2>1. d # c
    BY <1>1 DEF TypeOK
  <2>2. inbox'[d] = inbox[d] /\ waiting'[d] = waiting[d]
    BY <1>1, <2>1 DEF TypeOK
  <2> QED BY <2>2 DEF IInv, Arrived
<1>7. Ports'
  <2> SUFFICES ASSUME NEW d \in Client
               PROVE  /\ replyPort'[d] =< serial[d]
                      /\ waiting'[d] => replyPort'[d] < serial[d] /\ asked[d] \in Rpcs
    BY DEF Ports
  <2>1. CASE d = c
    BY <1>1, <1>2, <2>1 DEF TypeOK
  <2>2. CASE d # c
    BY <1>1, <1>2, <2>2 DEF TypeOK, IInv, Ports
  <2> QED BY <2>1, <2>2
<1>8. OwnAnswer'
  <2> SUFFICES ASSUME NEW d \in Client, ~waiting'[d]
               PROVE  /\ outcome'[d].serial = serial[d]
                      /\ outcome'[d].ret = "KERN_SUCCESS" /\ ~A!Callers[asked[d]].oneway
                             => <<d, serial[d]>> \in executed
    BY AnyArch DEF OwnAnswer, Stub
  <2>1. CASE d = c
    BY <1>1, <2>1 DEF TypeOK, Returns
  <2>2. CASE d # c
    BY <1>1, <2>2, AnyArch DEF TypeOK, Returns, IInv, OwnAnswer, Stub
  <2> QED BY <2>1, <2>2
<1> QED BY <1>3, <1>4, <1>5, <1>6, <1>7, <1>8 DEF IInv

\* A reply that is received is the one the call waits for, it fits the buffer,
\* and it passes as what it is.
LEMMA Receiving ==
    ASSUME IInv, NEW c \in Client, Receive(c)
    PROVE  \E ret \in {"MIG_SERVER_DIED", "MIG_BAD_ID", "KERN_FAILURE", "KERN_SUCCESS"} :
             /\ waiting[c] /\ waiting' = [waiting EXCEPT ![c] = FALSE]
             /\ inbox[c] # {} /\ inbox' = [inbox EXCEPT ![c] = {}] /\ replyPort' = replyPort
             /\ Returns(c, ret, serial[c])
             /\ ret = "KERN_SUCCESS" => <<c, serial[c]>> \in executed
             /\ UNCHANGED <<fixed, serverVars, serial, asked>>
<1> DEFINE u == A!Callers[asked[c]]
           e == A!ReplyChecks[asked[c]]
<1>1. PICK m \in inbox[c] :
        IF m.message.size + Trailer > u.buffer
        THEN AfterError(c, "MACH_RCV_TOO_LARGE") /\ Returns(c, "MACH_RCV_TOO_LARGE", serial[c])
        ELSE /\ inbox' = [inbox EXCEPT ![c] = @ \ {m}]
             /\ Returns(c, Result(u, e, m.message), m.serial)
             /\ UNCHANGED replyPort
  BY AnyArch DEF Receive, Stub, ResultOf
<1>2. /\ waiting[c] /\ m.serial = serial[c] /\ inbox[c] = {m} /\ asked[c] \in Rpcs
      /\ Answered(u, A!Stubs[asked[c]], m.message)
      /\ m.message.ret = "KERN_SUCCESS" => <<c, serial[c]>> \in executed
  BY DEF IInv, Arrived, Ports
<1>3. u.id \in Nat
  BY <1>2, IdIsNat DEF Rpcs, Routines
<1>4. /\ m.message.size + Trailer =< u.buffer
      /\ Result(u, e, m.message)
            \in {"MIG_SERVER_DIED", "MIG_BAD_ID", "KERN_FAILURE", "KERN_SUCCESS"}
      /\ Result(u, e, m.message) = "KERN_SUCCESS" => m.message.ret = "KERN_SUCCESS"
      /\ m.message.size \in Nat
  <2>1. Answering(u, e, A!Stubs[asked[c]])
    BY <1>2, AllAnswer
  <2> HIDE DEF u, e
  <2> QED BY <1>2, <1>3, <2>1, GoodAnswer DEF Answers
<1>5. u.buffer \in Nat
  <2>1. Answering(u, e, A!Stubs[asked[c]])
    BY <1>2, AllAnswer
  <2> HIDE DEF u, e
  <2> QED BY <2>1 DEF Answering, Trailer
<1>6. /\ inbox' = [inbox EXCEPT ![c] = {}] /\ replyPort' = replyPort
      /\ Returns(c, Result(u, e, m.message), serial[c])
  BY <1>1, <1>2, <1>4, <1>5 DEF Trailer
<1>7. waiting' = [waiting EXCEPT ![c] = FALSE] /\ UNCHANGED <<fixed, serverVars, serial, asked>>
  BY DEF Receive
<1> HIDE DEF u, e
<1> QED BY <1>2, <1>4, <1>6, <1>7

LEMMA ReceiveStep ==
    ASSUME IInv, NEW c \in Client, Receive(c)
    PROVE  IInv'
<1>1. {"MIG_SERVER_DIED", "MIG_BAD_ID", "KERN_FAILURE", "KERN_SUCCESS"} \subseteq Outcomes
  BY DEF Outcomes, RetCodes
<1> QED BY <1>1, Receiving, EndingStep

LEMMA ReceiveFailsStep ==
    ASSUME IInv, NEW c \in Client, ReceiveFails(c)
    PROVE  IInv'
<1>1. GiveUpPort(c)
  BY DEF ReceiveFails, AfterError, PortKept
<1>2. "MACH_RCV_BODY_ERROR" \in Outcomes
  BY DEF Outcomes
<1> QED BY <1>1, <1>2, EndingStep DEF ReceiveFails

LEMMA CallStep ==
    ASSUME IInv, NEW c \in Client, Call(c)
    PROVE  IInv'
<1>1. ASSUME NEW r \in Called, NEW codes \in Codes(Stub(c, r)), NEW states \in States(Stub(c, r)),
             RefuseArguments(c, r, codes, states)
      PROVE  IInv'
  <2>1. "MIG_ARRAY_TOO_LARGE" \in Outcomes
    BY DEF Outcomes
  <2> QED BY <1>1, <2>1, FailingStep DEF RefuseArguments
<1>2. ASSUME NEW r \in Called, NEW error \in SendErrors \cup {"MACH_SEND_INVALID_DEST"},
             SendFails(c, r, error)
      PROVE  IInv'
  <2>1. error \in Outcomes /\ error # "KERN_SUCCESS"
    BY DEF Outcomes, SendErrors
  <2>2. UNCHANGED <<replyPort, inbox>> \/ GiveUpPort(c)
    BY <1>2 DEF SendFails, AfterError
  <2> QED BY <1>2, <2>1, <2>2, FailingStep DEF SendFails
<1> QED BY <1>1, <1>2, SendStep DEF Call

LEMMA Stuttering == IInv /\ UNCHANGED vars => IInv'
<1> SUFFICES ASSUME IInv, UNCHANGED vars PROVE IInv'
  OBVIOUS
<1>1. TypeOK'
  BY DEF IInv, TypeOK, vars
<1>2. SentWell' /\ Distinct'
  BY DEF IInv, SentWell, Distinct, Pending, Current, SameCall, vars
<1>3. Arrived' /\ Carried' /\ Ports'
  BY DEF IInv, Arrived, Carried, Ports, In, vars
<1>4. OwnAnswer'
  BY AnyArch DEF IInv, OwnAnswer, Stub, vars
<1> QED BY <1>1, <1>2, <1>3, <1>4 DEF IInv

LEMMA NextStep == IInv /\ [Next]_vars => IInv'
BY ServerStep, CallStep, ReceiveStep, ReceiveFailsStep, Stuttering DEF Next

LEMMA Inductive == Spec => []IInv
BY InitIInv, NextStep, PTL DEF Spec

-----------------------------------------------------------------------------
(* The calls are those of RemoteCall.                                       *)
Standings == [c \in Client |-> Standing(c)]

\* The calls under way are those queued and the one that the server has taken
\* and not yet carried out.
LEMMA UnderwayOf ==
    ASSUME NEW Q \in SUBSET Requests({"sent"}),
           NEW b \in {Idle} \cup Requests({"taken", "handled"})
    PROVE  {CallOf(q) : q \in {p \in Q \cup ({b} \ {Idle}) : p.stage # "handled"}}
               = {CallOf(q) : q \in Q}
                     \cup (IF b # Idle /\ b.stage = "taken" THEN {CallOf(b)} ELSE {})
<1>1. \A q \in Q : q.stage = "sent"
  BY DEF Requests
<1>2. b # Idle => b.stage \in {"taken", "handled"}
  BY DEF Requests
<1> HIDE DEF CallOf, Idle
<1> QED BY <1>1, <1>2

\* The same, of a state and of the next one.
LEMMA UnderwayIs ==
    ASSUME TypeOK
    PROVE  Underway = {CallOf(q) : q \in queue}
                          \cup (IF busy # Idle /\ busy.stage = "taken"
                                THEN {CallOf(busy)} ELSE {})
<1>1. queue \in SUBSET Requests({"sent"}) /\ busy \in {Idle} \cup Requests({"taken", "handled"})
  BY DEF TypeOK
<1> QED BY <1>1, UnderwayOf, Zenon DEF Underway, Pending

LEMMA UnderwayNext ==
    ASSUME TypeOK'
    PROVE  Underway' = {CallOf(q) : q \in queue'}
                           \cup (IF busy' # Idle /\ busy'.stage = "taken"
                                 THEN {CallOf(busy')} ELSE {})
<1>1. queue' \in SUBSET Requests({"sent"}) /\ busy' \in {Idle} \cup Requests({"taken", "handled"})
  BY DEF TypeOK
<1>2. Underway' = {CallOf(q) : q \in {p \in queue' \cup ({busy'} \ {Idle}) : p.stage # "handled"}}
  BY DEF Underway, Pending, CallOf
<1> HIDE DEF CallOf
<1> QED BY <1>1, <1>2, UnderwayOf, Zenon

\* What a step leaves alone stands as it stood.
LEMMA Stands ==
    ASSUME NEW c \in Client, waiting'[c] = waiting[c], asked'[c] = asked[c],
           outcome'[c] = outcome[c]
    PROVE  Standing(c)' = Standing(c)
BY AnyArch DEF Standing, Stub

LEMMA AllStand ==
    ASSUME UNCHANGED <<waiting, asked, outcome>>
    PROVE  Standings' = Standings
<1>1. \A c \in Client : Standing(c)' = Standing(c)
  BY Stands
<1> HIDE DEF Standing
<1> QED BY <1>1 DEF Standings

\* A step of one thread, of whose last call s is to be said now.
LEMMA OneStands ==
    ASSUME NEW c \in Client, NEW s, Standing(c)' = s,
           \A d \in Client \ {c} : /\ waiting'[d] = waiting[d] /\ asked'[d] = asked[d]
                                   /\ outcome'[d] = outcome[d]
    PROVE  Standings' = [Standings EXCEPT ![c] = s]
<1>1. \A d \in Client \ {c} : Standing(d)' = Standing(d)
  BY Stands
<1> HIDE DEF Standing
<1> QED BY <1>1 DEF Standings

LEMMA InitRemote == Init => Remote!Init
<1> SUFFICES ASSUME Init PROVE Remote!Init
  OBVIOUS
<1>1. Underway = {}
  BY DEF Init, Underway, Pending
<1>2. \A c \in Client : Standing(c) = "none"
  BY DEF Init, Standing, None
<1> HIDE DEF Standing, Underway
<1> QED BY <1>1, <1>2 DEF Init, Remote!Init

\* The server takes a request, rejects it, answers it or dies: no call comes
\* under way, and nothing is said to a thread.
LEMMA Losing ==
    ASSUME Underway' \subseteq Underway, UNCHANGED <<callerVars, executed>>
    PROVE  Remote!Lose
<1>1. Standings' = Standings /\ serial' = serial
  BY AllStand DEF callerVars
<1> HIDE DEF Underway, Standing
<1> QED BY <1>1 DEF Remote!Lose, Standings

LEMMA ServerRemote ==
    ASSUME IInv, IInv', Server
    PROVE  Remote!Lose \/ \E call \in Underway : Remote!Carry(call)
<1>0. TypeOK /\ TypeOK' /\ UNCHANGED callerVars
  BY DEF IInv, Server
<1>1. ASSUME NEW q \in queue, Take(q) PROVE Underway' \subseteq Underway
  <2>1. /\ busy = Idle /\ queue' = queue \ {q} /\ busy' = [q EXCEPT !.stage = "taken"]
        /\ q \in Requests({"sent"})
    BY <1>0, <1>1 DEF Take, TypeOK
  <2>2. CallOf(busy') = CallOf(q)
    BY <2>1 DEF CallOf, Requests
  <2> HIDE DEF CallOf
  <2> QED BY <1>0, <2>1, <2>2, UnderwayIs, UnderwayNext
<1>2. ASSUME queue' \subseteq queue, busy' = Idle PROVE Underway' \subseteq Underway
  <2> HIDE DEF CallOf
  <2> QED BY <1>0, <1>2, UnderwayIs, UnderwayNext
<1>3. CASE Handle
  <2> DEFINE call == CallOf(busy)
  <2>1. /\ busy # Idle /\ busy.stage = "taken" /\ queue' = queue
        /\ busy' = [busy EXCEPT !.stage = "handled"] /\ busy \in Requests({"taken", "handled"})
        /\ executed' = executed \cup {call}
    BY <1>0, <1>3 DEF Handle, Stage, TypeOK, CallOf
  <2>2. busy'.stage = "handled"
    BY <2>1 DEF Requests
  <2>3. call \notin {CallOf(q) : q \in queue}
    BY <2>1 DEF IInv, Distinct, SameCall, CallOf
  <2>4. call \in Underway /\ Underway' = Underway \ {call}
    <3> HIDE DEF CallOf
    <3> QED BY <1>0, <2>1, <2>2, <2>3, UnderwayIs, UnderwayNext
  <2>5. Standings' = Standings /\ serial' = serial
    BY <1>0, AllStand DEF callerVars
  <2>6. Remote!Carry(call)
    <3> HIDE DEF call, Underway, Standing
    <3> QED BY <2>1, <2>4, <2>5 DEF Remote!Carry, Standings
  <2> QED BY <2>4, <2>6
<1>4. ASSUME Reject \/ Abort \/ Die \/ \E n \in StateCounts \cup {0} : Answer(n)
      PROVE  queue' \subseteq queue /\ busy' = Idle /\ UNCHANGED executed
  BY <1>4 DEF Reject, Abort, Die, Answer, GoesDown
<1>5. ASSUME NEW q \in queue, Take(q) PROVE UNCHANGED executed
  BY <1>5 DEF Take
<1> QED BY <1>0, <1>1, <1>2, <1>3, <1>4, <1>5, Losing DEF Server, Serve

\* A call that is not sent, or not for all that the thread knows.
LEMMA RefusingRemote ==
    ASSUME IInv, IInv', NEW c \in Client, NEW r \in Called,
           NEW ret \in Outcomes \ {"none", "KERN_SUCCESS"},
           Enter(c, r), Returns(c, ret, serial[c] + 1), UNCHANGED <<fixed, serverVars, waiting>>
    PROVE  Remote!Refuse(c)
<1>1. TypeOK /\ ~waiting[c] /\ UNCHANGED <<queue, busy, executed, waiting>>
  BY DEF IInv, Enter, serverVars
<1>2. Underway' = Underway
  BY <1>1 DEF Underway, Pending, CallOf
<1>3. outcome'[c].ret = ret
  BY <1>1 DEF Returns, TypeOK
<1>4. Standing(c) # "waiting"
  BY <1>1 DEF Standing
<1>5. Standing(c)' = "error"
  BY <1>1, <1>3 DEF Standing
<1>6. \A d \in Client \ {c} : /\ waiting'[d] = waiting[d] /\ asked'[d] = asked[d]
                              /\ outcome'[d] = outcome[d]
  BY <1>1 DEF Enter, Returns, TypeOK
<1>7. Standings' = [Standings EXCEPT ![c] = "error"] /\ Standings[c] # "waiting"
  <2> HIDE DEF Standing
  <2> QED BY <1>4, <1>5, <1>6, OneStands DEF Standings
<1>8. serial' = [serial EXCEPT ![c] = @ + 1]
  BY DEF Enter
<1> HIDE DEF Underway, Standing
<1> QED BY <1>1, <1>2, <1>7, <1>8 DEF Remote!Refuse, Remote!Make, Standings

LEMMA SendRemote ==
    ASSUME IInv, IInv', NEW c \in Client, NEW r \in Called, NEW codes, NEW states, NEW right,
           Send(c, r, codes, states, right)
    PROVE  Remote!Begin(c)
<1> DEFINE u == A!Callers[r]
           new == Request(c, r, codes, states, right)
<1>1. /\ TypeOK /\ TypeOK' /\ ~waiting[c] /\ queue' = queue \cup {new}
      /\ UNCHANGED <<busy, executed>> /\ CallOf(new) = <<c, serial[c] + 1>>
      /\ serial' = [serial EXCEPT ![c] = @ + 1] /\ asked' = [asked EXCEPT ![c] = r]
  BY DEF IInv, Send, Enter, CallOf, Request
<1>2. u.oneway \in BOOLEAN /\ Stub(c, r) = u
  BY Names, OneWays, AnyArch DEF Stub
<1>3. Underway' = Underway \cup {<<c, serial[c] + 1>>}
  <2> HIDE DEF CallOf, new
  <2> QED BY <1>1, UnderwayIs, UnderwayNext
<1>4. waiting' = [waiting EXCEPT ![c] = ~u.oneway]
  BY <1>2, Zenon DEF Send
<1>5. \A d \in Client \ {c} : /\ waiting'[d] = waiting[d] /\ asked'[d] = asked[d]
                              /\ outcome'[d] = outcome[d]
  <2>1. outcome' = outcome \/ Returns(c, "KERN_SUCCESS", serial[c] + 1)
    BY DEF Send
  <2>2. \A d \in Client \ {c} : outcome'[d] = outcome[d]
    BY <1>1, <2>1 DEF Returns, TypeOK
  <2>3. \A d \in Client \ {c} : waiting'[d] = waiting[d]
    BY <1>1, <1>4, Zenon DEF TypeOK
  <2> QED BY <1>1, <2>2, <2>3 DEF TypeOK
<1>6. Standing(c)' \in {"waiting", "sent"}
  <2>1. asked'[c] = r
    BY <1>1 DEF TypeOK
  <2>2. CASE u.oneway
    <3>1. waiting'[c] = FALSE
      BY <1>1, <1>4, <2>2, Zenon DEF TypeOK
    <3>2. outcome'[c].ret = "KERN_SUCCESS"
      BY <1>1, <1>2, <2>2 DEF Send, Returns, TypeOK
    <3> QED BY <2>1, <2>2, <3>1, <3>2, AnyArch DEF Standing, Stub
  <2>3. CASE ~u.oneway
    <3>1. waiting'[c] = TRUE
      BY <1>1, <1>4, <2>3, Zenon DEF TypeOK
    <3> QED BY <3>1 DEF Standing
  <2> QED BY <2>2, <2>3
<1>7. Standing(c) # "waiting"
  BY <1>1 DEF Standing
<1>8. /\ Standings[c] # "waiting"
      /\ \/ Standings' = [Standings EXCEPT ![c] = "waiting"]
         \/ Standings' = [Standings EXCEPT ![c] = "sent"]
  <2> HIDE DEF Standing
  <2>1. Standings' = [Standings EXCEPT ![c] = Standing(c)']
    BY <1>5, OneStands
  <2> QED BY <1>6, <1>7, <2>1 DEF Standings
<1> HIDE DEF Underway, Standing, new
<1> QED BY <1>1, <1>3, <1>8 DEF Remote!Begin, Remote!Make, Standings

\* A thread that has waited is told s of its call.
LEMMA Ending ==
    ASSUME IInv, NEW c \in Client, NEW ret \in Outcomes \ {"none"}, waiting[c],
           Returns(c, ret, serial[c]), waiting' = [waiting EXCEPT ![c] = FALSE],
           UNCHANGED <<fixed, serverVars, serial, asked>>,
           ret = "KERN_SUCCESS" => <<c, serial[c]>> \in executed
    PROVE  Remote!Succeed(c) \/ Remote!Fail(c)
<1>1. TypeOK /\ asked[c] \in Rpcs /\ UNCHANGED <<queue, busy, executed>>
  BY DEF IInv, Ports, serverVars
<1>2. ~A!Callers[asked[c]].oneway
  BY <1>1, OneWays DEF Rpcs, Routines
<1>3. Underway' = Underway
  BY <1>1 DEF Underway, Pending, CallOf
<1>4. outcome'[c].ret = ret /\ waiting'[c] = FALSE
  BY <1>1 DEF Returns, TypeOK
<1>5. Standing(c) = "waiting"
  BY DEF Standing
<1>6. Standing(c)' = IF ret = "KERN_SUCCESS" THEN "success" ELSE "error"
  BY <1>1, <1>2, <1>4, AnyArch DEF Standing, Stub
<1>7. \A d \in Client \ {c} : /\ waiting'[d] = waiting[d] /\ asked'[d] = asked[d]
                              /\ outcome'[d] = outcome[d]
  BY <1>1 DEF Returns, TypeOK
<1>8. /\ Standings[c] = "waiting"
      /\ Standings' = [Standings EXCEPT ![c] = IF ret = "KERN_SUCCESS" THEN "success" ELSE "error"]
  <2> HIDE DEF Standing
  <2> QED BY <1>5, <1>6, <1>7, OneStands DEF Standings
<1> HIDE DEF Underway, Standing
<1> QED BY <1>1, <1>3, <1>8 DEF Remote!Succeed, Remote!Fail, Remote!Return, Standings

LEMMA ReceiveRemote ==
    ASSUME IInv, NEW c \in Client, Receive(c)
    PROVE  Remote!Succeed(c) \/ Remote!Fail(c)
<1>1. {"MIG_SERVER_DIED", "MIG_BAD_ID", "KERN_FAILURE", "KERN_SUCCESS"} \subseteq Outcomes \ {"none"}
  BY DEF Outcomes, RetCodes
<1> QED BY <1>1, Receiving, Ending

LEMMA ReceiveFailsRemote ==
    ASSUME IInv, NEW c \in Client, ReceiveFails(c)
    PROVE  Remote!Succeed(c) \/ Remote!Fail(c)
<1>1. "MACH_RCV_BODY_ERROR" \in Outcomes \ {"none"}
  BY DEF Outcomes, RetCodes
<1> QED BY <1>1, Ending DEF ReceiveFails

LEMMA CallRemote ==
    ASSUME IInv, IInv', NEW c \in Client, Call(c)
    PROVE  Remote!Begin(c) \/ Remote!Refuse(c)
<1>1. ASSUME NEW r \in Called, NEW codes, NEW states, RefuseArguments(c, r, codes, states)
      PROVE  Remote!Refuse(c)
  <2>1. "MIG_ARRAY_TOO_LARGE" \in Outcomes \ {"none", "KERN_SUCCESS"}
    BY DEF Outcomes, RetCodes
  <2> QED BY <1>1, <2>1, RefusingRemote DEF RefuseArguments
<1>2. ASSUME NEW r \in Called, NEW error \in SendErrors \cup {"MACH_SEND_INVALID_DEST"},
             SendFails(c, r, error)
      PROVE  Remote!Refuse(c)
  <2>1. error \in Outcomes \ {"none", "KERN_SUCCESS"}
    BY DEF Outcomes, RetCodes, SendErrors
  <2> QED BY <1>2, <2>1, RefusingRemote DEF SendFails
<1> QED BY <1>1, <1>2, SendRemote DEF Call

LEMMA StutterRemote ==
    ASSUME UNCHANGED vars
    PROVE  UNCHANGED Remote!vars
<1>1. Underway' = Underway
  BY DEF vars, Underway, Pending, CallOf
<1>2. Standings' = Standings
  BY AllStand DEF vars
<1> HIDE DEF Underway, Standing
<1> QED BY <1>1, <1>2 DEF vars, Remote!vars, Standings

LEMMA NextRemote == IInv /\ IInv' /\ [Next]_vars => [Remote!Next]_Remote!vars
<1> SUFFICES ASSUME IInv, IInv', [Next]_vars PROVE [Remote!Next]_Remote!vars
  OBVIOUS
<1>1. CASE Server
  BY <1>1, ServerRemote DEF Remote!Next
<1>2. ASSUME NEW c \in Client, Call(c) PROVE Remote!Next
  BY <1>2, CallRemote DEF Remote!Next
<1>3. ASSUME NEW c \in Client, Receive(c) \/ ReceiveFails(c) PROVE Remote!Next
  BY <1>3, ReceiveRemote, ReceiveFailsRemote DEF Remote!Next
<1>4. CASE UNCHANGED vars
  BY <1>4, StutterRemote
<1> QED BY <1>1, <1>2, <1>3, <1>4 DEF Next

\* A call under way or carried out is not newer than its thread's last call.
Once ==
    /\ Remote!AtMostOnce
    /\ \A c \in Client, n \in Nat : <<c, n>> \in Underway \cup executed => n =< serial[c]

LEMMA OnceNext ==
    ASSUME Once, TypeOK, TypeOK', [Remote!Next]_Remote!vars
    PROVE  Once'
<1> SUFFICES ASSUME ~UNCHANGED Remote!vars PROVE Once'
  BY DEF Once, Remote!AtMostOnce, Remote!vars
<1>1. serial \in [Client -> Nat] /\ serial' \in [Client -> Nat]
  BY DEF TypeOK
<1> HIDE DEF Underway
<1>2. ASSUME NEW c \in Client, Remote!Begin(c) PROVE Once'
  <2>1. /\ serial' = [serial EXCEPT ![c] = @ + 1] /\ executed' = executed
        /\ Underway' = Underway \cup {<<c, serial[c] + 1>>}
    BY <1>2 DEF Remote!Begin, Remote!Make
  <2>2. <<c, serial[c] + 1>> \notin executed
    BY <1>1 DEF Once
  <2> QED BY <1>1, <2>1, <2>2 DEF Once, Remote!AtMostOnce
<1>3. ASSUME NEW c \in Client, Remote!Refuse(c) PROVE Once'
  BY <1>1, <1>3 DEF Once, Remote!AtMostOnce, Remote!Refuse, Remote!Make
<1>4. ASSUME NEW call \in Underway, Remote!Carry(call) PROVE Once'
  BY <1>4 DEF Once, Remote!AtMostOnce, Remote!Carry
<1>5. CASE Remote!Lose
  BY <1>5 DEF Once, Remote!AtMostOnce, Remote!Lose
<1>6. ASSUME NEW c \in Client, Remote!Succeed(c) \/ Remote!Fail(c) PROVE Once'
  BY <1>6 DEF Once, Remote!AtMostOnce, Remote!Succeed, Remote!Fail, Remote!Return
<1> QED BY <1>2, <1>3, <1>4, <1>5, <1>6 DEF Remote!Next

-----------------------------------------------------------------------------
(* Nobody waits for nothing.                                                *)
Awaited(c) == inbox[c] # {} \/ \E q \in Pending : q.client = c /\ Current(q)

\* The answer to a thread that waits is in its port, or its request is pending
\* and the answer to it will arrive there: rejected, answered or lost with the
\* server, no request is dropped without a message to its caller.  No stub of
\* gen/util/mach has a timeout to fall back on.
NoneForgotten == \A c \in Client : waiting[c] => Awaited(c)

LEMMA AwaitedElsewhere ==
    ASSUME NEW c \in Client, Awaited(c), inbox'[c] = inbox[c], replyPort'[c] = replyPort[c],
           \A q \in Pending : \E p \in Pending' :
               p.client = q.client /\ p.port = q.port /\ p.oneway = q.oneway
    PROVE  Awaited(c)'
BY DEF Awaited, Current

\* The server answers requests Q, and goes on with the others.
LEMMA AwaitedReply ==
    ASSUME TypeOK, NoneForgotten, NEW Q, NEW message, Reply(Q, message),
           Pending \subseteq Q \cup Pending', UNCHANGED callerVars
    PROVE  NoneForgotten'
<1> SUFFICES ASSUME NEW c \in Client, waiting[c] PROVE Awaited(c)'
  BY DEF NoneForgotten, callerVars
<1>1. inbox'[c] = inbox[c] \cup Arrivals(c, Q, message)
  BY DEF Reply
<1>2. CASE inbox[c] # {}
  BY <1>1, <1>2 DEF Awaited
<1>3. ASSUME NEW q \in Q, q.client = c, Current(q) PROVE inbox'[c] # {}
  BY <1>1, <1>3 DEF Arrivals, Current
<1>4. ASSUME NEW q \in Pending', q.client = c, Current(q) PROVE Awaited(c)'
  BY <1>4 DEF Awaited, Current, callerVars
<1> QED BY <1>2, <1>3, <1>4 DEF NoneForgotten, Awaited

LEMMA AwaitedServer ==
    ASSUME IInv, NoneForgotten, Server
    PROVE  NoneForgotten'
<1>0. TypeOK /\ UNCHANGED callerVars
  BY DEF IInv, Server
<1>1. ASSUME inbox' = inbox,
             \A q \in Pending : \E p \in Pending' :
                 p.client = q.client /\ p.port = q.port /\ p.oneway = q.oneway
      PROVE  NoneForgotten'
  BY <1>0, <1>1, AwaitedElsewhere DEF NoneForgotten, callerVars
<1>2. ASSUME NEW q \in queue, Take(q) PROVE NoneForgotten'
  <2>1. /\ busy = Idle /\ queue' = queue \ {q} /\ busy' = [q EXCEPT !.stage = "taken"]
        /\ q \in Requests({"sent"}) /\ inbox' = inbox
    BY <1>0, <1>2 DEF Take, TypeOK
  <2>2. /\ busy'.client = q.client /\ busy'.port = q.port /\ busy'.oneway = q.oneway
        /\ busy'.stage = "taken" /\ busy' \in Requests({"taken"})
    BY <2>1 DEF Requests
  <2>3. busy' # Idle
    BY <2>2 DEF Idle, Requests
  <2>4. Pending = queue /\ Pending' = queue' \cup {busy'}
    BY <2>1, <2>3 DEF Pending
  <2> QED BY <1>1, <2>1, <2>2, <2>4
<1>3. CASE Handle
  <2>1. /\ busy # Idle /\ queue' = queue /\ busy' = [busy EXCEPT !.stage = "handled"]
        /\ busy \in Requests({"taken", "handled"}) /\ inbox' = inbox
    BY <1>0, <1>3 DEF Handle, Stage, TypeOK
  <2>2. /\ busy'.client = busy.client /\ busy'.port = busy.port
        /\ busy'.oneway = busy.oneway /\ busy' \in Requests({"handled"})
    BY <2>1 DEF Requests
  <2>3. busy' # Idle
    BY <2>2 DEF Idle, Requests
  <2>4. Pending = queue \cup {busy} /\ Pending' = queue \cup {busy'}
    BY <2>1, <2>3 DEF Pending
  <2> QED BY <1>1, <2>1, <2>2, <2>4
<1>4. ASSUME Reject \/ \E n \in StateCounts \cup {0} : Answer(n) PROVE NoneForgotten'
  <2>1. queue' = queue /\ \E message : Reply({busy}, message)
    BY <1>4 DEF Reject, Answer
  <2>2. Pending \subseteq {busy} \cup Pending'
    BY <2>1, <1>0, PendingTyped DEF Pending, TypeOK
  <2> QED BY <1>0, <2>1, <2>2, AwaitedReply
<1>5. CASE GoesDown
  BY <1>0, <1>5, AwaitedReply DEF GoesDown
<1> QED BY <1>2, <1>3, <1>4, <1>5 DEF Server, Serve, Abort, Die

\* A step of thread c, after which it does not wait.
LEMMA AwaitedEnd ==
    ASSUME TypeOK, NoneForgotten, NEW c \in Client, ~waiting'[c],
           \A d \in Client \ {c} : /\ waiting'[d] = waiting[d] /\ inbox'[d] = inbox[d]
                                   /\ replyPort'[d] = replyPort[d],
           Pending \subseteq Pending'
    PROVE  NoneForgotten'
<1> SUFFICES ASSUME NEW d \in Client \ {c}, waiting[d] PROVE Awaited(d)'
  BY DEF NoneForgotten
<1> QED BY AwaitedElsewhere DEF NoneForgotten

LEMMA AwaitedNext ==
    ASSUME IInv, NoneForgotten, [Next]_vars
    PROVE  NoneForgotten'
<1>0. TypeOK
  BY DEF IInv
<1>a. ASSUME UNCHANGED <<queue, busy>> PROVE Pending' = Pending
  BY <1>a DEF Pending
<1>1. CASE Server
  BY <1>1, AwaitedServer
<1>2. ASSUME NEW c \in Client, NEW r, Enter(c, r), UNCHANGED <<serverVars, waiting>>,
             UNCHANGED <<replyPort, inbox>> \/ GiveUpPort(c)
      PROVE  NoneForgotten'
  <2>1. \A d \in Client \ {c} : /\ waiting'[d] = waiting[d] /\ inbox'[d] = inbox[d]
                                /\ replyPort'[d] = replyPort[d]
    BY <1>0, <1>2 DEF TypeOK, GiveUpPort
  <2>2. ~waiting'[c] /\ Pending' = Pending
    BY <1>a, <1>2 DEF Enter, serverVars
  <2> QED BY <1>0, <2>1, <2>2, AwaitedEnd
<1>3. ASSUME NEW c \in Client, NEW r \in Called, NEW codes, NEW states, NEW right,
             Send(c, r, codes, states, right)
      PROVE  NoneForgotten'
  <2> DEFINE new == Request(c, r, codes, states, right)
  <2>1. /\ queue' = queue \cup {new} /\ busy' = busy /\ inbox' = inbox /\ replyPort' = replyPort
        /\ new.client = c /\ new.port = replyPort[c] /\ new.oneway = Stub(c, r).oneway
        /\ new.stage = "sent"
    BY <1>3 DEF Send, Request
  <2>2. waiting' = [waiting EXCEPT ![c] = ~Stub(c, r).oneway]
    BY <1>3, Zenon DEF Send
  <2> HIDE DEF new
  <2>3. Pending \subseteq Pending' /\ new \in Pending'
    BY <2>1 DEF Pending
  <2>4. \A d \in Client \ {c} : waiting'[d] = waiting[d]
    BY <1>0, <2>2, Zenon DEF TypeOK
  <2>5. CASE Stub(c, r).oneway
    <3>1. waiting'[c] = FALSE
      BY <1>0, <2>2, <2>5, Zenon DEF TypeOK
    <3> QED BY <1>0, <2>1, <2>3, <2>4, <3>1, AwaitedEnd
  <2>6. CASE ~Stub(c, r).oneway
    <3>1. Awaited(c)'
      BY <2>1, <2>3, <2>6 DEF Awaited, Current
    <3>2. ASSUME NEW d \in Client \ {c}, waiting'[d] PROVE Awaited(d)'
      BY <2>1, <2>3, <2>4, <3>2, AwaitedElsewhere DEF NoneForgotten
    <3> QED BY <3>1, <3>2 DEF NoneForgotten
  <2> QED BY <2>5, <2>6
<1>4. ASSUME NEW c \in Client, Receive(c) \/ ReceiveFails(c)
      PROVE  NoneForgotten'
  <2>1. waiting' = [waiting EXCEPT ![c] = FALSE] /\ UNCHANGED serverVars
    BY <1>4 DEF Receive, ReceiveFails
  <2>2. \A d \in Client \ {c} : inbox'[d] = inbox[d] /\ replyPort'[d] = replyPort[d]
    BY <1>0, <1>4 DEF Receive, ReceiveFails, AfterError, GiveUpPort, TypeOK
  <2>3. ~waiting'[c] /\ \A d \in Client \ {c} : waiting'[d] = waiting[d]
    BY <1>0, <2>1 DEF TypeOK
  <2> QED BY <1>0, <1>a, <2>1, <2>2, <2>3, AwaitedEnd DEF serverVars
<1>5. CASE UNCHANGED vars
  BY <1>a, <1>5, AwaitedElsewhere DEF vars, NoneForgotten
<1>6. ASSUME NEW c \in Client, Call(c) PROVE NoneForgotten'
  <2>1. ASSUME NEW r \in Called, NEW codes, NEW states, RefuseArguments(c, r, codes, states)
        PROVE  NoneForgotten'
    BY <1>2, <2>1 DEF RefuseArguments
  <2>2. ASSUME NEW r \in Called, NEW error, SendFails(c, r, error) PROVE NoneForgotten'
    BY <1>2, <2>2 DEF SendFails, AfterError
  <2> QED BY <1>3, <1>6, <2>1, <2>2 DEF Call
<1> QED BY <1>1, <1>4, <1>5, <1>6 DEF Next

-----------------------------------------------------------------------------
(* The theorems.                                                            *)

\* Calls, ports, requests and answers stay within their types: no size or count
\* leaves the naturals, a thread gives up at most one reply port per call.
THEOREM Typing == Spec => []TypeOK
<1>1. IInv => TypeOK
  BY DEF IInv
<1> QED BY <1>1, Inductive, PTL

\* What a call returns was said of this very call: no late reply answers the
\* thread's next call, whatever threads, counts and failures there are.
THEOREM OwnAnswers == Spec => []OwnAnswer
<1>1. IInv => OwnAnswer
  BY DEF IInv
<1> QED BY <1>1, Inductive, PTL

\* The stubs of *User.c and *Server.c, of either copy, agree on every request
\* and every reply for all counts, not only those of the configuration.
THEOREM Agreement == Spec => []StubsAgree
<1>1. ASSUME IInv PROVE StubsAgree
  <2>1. ASSUME NEW q \in Pending
        PROVE  IF q.routine \in DOMAIN ServerTypes(serverHome)[served].requests
               THEN /\ StubOf(q) = q.routine /\ Verdict(q) = "KERN_SUCCESS"
                    /\ Typed(UserTypes(home[q.client]), q)
                    /\ Typed(ServerTypes(serverHome), q)
               ELSE StubOf(q) = "none"
    <3>1. served \in Served /\ q.routine \in Routines
      BY <1>1, Names, PendingTyped DEF IInv, TypeOK, Requests
    <3>2. DOMAIN ServerTypes(serverHome)[served].requests = In(served)
      BY <3>1, AnyArch DEF In
    <3> QED BY <1>1, <3>1, <3>2, VerdictIs, Types, AnyArch DEF Typed
  <2>2. ASSUME NEW c \in Client, waiting[c], NEW m \in inbox[c]
        PROVE  /\ m.message.size =< Subsystems(serverHome)[served].maxsize
               /\ m.message.size + Trailer =< Stub(c, asked[c]).buffer
               /\ ResultOf(c, m.message) \notin
                      {"MIG_TYPE_ERROR", "MIG_REPLY_MISMATCH", "MIG_ARRAY_TOO_LARGE"}
    <3> DEFINE u == A!Callers[asked[c]]
               e == A!ReplyChecks[asked[c]]
               x == A!Stubs[asked[c]]
    <3>1. /\ asked[c] \in Rpcs /\ Answered(u, x, m.message) /\ served \in Served
          /\ m.message.ret = "KERN_SUCCESS" => asked[c] \in In(served)
      BY <1>1, <2>2 DEF IInv, Arrived, Ports, TypeOK
    <3>2. u.id \in Nat /\ Answering(u, e, x)
      BY <3>1, IdIsNat, AllAnswer DEF Rpcs, Routines
    <3>3. /\ m.message.size + Trailer =< u.buffer
          /\ Result(u, e, m.message)
                \in {"MIG_SERVER_DIED", "MIG_BAD_ID", "KERN_FAILURE", "KERN_SUCCESS"}
          /\ m.message.size =< x.bytes /\ m.message.size \in Nat
      <4> HIDE DEF u, e, x
      <4> QED BY <3>1, <3>2, GoodAnswer DEF Answers
    <3>4. m.message.size =< A!Subsystems[served].maxsize
      <4>1. A!Subsystems[served].maxsize \in Nat /\ A!Subsystems[served].maxsize >= 36
        BY <3>1, Fits DEF ReplyError, Header, NDR, Word
      <4>2. CASE m.message.ret = "KERN_SUCCESS"
        <5>1. x.bytes =< A!Subsystems[served].maxsize /\ x.bytes \in Nat
          BY <3>1, <3>2, <4>2, Fits DEF Answering
        <5> QED BY <3>3, <4>1, <5>1
      <4>3. CASE m.message.ret # "KERN_SUCCESS"
        <5> HIDE DEF u, x
        <5>1. \A n \in Nat : GoodReply(u.id, x, n).ret = "KERN_SUCCESS"
          BY DEF GoodReply
        <5>2. \/ m.message = DeadReply
              \/ m.message = ErrorReply(u.id, "MIG_BAD_ID")
              \/ m.message = ErrorReply(u.id, "KERN_FAILURE")
          BY <3>1, <4>3, <5>1 DEF Answered
        <5>3. DeadReply.size = 24
          BY DEF DeadReply, Header
        <5>4. /\ ErrorReply(u.id, "MIG_BAD_ID").size = 36
              /\ ErrorReply(u.id, "KERN_FAILURE").size = 36
          BY DEF ErrorReply, ReplyError, Header, NDR, Word
        <5>5. m.message.size \in {24, 36}
          BY <5>2, <5>3, <5>4
        <5> QED BY <3>3, <4>1, <5>5
      <4> QED BY <4>2, <4>3
    <3> QED BY <3>3, <3>4, AnyArch DEF Stub, ResultOf
  <2> QED BY <2>1, <2>2 DEF StubsAgree
<1> QED BY <1>1, Inductive, PTL

\* The stubs, the reply ports and the server's loop together are a remote call,
\* for any threads and counts: a call that succeeds has been carried out itself,
\* and rejecting, losing or giving up a call never brings one under way.
THEOREM Implements == Spec => CallsAreRemote
BY InitRemote, NextRemote, Inductive, PTL DEF Spec, CallsAreRemote, Remote!Spec

\* No call is carried out twice: a request that has been carried out is neither
\* queued nor taken again, whatever is lost, late or given up.
THEOREM NeverTwice == Spec => []Remote!AtMostOnce
<1>1. Init => Once
  BY DEF Init, Once, Remote!AtMostOnce, Underway, Pending
<1>2. IInv => TypeOK
  BY DEF IInv
<1>3. Once => Remote!AtMostOnce
  BY DEF Once
<1> QED BY <1>1, <1>2, <1>3, OnceNext, NextRemote, Inductive, PTL DEF Spec

\* Whoever waits has an answer in its port or a request that will be answered
\* there: what CallEnds needs of every state, for any threads and counts.
THEOREM NeverForgotten == Spec => []NoneForgotten
<1>1. Init => NoneForgotten
  BY DEF Init, NoneForgotten
<1> QED BY <1>1, AwaitedNext, Inductive, PTL DEF Spec
=============================================================================
