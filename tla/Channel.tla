------------------------------ MODULE Channel -------------------------------
(***************************************************************************)
(* adl::Channel and adl::Epoller (src/net/Channel.{h,cpp}, Epoller.cpp):   *)
(* what a channel wants to hear of (events_), its status_ in the poller,   *)
(* and what epoll reports.  Operators on channel records, used by          *)
(* TcpConnection.  kNoneEvent is EPOLLET: everything is edge-triggered.    *)
(***************************************************************************)

INIT       == "INIT"
LISTEN     == "LISTEN"
DELETED    == "DELETED"
NOT_LISTEN == "NOT_LISTEN"

Statuses == {INIT, LISTEN, DELETED, NOT_LISTEN}
ChannelType == [events : SUBSET {"read", "write"}, status : Statuses]

NewChannel == [events |-> {}, status |-> INIT]

isWriting(c) == "write" \in c.events
isReading(c) == "read" \in c.events
noEvent(c)   == c.events = {}

\* Epoller::updateChannel: ADD a new or removed channel, DEL one that wants
\* nothing any more, ADD it again when it does; MOD otherwise.
updateChannel(c) ==
  [c EXCEPT !.status =
     CASE c.status \in {INIT, DELETED}              -> LISTEN
       [] c.status = LISTEN /\ noEvent(c)           -> NOT_LISTEN
       [] c.status = NOT_LISTEN /\ ~noEvent(c)      -> LISTEN
       [] OTHER                                     -> c.status]

enableReading_NoUpdate(c) ==             \* mutant: events_ changes without update()
  [c EXCEPT !.events = @ \cup {"read"}]

enableReading(c)  == updateChannel([c EXCEPT !.events = @ \cup {"read"}])
disableReading(c) == updateChannel([c EXCEPT !.events = @ \ {"read"}])
enableWriting(c)  == updateChannel([c EXCEPT !.events = @ \cup {"write"}])
disableWriting(c) == updateChannel([c EXCEPT !.events = @ \ {"write"}])
disableAll(c)     == updateChannel([c EXCEPT !.events = {}])

\* Epoller::removeChannel, from channels_ and from epoll.
removeChannel(c) == [c EXCEPT !.status = DELETED]

registered(c) == c.status = LISTEN                  \* in epoll
mapped(c)     == c.status \in {LISTEN, NOT_LISTEN}  \* in channels_

\* The event bits that epoll may report for the channel: kReadEvent is IN, PRI
\* and RDHUP, kWriteEvent is OUT; HUP and ERR cannot be masked.
Interest(c) ==
  IF ~registered(c) THEN {}
  ELSE {"HUP", "ERR"} \cup (IF isReading(c) THEN {"IN", "RDHUP"} ELSE {})
                      \cup (IF isWriting(c) THEN {"OUT"} ELSE {})
=============================================================================
