------------------------------ MODULE Messaging ------------------------------
(***************************************************************************)
(* The conversation of one buyer with one seller about a listing:          *)
(* modules/messaging/service.py.  Opening a conversation and reading one   *)
(* take two statements each; requests may come between them.               *)
(***************************************************************************)
EXTENDS Naturals, Sequences

CONSTANTS
    Sessions,       \* requests in flight
    PageSize,       \* limit of list_messages: 100 in the code
    MaxMessages     \* bound: messages in a behaviour

ASSUME MessagingAssumption == PageSize \in Nat \ {0} /\ MaxMessages \in Nat

VARIABLES
    conversations,  \* how many rows the conversations table has for the pair
    log,            \* messages, oldest first
    calls           \* requests in flight

chatVars == <<conversations, log, calls>>

Party == {"buyer", "seller"}

\* shown: the other party was served it; early: it was read when the request that
\* marked it so had not yet loaded it (history).
Message == [sender : Party, read : BOOLEAN, shown : BOOLEAN, early : BOOLEAN]

\* "opening": found no conversation; "reading": has loaded the messages up to last.
Call == [pc : {"idle", "opening", "reading"}, by : Party, last : 0..MaxMessages]
NoCall == [pc |-> "idle", by |-> "buyer", last |-> 0]

ChatTypeOK ==
    /\ conversations \in 0..1
    /\ log \in Seq(Message) /\ Len(log) <= MaxMessages
    /\ calls \in [Sessions -> Call]

ChatInit ==
    /\ conversations = 0
    /\ log = <<>>
    /\ calls = [c \in Sessions |-> NoCall]

\* get_or_create_conversation
FindConversation(c) ==
    /\ calls[c] = NoCall
    /\ conversations = 0
    /\ calls' = [calls EXCEPT ![c].pc = "opening"]
    /\ UNCHANGED <<conversations, log>>

\* MUTANT: the table has no unique constraint
InsertAnother(c) ==
    /\ calls[c].pc = "opening"
    /\ conversations' = conversations + 1
    /\ calls' = [calls EXCEPT ![c] = NoCall]
    /\ UNCHANGED log

\* uq_conversation_listing_buyer refuses the second of two inserts.
InsertConversation(c) ==
    /\ calls[c].pc = "opening"
    /\ conversations' = IF conversations = 0 THEN 1 ELSE conversations
    /\ calls' = [calls EXCEPT ![c] = NoCall]
    /\ UNCHANGED log

SendMessage(c, p) ==
    /\ calls[c] = NoCall
    /\ conversations # 0
    /\ Len(log) < MaxMessages
    /\ log' = Append(log, [sender |-> p, read |-> FALSE, shown |-> FALSE, early |-> FALSE])
    /\ UNCHANGED <<conversations, calls>>

\* list_messages loads the newest messages ...
LoadMessages(c, p) ==
    /\ calls[c] = NoCall
    /\ conversations # 0
    /\ calls' = [calls EXCEPT ![c] = [pc |-> "reading", by |-> p, last |-> Len(log)]]
    /\ UNCHANGED <<conversations, log>>

Page(call) == {k \in 1..call.last : k > call.last - PageSize}

\* MUTANT: the reader's own messages are marked as well
MarkAllRead(c) ==
    LET call == calls[c] IN
    /\ call.pc = "reading"
    /\ log' = [k \in DOMAIN log |->
                 [log[k] EXCEPT !.read = TRUE,
                                !.shown = @ \/ (log[k].sender # call.by /\ k \in Page(call)),
                                !.early = @ \/ (~log[k].read /\ k > call.last)]]
    /\ calls' = [calls EXCEPT ![c] = NoCall]
    /\ UNCHANGED conversations

\* ... marks every message of the other party as read, loaded or not, commits
\* and answers with those it has loaded.
MarkRead(c) ==
    LET call == calls[c] IN
    /\ call.pc = "reading"
    /\ log' = [k \in DOMAIN log |->
                 IF log[k].sender = call.by THEN log[k]
                 ELSE [log[k] EXCEPT !.read = TRUE,
                                     !.shown = @ \/ k \in Page(call),
                                     !.early = @ \/ (~log[k].read /\ k > call.last)]]
    /\ calls' = [calls EXCEPT ![c] = NoCall]
    /\ UNCHANGED conversations

\* unread_total: the badge of p.
Unread(p) == {k \in DOMAIN log : log[k].sender # p /\ ~log[k].read}

ChatNext ==
    \E c \in Sessions :
        \/ FindConversation(c) \/ InsertConversation(c) \/ MarkRead(c)
        \/ \E p \in Party : SendMessage(c, p) \/ LoadMessages(c, p)

ChatSpec == ChatInit /\ [][ChatNext]_chatVars

\* messaging/service.py:158 "Reading the thread marks the other party's messages
\* as read": what no longer counts as unread was shown to its reader - or was not
\* among the newest PageSize, or came while the reader's request was running.
ReadWasShown ==
    \A p \in Party, k \in DOMAIN log :
        log[k].sender # p /\ k \notin Unread(p) => log[k].shown \/ log[k].early \/ k + PageSize <= Len(log)
=============================================================================
