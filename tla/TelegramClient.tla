--------------------------- MODULE TelegramClient ---------------------------
(***************************************************************************)
(* go/telegram/app.go and net.go: one goroutine keeps the chats and what is *)
(* to go out; a worker does one request at a time over a connection it      *)
(* keeps, and gives the answer back.                                        *)
(*                                                                         *)
(* A message typed here is a number and, for the properties, who it was     *)
(* meant for.  A text queues with the row of its chat; a screenshot queues  *)
(* with its recipient.  An update of a bot is its number and its writer.    *)
(***************************************************************************)
EXTENDS Integers, Sequences, SequencesExt, FiniteSets

CONSTANTS People, MaxChats, MaxOut,     \* maxChats, maxOut
          Bots,                         \* tokens that can be typed, 1 first
          MaxUpdates, MaxTyped, MaxChanges,   \* bounds: written, typed, tokens asked for again
          Kept                          \* the worker's connection outlives a request

VARIABLES chats,    \* the people in the rows on the left
          cur,      \* the row on the right, 0 for none
          outbox,   \* [n, row, to]
          photo,    \* the screenshot queued: <<>> or <<[n, to]>>
          bot, setup, named, offset,    \* token, asking for it, getMe done
          request, stale,
          job,      \* the worker's: [kind, offset, fresh, handled, stop]
          inbox,    \* per bot: who wrote to it, in order
          shown,    \* history: <<bot, update>> shown
          arrived,  \* history, per number: who Telegram delivered it to, first and last
          unsent,   \* numbers shown as "not sent"
          changes   \* history: how often the token was changed, and the numbers sent again

ui == <<chats, cur, outbox, photo, bot, setup, named, offset>>
vars == <<ui, request, stale, job, inbox, shown, arrived, unsent, changes>>

NoJob == [kind |-> "none", offset |-> 0, fresh |-> FALSE, handled |-> FALSE, stop |-> FALSE]
Typed == DOMAIN arrived

Init == /\ chats = <<>> /\ cur = 0 /\ outbox = <<>> /\ photo = <<>>
        /\ bot = 1 /\ setup = FALSE /\ named = FALSE /\ offset = 1
        /\ request = "none" /\ stale = FALSE /\ job = NoJob
        /\ inbox = [b \in Bots |-> <<>>] /\ shown = <<>> /\ arrived = <<>> /\ unsent = {} /\ changes = [token |-> 0, again |-> {}]

-----------------------------------------------------------------------------
(* Chats.                                                                   *)

\* chatFor(): the row of that chat; a full list gives up its last one.
RowFor(cs, p) == CASE \E i \in DOMAIN cs : cs[i] = p -> CHOOSE i \in DOMAIN cs : cs[i] = p
                   [] Len(cs) < MaxChats -> Len(cs) + 1
                   [] OTHER -> MaxChats
ChatFor(cs, p) == [i \in 1 .. (IF RowFor(cs, p) > Len(cs) THEN Len(cs) + 1 ELSE Len(cs)) |->
                    IF i = RowFor(cs, p) THEN p ELSE cs[i]]

Select(row) == /\ row \in DOMAIN chats /\ cur' = row
               /\ UNCHANGED <<chats, outbox, photo, bot, setup, named, offset, request, stale, job,
                              inbox, shown, arrived, unsent, changes>>

-----------------------------------------------------------------------------
(* What is typed.                                                           *)

\* interruptPoll(): the worker sees the flag in its next wait, if it waits again.
InterruptPoll(j) == [j EXCEPT !.stop = @ \/ request = "poll"]

SendText ==
    /\ ~setup /\ cur > 0 /\ Len(arrived) < MaxTyped /\ Len(outbox) < MaxOut
    /\ outbox' = Append(outbox, [n |-> Len(arrived) + 1, row |-> cur, to |-> chats[cur]])
    /\ UNCHANGED photo

SendScreenshot ==
    /\ ~setup /\ cur > 0 /\ Len(arrived) < MaxTyped /\ photo = <<>>
    /\ photo' = <<[n |-> Len(arrived) + 1, to |-> chats[cur]]>>
    /\ UNCHANGED outbox

Send == /\ SendText \/ SendScreenshot
        /\ arrived' = Append(arrived, <<>>)
        /\ job' = InterruptPoll(job)
        /\ UNCHANGED <<chats, cur, bot, setup, named, offset, request, stale, inbox, shown, unsent, changes>>

\* backToSetup(): the answer on its way is no longer wanted.
BackToSetup == /\ setup' = TRUE
               /\ stale' = (request # "none")
               /\ job' = [job EXCEPT !.stop = request # "none"]

ChangeToken == /\ ~setup /\ changes.token < MaxChanges /\ changes' = [changes EXCEPT !.token = @ + 1] /\ BackToSetup
               /\ UNCHANGED <<chats, cur, outbox, photo, bot, named, offset, request, inbox, shown, arrived, unsent>>

\* A token is typed: startChatting().
TypeToken(b) == /\ setup /\ b >= bot /\ bot' = b /\ setup' = FALSE /\ named' = FALSE
                /\ UNCHANGED <<chats, cur, outbox, photo, offset, request, stale, job, inbox, shown, arrived, unsent, changes>>

-----------------------------------------------------------------------------
(* Requests.                                                                *)

\* startNext(): the token first, then what is to go out, then the long poll.
NextKind == CASE ~named -> "getMe"
              [] named /\ outbox # <<>> -> "send"
              [] named /\ outbox = <<>> /\ photo # <<>> -> "photo"
              [] OTHER -> "poll"

Idle == /\ ~setup /\ request = "none"
        /\ request' = NextKind
        /\ job' = [kind |-> NextKind, offset |-> offset, fresh |-> ~Kept, handled |-> FALSE, stop |-> FALSE]
        /\ UNCHANGED <<ui, stale, inbox, shown, arrived, unsent, changes>>

\* Faulty variant: the chat on the right gets what was queued.
RecipientOnScreen == IF job.kind = "send" THEN chats[cur] ELSE photo[1].to

Recipient == IF job.kind = "send" THEN chats[outbox[1].row] ELSE photo[1].to

OutNumber == IF job.kind = "send" THEN outbox[1].n ELSE photo[1].n

\* Telegram reads the request and does what it says.
Handled ==
    /\ job.kind # "none" /\ ~job.handled
    /\ job' = [job EXCEPT !.handled = TRUE]
    /\ arrived' = IF job.kind \in {"send", "photo"}
                  THEN [arrived EXCEPT ![OutNumber] = IF Len(@) < 2 THEN Append(@, Recipient) ELSE <<@[1], Recipient>>] ELSE arrived
    /\ UNCHANGED <<ui, request, stale, inbox, shown, unsent, changes>>

\* Telegram has read the message, which nobody here learns: it will be sent again.
SentAgain == [changes EXCEPT !.again = IF job.handled /\ job.kind \in {"send", "photo"} THEN @ \cup {OutNumber} ELSE @]

\* The connection fails before an answer: a kept one is tried again, once.
Retried == /\ job.kind # "none" /\ ~job.fresh /\ ~job.stop
           /\ job' = [job EXCEPT !.fresh = TRUE, !.handled = FALSE]
           /\ changes' = SentAgain
           /\ UNCHANGED <<ui, request, stale, inbox, shown, arrived, unsent>>

\* outNotSent(), photoNotSent().
NotSent(kind) ==
    /\ unsent' = unsent \cup (IF kind = "send" THEN {outbox[1].n} ELSE IF kind = "photo" THEN {photo[1].n} ELSE {})
    /\ outbox' = IF kind = "send" THEN Tail(outbox) ELSE outbox
    /\ photo' = IF kind = "photo" THEN <<>> ELSE photo

\* finished(), the answer no longer wanted: what it was about still waits.
FinishedStale ==
    /\ stale /\ job.kind # "none" /\ (job.stop \/ job.fresh \/ job.handled)
    /\ request' = "none" /\ stale' = FALSE /\ job' = NoJob
    /\ changes' = SentAgain
    /\ UNCHANGED <<ui, inbox, shown, arrived, unsent>>

\* No answer, or part of one, after which a kept connection's POST is not tried again; a poll
\* that was stopped is no failure.
FinishedError ==
    /\ ~stale /\ job.kind # "none"
    /\ job.stop \/ job.fresh \/ (job.handled /\ job.kind \in {"send", "photo"})
    /\ request' = "none" /\ job' = NoJob
    /\ NotSent(request)
    /\ UNCHANGED <<chats, cur, bot, setup, named, offset, stale, inbox, shown, arrived, changes>>

\* Telegram refuses: the token, or only this request.
FinishedRefused(token) ==
    /\ ~stale /\ job.kind # "none" /\ ~job.handled
    /\ request' = "none" /\ job' = NoJob
    /\ IF token THEN setup' = TRUE /\ UNCHANGED <<outbox, photo, unsent>>
       ELSE UNCHANGED setup /\ NotSent(job.kind)
    /\ UNCHANGED <<chats, cur, bot, named, offset, stale, inbox, shown, arrived, changes>>

Answered(kind) == /\ ~stale /\ job.kind = kind /\ job.handled /\ request' = "none" /\ job' = NoJob

FinishedGetMe == /\ Answered("getMe") /\ named' = TRUE
                 /\ UNCHANGED <<chats, cur, outbox, photo, bot, setup, offset, stale, inbox, shown, arrived, unsent, changes>>

\* The answer is the message as sent, shown in its chat.
FinishedSend(kind) ==
    /\ Answered(kind)
    /\ LET to == Last(arrived[OutNumber]) IN
       /\ chats' = ChatFor(chats, to)
       /\ cur' = IF cur = 0 THEN RowFor(chats, to) ELSE cur
    /\ outbox' = IF kind = "send" THEN Tail(outbox) ELSE outbox
    /\ photo' = IF kind = "photo" THEN <<>> ELSE photo
    /\ UNCHANGED <<bot, setup, named, offset, stale, inbox, shown, arrived, unsent, changes>>

Repeated(id) == id < offset

OffsetAfter(id) == id + 1

\* The updates of a poll: from the offset it asked for, or ones that come again.
FinishedPoll(first) ==
    /\ Answered("poll") /\ first \in {1, job.offset}
    /\ LET new == SelectSeq([i \in 1 .. Len(inbox[bot]) |-> i], LAMBDA i : i >= first /\ ~Repeated(i)) IN
       /\ offset' = IF new = <<>> THEN offset ELSE OffsetAfter(Last(new))
       /\ shown' = shown \o [i \in DOMAIN new |-> <<bot, new[i]>>]
       /\ chats' = FoldLeft(LAMBDA cs, i : ChatFor(cs, inbox[bot][i]), chats, new)
       /\ cur' = IF cur = 0 /\ new # <<>> THEN 1 ELSE cur
    /\ UNCHANGED <<outbox, photo, bot, setup, named, stale, inbox, arrived, unsent, changes>>

\* Someone writes to a bot.
Write(b, p) == /\ Len(inbox[b]) < MaxUpdates
               /\ inbox' = [inbox EXCEPT ![b] = Append(@, p)]
               /\ UNCHANGED <<ui, request, stale, job, shown, arrived, unsent, changes>>

Finished == \/ FinishedStale \/ FinishedError \/ FinishedGetMe
            \/ \E k \in {"send", "photo"} : FinishedSend(k)
            \/ \E f \in {1, job.offset} : FinishedPoll(f)
            \/ \E t \in BOOLEAN : FinishedRefused(t)

Next == \/ \E row \in 1 .. MaxChats : Select(row)
        \/ Send \/ ChangeToken \/ Idle \/ Handled \/ Retried \/ Finished
        \/ \E b \in Bots : TypeToken(b) \/ \E p \in People : Write(b, p)

\* The loop turns, and a request ends: the worker's timeouts see to it.
Spec == Init /\ [][Next]_vars /\ WF_vars(Idle) /\ WF_vars(Handled) /\ WF_vars(Finished)

-----------------------------------------------------------------------------
\* The last row, which makes room in a full list, is someone else's by now.
GivenAway(o) == o \in Range(outbox) /\ o.row = MaxChats /\ chats[o.row] # o.to

\* app.go: what is typed goes to whoever it was typed for, although it queues with a row: rows
\* stay who they are while chats are selected, answered and added, but for the last one of a
\* full list: chatFor() gives it to whoever writes next (app.go:387), and what was typed for
\* the chat before goes to them.
RightPerson == \A n \in Typed : \A i \in DOMAIN arrived[n] :
    \A o \in Range(outbox) \cup Range(photo) : o.n = n => arrived[n][i] = o.to \/ GivenAway(o)

\* Nothing typed is forgotten: it waits, it arrived, or it is shown as not sent.
NothingForgotten == \A n \in Typed :
    arrived[n] # <<>> \/ n \in unsent \/ \E o \in Range(outbox) \cup Range(photo) : o.n = n

\* No update is shown twice, although a poll that was stopped is asked again.
ShownOnce == \A i, j \in DOMAIN shown : i # j => shown[i] # shown[j]

\* "The updates it would have brought come again, because the offset only moves past
\* what has been read": every update below the offset has been shown.
OffsetIsRead == \A u \in 1 .. Len(inbox[bot]) : u < offset => <<bot, u>> \in Range(shown)

\* What is typed arrives once.  It arrives again in two cases only: the kept connection it went
\* out on ends before the answer, although net.go:182 says of a POST to which nothing came back
\* that "it was not read"; or the token is changed while it is on its way.
ArrivesOnce == \A n \in Typed : Len(arrived[n]) > 1 => n \in changes.again /\ (Kept \/ changes.token > 0)

\* A message does not wait for ever behind other requests, while the token is good.
Waits(n) == \E o \in Range(outbox) : o.n = n
=============================================================================
