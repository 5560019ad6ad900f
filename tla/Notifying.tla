------------------------------- MODULE Notifying -------------------------------
(***************************************************************************)
(* The notification channels and what is sent through them: Notify with    *)
(* its rate limit for each channel (notifier/notifier.go), the Telegram    *)
(* sender (notifier/telegram.go), the channels' repository                 *)
(* (models/channel.go) and handlers (handlers/notifications.go).           *)
(* A channel is read before the limiter may keep its message waiting.      *)
(***************************************************************************)
EXTENDS Integers, FiniteSets

CONSTANTS
  Channels,     \* channel ids, each used once
  Callers,      \* evaluations and tests that may run together
  Hurried,      \* the callers with a deadline, the tests
  Deadline,     \* theirs, in ticks of the limiter
  Burst,        \* the tokens a limiter holds
  MaxTokens,    \* bound on the bot tokens a channel is given
  NoRow,        \* no channel: not created yet, or deleted
  MaxTroubles   \* bound on failing statements and sends

VARIABLES
  row,          \* channel -> [enabled, token], token 0 for none
  unborn,       \* channel ids not used yet
  edits,        \* bot tokens given so far
  patching,     \* the channel as PATCH read it with its changes, or NoRow
  patched,      \* the channel PATCH is about, or NoRow
  pc, todo,     \* caller -> where it stands, channels still to be notified
  at, copy,     \* caller -> the channel at hand, as it was read
  due, left,    \* caller -> ticks until its turn, until its deadline
  delivered, failed,  \* caller -> channels by what became of them
  asked,        \* history: caller -> the channels it was called with
  limiter,      \* channel -> tokens, negative if reserved ahead
  level,        \* history: channel -> messages beyond one a tick
  troubles

rows == <<row, unborn, edits, patching, patched>>
call == <<pc, todo, at, copy, due, left, delivered, failed, asked>>
vars == <<rows, call, limiter, level, troubles>>

Trouble == troubles < MaxTroubles /\ troubles' = troubles + 1

Init ==
  /\ row = [c \in Channels |-> NoRow] /\ unborn = Channels /\ edits = 0
  /\ patching = NoRow /\ patched = NoRow
  /\ pc = [g \in Callers |-> "idle"] /\ todo = [g \in Callers |-> {}]
  /\ at = [g \in Callers |-> NoRow] /\ copy = [g \in Callers |-> NoRow]
  /\ due = [g \in Callers |-> 0] /\ left = [g \in Callers |-> 0]
  /\ delivered = [g \in Callers |-> {}] /\ failed = [g \in Callers |-> {}]
  /\ asked = [g \in Callers |-> {}]
  /\ limiter = [c \in Channels |-> Burst] /\ level = [c \in Channels |-> 0]
  /\ troubles = 0

-----------------------------------------------------------------------------
(* The channels.                                                           *)

\* Slip: a row is looked at without its secret.
ValidateName(ch) == ch.enabled \in BOOLEAN

\* validateChannel: a token and a chat id, which the token stands for too.
Validate(ch) == ch.enabled \in BOOLEAN /\ ch.token # 0

\* ChannelRepo.Create, Update and Delete: the columns go in whole, if they are
\* valid; a row that is gone is neither written nor deleted.
InsertRow(c, ch) == Validate(ch) /\ row' = [row EXCEPT ![c] = ch]

UpdateRow(c, ch) ==
  row' = IF row[c] # NoRow /\ Validate(ch) THEN [row EXCEPT ![c] = ch] ELSE row

EraseRow(c) == row[c] # NoRow /\ row' = [row EXCEPT ![c] = NoRow]

\* createChannel
CreateChannel(c) ==
  /\ c \in unborn /\ edits < MaxTokens
  /\ \E enabled \in BOOLEAN : InsertRow(c, [enabled |-> enabled, token |-> edits + 1])
  /\ unborn' = unborn \ {c} /\ edits' = edits + 1
  /\ UNCHANGED <<patching, patched, call, limiter, level, troubles>>

\* mergeConfig: a new token, null, or no token or an empty one.
MergeConfig(ch) ==
  {ch, [ch EXCEPT !.token = 0]} \union
  {[ch EXCEPT !.token = edits + 1] : e \in {edits} \cap 0..MaxTokens - 1}

\* patchChannel reads the row and applies the body ...
PatchChannel(c) ==
  /\ patched = NoRow /\ row[c] # NoRow /\ patched' = c
  /\ \E ch \in MergeConfig(row[c]), enabled \in BOOLEAN :
       /\ patching' = [ch EXCEPT !.enabled = enabled]
       /\ edits' = IF ch.token > edits THEN edits + 1 ELSE edits
  /\ UNCHANGED <<row, unborn, call, limiter, level, troubles>>

\* ... and writes the whole back.
UpdateChannel ==
  /\ patched # NoRow /\ patched' = NoRow /\ patching' = NoRow
  /\ UpdateRow(patched, patching)
  /\ UNCHANGED <<unborn, edits, call, limiter, level, troubles>>

\* deleteChannel; the rules that name the channel keep its id.
DeleteChannel(c) ==
  /\ EraseRow(c)
  /\ UNCHANGED <<unborn, edits, patching, patched, call, limiter, level, troubles>>

-----------------------------------------------------------------------------
(* Notify.                                                                 *)

\* An evaluation with the channels of its rule, a test with its channel.
Notify(g, ids) ==
  /\ pc[g] = "idle" /\ ids \subseteq Channels \ unborn
  /\ g \in Hurried => Cardinality(ids) = 1
  /\ pc' = [pc EXCEPT ![g] = "next"] /\ todo' = [todo EXCEPT ![g] = ids]
  /\ asked' = [asked EXCEPT ![g] = ids]
  /\ left' = [left EXCEPT ![g] = IF g \in Hurried THEN Deadline ELSE 0]
  /\ UNCHANGED <<rows, at, copy, due, delivered, failed, limiter, level, troubles>>

\* testChannel: one channel, if it is there.
TestChannel(g, c) == g \in Hurried /\ row[c] # NoRow /\ Notify(g, {c})

\* The call goes on with the next channel, c counted among those of how.
Pass(g, c) ==
  /\ pc' = [pc EXCEPT ![g] = "next"] /\ todo' = [todo EXCEPT ![g] = @ \ {c}]
  /\ at' = [at EXCEPT ![g] = NoRow] /\ copy' = [copy EXCEPT ![g] = NoRow]
  /\ due' = [due EXCEPT ![g] = 0]

Fail(g, c) == Pass(g, c) /\ failed' = [failed EXCEPT ![g] = @ \union {c}]

\* The channel is gone, disabled, or cannot be read.
Skip(g, c) ==
  /\ pc[g] = "next" /\ c \in todo[g]
  /\ \/ UNCHANGED troubles /\ (row[c] # NoRow => ~row[c].enabled)
     \/ Trouble
  /\ Fail(g, c)
  /\ UNCHANGED <<rows, left, delivered, asked, limiter, level>>

Turn(c) == IF limiter[c] >= 1 THEN 0 ELSE 1 - limiter[c]
InTime(g, c) == g \in Hurried => Turn(c) <= left[g]

\* Slip: a limiter of one's own.
ReserveApart(g, c) == due' = [due EXCEPT ![g] = 0] /\ UNCHANGED limiter

\* limiterFor: one limiter for a channel, whoever sends.  Its Wait takes a
\* token at once, one of the future if need be.
Reserve(g, c) ==
  /\ due' = [due EXCEPT ![g] = Turn(c)]
  /\ limiter' = [limiter EXCEPT ![c] = @ - 1]

\* The channel is read and waitLimiter called.
Take(g, c) ==
  /\ pc[g] = "next" /\ c \in todo[g] /\ row[c] # NoRow /\ row[c].enabled
  /\ InTime(g, c) /\ Reserve(g, c)
  /\ pc' = [pc EXCEPT ![g] = "wait"] /\ at' = [at EXCEPT ![g] = c]
  /\ copy' = [copy EXCEPT ![g] = row[c]]
  /\ UNCHANGED <<rows, todo, left, delivered, failed, asked, level, troubles>>

\* Wait does not begin to wait beyond the deadline.
TooLate(g, c) ==
  /\ pc[g] = "next" /\ c \in todo[g] /\ row[c] # NoRow /\ row[c].enabled
  /\ ~InTime(g, c) /\ Fail(g, c)
  /\ UNCHANGED <<rows, left, delivered, asked, limiter, level, troubles>>

\* The wait is over: the message is on its way.
Go(g) ==
  /\ pc[g] = "wait" /\ due[g] = 0 /\ pc' = [pc EXCEPT ![g] = "send"]
  /\ level' = [level EXCEPT ![at[g]] = @ + 1]
  /\ UNCHANGED <<rows, todo, at, copy, due, left, delivered, failed, asked, limiter, troubles>>

\* Slip: what could not be sent is delivered.
SendAnyway(g) ==
  /\ pc[g] = "send" /\ Pass(g, at[g])
  /\ delivered' = [delivered EXCEPT ![g] = @ \union {at[g]}]
  /\ \/ UNCHANGED <<failed, troubles>>
     \/ Trouble /\ failed' = [failed EXCEPT ![g] = @ \union {at[g]}]
  /\ UNCHANGED <<rows, left, asked, limiter, level>>

\* TelegramSender.Send, with the channel as it was read.
Send(g) ==
  /\ pc[g] = "send"
  /\ \/ /\ copy[g].token # 0 /\ Pass(g, at[g]) /\ UNCHANGED <<failed, troubles>>
        /\ delivered' = [delivered EXCEPT ![g] = @ \union {at[g]}]
     \/ /\ copy[g].token = 0 /\ Fail(g, at[g]) /\ UNCHANGED <<delivered, troubles>>
     \/ Trouble /\ Fail(g, at[g]) /\ UNCHANGED delivered
  /\ UNCHANGED <<rows, left, asked, limiter, level>>

Return(g) ==
  /\ pc[g] = "next" /\ todo[g] = {} /\ pc' = [pc EXCEPT ![g] = "idle"]
  /\ delivered' = [delivered EXCEPT ![g] = {}] /\ failed' = [failed EXCEPT ![g] = {}]
  /\ asked' = [asked EXCEPT ![g] = {}] /\ left' = [left EXCEPT ![g] = 0]
  /\ UNCHANGED <<rows, todo, at, copy, due, limiter, level, troubles>>

Down(n) == IF n = 0 THEN 0 ELSE n - 1

\* A tick of the limiters: timers run as soon as they are due.
Tick ==
  /\ \A g \in Callers : pc[g] = "wait" => due[g] > 0
  /\ limiter' = [c \in Channels |-> IF limiter[c] < Burst THEN limiter[c] + 1 ELSE Burst]
  /\ level' = [c \in Channels |-> Down(level[c])]
  /\ due' = [g \in Callers |-> Down(due[g])]
  /\ left' = [g \in Callers |-> Down(left[g])]
  /\ UNCHANGED <<rows, pc, todo, at, copy, delivered, failed, asked, troubles>>

Step(g) ==
  \/ Go(g) \/ Send(g) \/ Return(g)
  \/ \E c \in Channels : Skip(g, c) \/ Take(g, c) \/ TooLate(g, c)

Next ==
  \/ Tick \/ UpdateChannel
  \/ \E c \in Channels : CreateChannel(c) \/ PatchChannel(c) \/ DeleteChannel(c)
  \/ \E g \in Callers : \/ Step(g)
                        \/ \E ids \in SUBSET Channels \ {{}} : Notify(g, ids)
                        \/ \E c \in Channels : TestChannel(g, c)

Spec == Init /\ [][Next]_vars

-----------------------------------------------------------------------------
(* Properties.                                                             *)

\* Every variable has its type.
TypeOK ==
  /\ \A c \in Channels : row[c] # NoRow => row[c] \in [enabled : BOOLEAN, token : 0..MaxTokens]
  /\ unborn \subseteq Channels /\ edits \in 0..MaxTokens
  /\ patched = NoRow <=> patching = NoRow
  /\ pc \in [Callers -> {"idle", "next", "wait", "send"}]
  /\ todo \in [Callers -> SUBSET Channels] /\ asked \in [Callers -> SUBSET Channels]
  /\ \A g \in Callers : at[g] # NoRow <=> pc[g] \in {"wait", "send"}
  /\ delivered \in [Callers -> SUBSET Channels] /\ failed \in [Callers -> SUBSET Channels]
  /\ \A c \in Channels : limiter[c] \in -Cardinality(Callers)..Burst
  /\ troubles \in 0..MaxTroubles

\* Whoever sends, and through whatever waits, a channel never gets more than
\* its burst beyond one message a tick.
RateKept == \A c \in Channels : level[c] <= Burst

\* A channel that is stored can be sent through, whatever was merged and
\* written over one another: none is left without its secret.
AlwaysSendable == \A c \in Channels : row[c] # NoRow => row[c].token # 0

\* Every channel a call was asked for ends in exactly one of the two answers,
\* whichever of them were deleted, disabled or late under way.
EachAccounted ==
  \A g \in Callers :
    /\ asked[g] = delivered[g] \union failed[g] \union todo[g]
    /\ delivered[g] \cap failed[g] = {} /\ (delivered[g] \union failed[g]) \cap todo[g] = {}

\* notifier.go: "Disabled channels are skipped".  What is sent is sent to a
\* channel that is enabled, with the token it has.
SentAsItIs ==
  \A g \in Callers : pc[g] = "send" => row[at[g]] = copy[g]

=============================================================================
