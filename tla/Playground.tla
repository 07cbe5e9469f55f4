----------------------------- MODULE Playground -----------------------------
(***************************************************************************)
(* The chat playground of the web console                                  *)
(* (web/default/src/features/playground): the conversation the page keeps, *)
(* the streaming and non-streaming requests it sends, the timers that      *)
(* flush received chunks and save the conversation, and what a reload      *)
(* finds in localStorage.                                                  *)
(*                                                                         *)
(* Every handler of the page (a click, an event of the stream, a promise   *)
(* that settles, a timer) runs to its end before the next: one action      *)
(* each.  What they may not assume is the order in which they run, nor     *)
(* that a click handler sees the newest state: it sees what was rendered   *)
(* last (shown).                                                           *)
(*                                                                         *)
(* A text is a sequence of pieces; a piece names the request whose reply   *)
(* it belongs to and what it says, and a reply may say the same more than  *)
(* once.  A request is named by the key of the assistant message created   *)
(* with it.  Reasoning travels the same way as content and is not kept     *)
(* apart; sizes in characters, timings and the splitting of think tags are *)
(* left out.                                                               *)
(***************************************************************************)
EXTENDS Integers, Sequences, FiniteSets

CONSTANTS
  MaxKey,       \* bound: messages created
  MaxPieces,    \* bound: pieces of one streamed reply
  MaxLeaves,    \* bound: times the page is left or reloaded
  MaxStored,    \* MAX_STORED_MESSAGES
  Habits        \* what users do that the page does not rule out:
                \* "early"   a prompt is sent before the conversation is loaded
                \* "editor"  an open editor is submitted during a generation

ASSUME PlaygroundAssumption ==
  /\ MaxKey \in Nat /\ MaxPieces \in Nat \ {0} /\ MaxLeaves \in Nat
  /\ MaxStored \in Nat \ {0}
  /\ Habits \subseteq {"early", "editor"}

VARIABLES
  messages,     \* the conversation (state of usePlaygroundState)
  shown,        \* what is rendered, and so what click handlers close over
  editing,      \* editingMessageKey, 0 for null
  stream,       \* config.stream
  isStreaming,  \* state of useStreamRequest
  isRequesting, \* state of useChatHandler
  source,       \* sseSourceRef: the request of the open stream, 0 for null
  silent,       \* the open stream was closed by the server without [DONE]
  calls,        \* non-streaming requests that have not settled nor been aborted
  lastCall,     \* requestIdRef
  controller,   \* abortControllerRef: the request it aborts, 0 for null
  pending,      \* pendingStreamChunksRef
  flushTimer,   \* streamFlushTimerRef is set
  saveTimer,    \* messagesSaveTimerRef is set
  stored,       \* the messages in localStorage
  refused,      \* history: localStorage refused the page's last access to it,
                \* and does not hold what the page shows for that reason
  page,         \* "loading" until loadMessages has run, then "ready"
  nextKey,      \* the next message key
  leaves,       \* times the page was left (bound)
  reply         \* history: the newest request and what has arrived for it

chatVars == <<isStreaming, isRequesting, source, silent, calls, lastCall,
              controller, pending, flushTimer>>
pageVars == <<editing, stream, page, nextKey, leaves>>
vars == <<messages, shown, chatVars, pageVars, saveTimer, stored, refused, reply>>

-----------------------------------------------------------------------------
(***************************************************************************)
(* Messages and texts                                                      *)
(***************************************************************************)

\* A piece of the reply to request k that says n.
Piece(k, n) == [req |-> k, n |-> n]

\* Text that no server sent: what a user wrote, and a description of an error.
Written == <<Piece(0, 0)>>
Failure == <<Piece(0, 1)>>

CreateUserMessage(k) == [key |-> k, from |-> "user", status |-> "none", text |-> Written]

CreateLoadingAssistantMessage(k) ==
  [key |-> k, from |-> "assistant", status |-> "loading", text |-> <<>>]

IsPending(m) == m.status \in {"loading", "streaming"}
IsFinal(m) == m.status \in {"complete", "error"}

StartsWith(text, prefix) ==
  /\ Len(prefix) <= Len(text)
  /\ SubSeq(text, 1, Len(prefix)) = prefix

\* Text that begins with all there is so far is taken for a newer snapshot of
\* it, also when it only happens to say the same again.
Snapshot(current, next) == current # <<>> /\ StartsWith(next, current)

\* A chunk joins the chunks that wait since the last flush.
MergePendingStreamChunk(current, next) ==
  IF Snapshot(current, next) THEN next ELSE current \o next

\* The part of a chunk that the message does not hold yet.
GetAppendableChunk(current, chunk) ==
  IF Snapshot(current, chunk)
  THEN SubSeq(chunk, Len(current) + 1, Len(chunk))
  ELSE chunk

\* A message in error keeps its text; any other one is streaming again.
ApplyStreamingChunk(m, chunk) ==
  IF m.status = "error" THEN m
  ELSE [m EXCEPT !.text = @ \o GetAppendableChunk(@, chunk), !.status = "streaming"]

CompleteAssistantMessage(m) == [m EXCEPT !.status = "complete"]

\* Mutant: a status the storage schema does not know.
WithErrorUnknown(m) == [m EXCEPT !.text = Failure, !.status = "failed"]

WithError(m) == [m EXCEPT !.text = Failure, !.status = "error"]

Last(ms) == ms[Len(ms)]

\* Only the last message can be updated, and only if it is the assistant's.
UpdateLastAssistantMessage(ms, updated) ==
  IF ms # <<>> /\ Last(ms).from = "assistant"
  THEN [ms EXCEPT ![Len(ms)] = updated]
  ELSE ms

Index(ms, k) == CHOOSE i \in 1 .. Len(ms) : ms[i].key = k
Keys(ms) == {ms[i].key : i \in 1 .. Len(ms)}

\* Regenerate: a user message is kept, an assistant message is replaced.
CreateRegeneratedMessages(ms, k, new) ==
  LET i == Index(ms, k)
  IN  SubSeq(ms, 1, IF ms[i].from = "user" THEN i ELSE i - 1)
        \o <<CreateLoadingAssistantMessage(new)>>

\* The filter drops one message at most: keys are unique (Tidy, below).
RemoveMessageByKey(ms, k) ==
  IF k \in Keys(ms)
  THEN SubSeq(ms, 1, Index(ms, k) - 1) \o SubSeq(ms, Index(ms, k) + 1, Len(ms))
  ELSE ms

-----------------------------------------------------------------------------
(***************************************************************************)
(* Saving and loading                                                      *)
(***************************************************************************)

TrimMessages(ms) ==
  IF Len(ms) <= MaxStored THEN ms ELSE SubSeq(ms, Len(ms) - MaxStored + 1, Len(ms))

\* A stored message that was still being answered is closed if it has text.
NormalizeStoredMessageForLoad(m) ==
  IF IsPending(m) /\ m.text # <<>> THEN CompleteAssistantMessage(m) ELSE m

\* Mutant: nothing is done about an interrupted message without text.
SanitizeNothing(ms) == ms

\* The last message still pending after that becomes an "interrupted" error.
SanitizeMessagesOnLoad(ms) ==
  LET stuck == {i \in 1 .. Len(ms) : ms[i].from = "assistant" /\ IsPending(ms[i])}
  IN  IF stuck = {} THEN ms
      ELSE LET last == CHOOSE i \in stuck : \A j \in stuck : j <= i
           IN  [ms EXCEPT ![last] = WithError(@)]

LoadMessages(ms) ==
  SanitizeMessagesOnLoad(
    TrimMessages([i \in 1 .. Len(ms) |-> NormalizeStoredMessageForLoad(ms[i])]))

-----------------------------------------------------------------------------
(***************************************************************************)
(* Effects the handlers share                                              *)
(***************************************************************************)

Generating == isStreaming \/ isRequesting

Screen(ms, generating, pg) == [messages |-> ms, generating |-> generating, page |-> pg]

\* A click is rendered before the next event is handled; what a timer, a
\* stream event or a promise changes is rendered later, by Render.
Rendered == shown' = Screen(messages', Generating', page')

\* Mutant: a timer that is set is cleared and not set again.
UpdateMessagesCleared(ms) ==
  /\ messages' = ms
  /\ saveTimer' = (~saveTimer /\ page = "ready")

\* updateMessages: the new conversation, and the debounced save behind it.
UpdateMessages(ms) ==
  /\ messages' = ms
  /\ saveTimer' = (saveTimer \/ page = "ready")

\* flushStreamUpdates as a function of the conversation.
Flushed(ms) ==
  IF pending = <<>> THEN ms
  ELSE UpdateLastAssistantMessage(ms, ApplyStreamingChunk(Last(ms), pending))

NothingPending == pending' = <<>> /\ flushTimer' = FALSE

\* sendChat for the request named by its new assistant message k.  A stream
\* that is still open is closed first; what waits in pending is not touched,
\* and an earlier non-streaming request is not aborted.
SendChat(k) ==
  /\ isRequesting' = TRUE
  /\ \/ /\ stream
        /\ isStreaming' = TRUE
        /\ source' = k
        /\ silent' = FALSE
        /\ UNCHANGED <<calls, lastCall, controller>>
     \/ /\ ~stream
        /\ calls' = calls \union {k}
        /\ lastCall' = k
        /\ controller' = k
        /\ UNCHANGED <<isStreaming, source, silent>>
  /\ reply' = [key |-> k, text |-> <<>>, merged |-> FALSE]
  /\ UNCHANGED <<pending, flushTimer>>

-----------------------------------------------------------------------------
(***************************************************************************)
(* What the user does                                                      *)
(***************************************************************************)

\* handleSendMessage.  The input is disabled while a generation is shown; the
\* prompts an empty conversation offers are not.
Send ==
  /\ \/ ~shown.generating /\ (shown.page = "ready" \/ "early" \in Habits)
     \/ shown.page = "ready" /\ shown.messages = <<>>
  /\ nextKey + 1 <= MaxKey
  /\ UpdateMessages(shown.messages \o <<CreateUserMessage(nextKey),
                                        CreateLoadingAssistantMessage(nextKey + 1)>>)
  /\ SendChat(nextKey + 1)
  /\ nextKey' = nextKey + 2
  /\ UNCHANGED <<editing, stream, page, leaves, stored, refused>>
  /\ Rendered

\* Mutant: the actions of a message are not guarded.
OfferedUnguarded(k) ==
  /\ shown.page = "ready"
  /\ k \in Keys(shown.messages) \ {editing}
  /\ shown.messages[Index(shown.messages, k)].text # <<>>

\* A message has its buttons when it has text and is not being edited, and
\* they are guarded while a generation is shown.
Offered(k) ==
  /\ ~shown.generating
  /\ shown.page = "ready"
  /\ k \in Keys(shown.messages) \ {editing}
  /\ shown.messages[Index(shown.messages, k)].text # <<>>

Regenerate(k) ==
  /\ Offered(k)
  /\ nextKey <= MaxKey
  /\ UpdateMessages(CreateRegeneratedMessages(shown.messages, k, nextKey))
  /\ SendChat(nextKey)
  /\ nextKey' = nextKey + 1
  /\ UNCHANGED <<editing, stream, page, leaves, stored, refused>>
  /\ Rendered

Delete(k) ==
  /\ Offered(k)
  /\ UpdateMessages(RemoveMessageByKey(messages, k))
  /\ UNCHANGED <<chatVars, pageVars, stored, refused, reply>>
  /\ Rendered

\* The buttons of an error do not include one to edit it.
Edit(k) ==
  /\ Offered(k)
  /\ shown.messages[Index(shown.messages, k)].status # "error"
  /\ editing' = k
  /\ UNCHANGED <<messages, chatVars, stream, page, nextKey, leaves, saveTimer, stored, refused, reply>>
  /\ Rendered

CancelEdit ==
  /\ editing # 0
  /\ editing' = 0
  /\ UNCHANGED <<messages, chatVars, stream, page, nextKey, leaves, saveTimer, stored, refused, reply>>
  /\ Rendered

\* applyEdit: the editor stays open when a prompt is sent, and its buttons
\* are not disabled during the generation.
ApplyEdit(submit) ==
  /\ ~shown.generating \/ "editor" \in Habits
  /\ editing \in Keys(shown.messages)
  /\ LET ms == shown.messages
         i  == Index(ms, editing)
         updated == [ms EXCEPT ![i].text = Written]
     IN  IF submit /\ ms[i].from = "user"
         THEN /\ nextKey <= MaxKey
              /\ UpdateMessages(SubSeq(updated, 1, i)
                                  \o <<CreateLoadingAssistantMessage(nextKey)>>)
              /\ SendChat(nextKey)
              /\ nextKey' = nextKey + 1
         ELSE /\ UpdateMessages(updated)
              /\ UNCHANGED <<chatVars, reply, nextKey>>
  /\ editing' = 0
  /\ UNCHANGED <<stream, page, leaves, stored, refused>>
  /\ Rendered

\* handleClearMessages, behind a dialog that cannot be opened while generating.
Clear ==
  /\ ~shown.generating
  /\ shown.messages # <<>>
  /\ UpdateMessages(<<>>)
  /\ editing' = 0
  /\ UNCHANGED <<chatVars, stream, page, nextKey, leaves, stored, refused, reply>>
  /\ Rendered

SetStream ==
  /\ ~shown.generating
  /\ stream' = ~stream
  /\ UNCHANGED <<messages, chatVars, editing, page, nextKey, leaves, saveTimer, stored, refused, reply>>
  /\ Rendered

StopOf(ms, aborted) ==
  /\ shown.generating
  /\ source' = 0
  /\ silent' = FALSE
  /\ isStreaming' = FALSE
  /\ isRequesting' = FALSE
  /\ calls' = calls \ aborted
  /\ controller' = 0
  /\ UpdateMessages(UpdateLastAssistantMessage(ms,
       IF IsPending(Last(ms)) THEN CompleteAssistantMessage(Last(ms)) ELSE Last(ms)))
  /\ UNCHANGED <<lastCall, pageVars, stored, refused, reply>>
  /\ Rendered

\* Mutant: the chunks that wait are left to the timer.
StopKeepsPending == StopOf(messages, {controller}) /\ UNCHANGED <<pending, flushTimer>>

\* Mutant: the request is not aborted.
StopWithoutAbort == NothingPending /\ StopOf(Flushed(messages), {})

\* stopGeneration.  The button may still be shown when the reply has ended.
Stop == NothingPending /\ StopOf(Flushed(messages), {controller})

-----------------------------------------------------------------------------
(***************************************************************************)
(* What the server does                                                    *)
(***************************************************************************)

\* What a message event brings: one piece or two, each new or said before
\* (pieces are numbered in the order in which they are first said).
Chunks ==
  {<<Piece(source, n)>> : n \in 1 .. Len(reply.text) + 1}
    \union {<<Piece(source, n), Piece(source, o)>> : n \in 1 .. Len(reply.text) + 1,
                                                    o \in 1 .. Len(reply.text) + 2}

\* A message event of the open stream: handleStreamUpdate.  The history notes
\* when it, or the flush of it, is taken for a snapshot of what came before.
Chunk(chunk) ==
  /\ source # 0
  /\ ~silent
  /\ Len(reply.text) + Len(chunk) <= MaxPieces
  /\ pending' = MergePendingStreamChunk(pending, chunk)
  /\ reply' = [reply EXCEPT
       !.text = @ \o chunk,
       !.merged = \/ @
                  \/ Snapshot(pending, chunk)
                  \/ messages # <<>> /\ Snapshot(Last(messages).text, pending')]
  /\ flushTimer' = TRUE
  /\ UNCHANGED <<messages, shown, isStreaming, isRequesting, source, silent, calls,
                 lastCall, controller, pageVars, saveTimer, stored, refused>>

\* The stream has ended, one way or the other, and is closed.
StreamEnds(ms) ==
  /\ source # 0
  /\ ~silent
  /\ source' = 0
  /\ isStreaming' = FALSE
  /\ NothingPending
  /\ UpdateMessages(ms)
  /\ UNCHANGED <<shown, silent, calls, lastCall, controller, pageVars, stored, refused, reply>>

Completed(ms) ==
  UpdateLastAssistantMessage(ms,
    IF IsFinal(Last(ms)) THEN Last(ms) ELSE CompleteAssistantMessage(Last(ms)))

\* handleStreamError as a function of the conversation.
Failed(ms) == UpdateLastAssistantMessage(ms, WithError(Last(ms)))

\* Mutant: the last chunks are dropped.
DoneUnflushed == StreamEnds(Completed(messages)) /\ isRequesting' = FALSE

\* Mutant: setIsRequesting(false) is forgotten.
DoneStillRequesting == StreamEnds(Completed(Flushed(messages))) /\ UNCHANGED isRequesting

\* The [DONE] event: the stream is closed, then handleStreamComplete.
Done == StreamEnds(Completed(Flushed(messages))) /\ isRequesting' = FALSE

\* handleStreamError after an error event, an event that cannot be parsed, a
\* stream that does not start, or a status other than 200; then the stream is
\* closed.
StreamFails ==
  /\ StreamEnds(Failed(Flushed(messages)))
  /\ isRequesting' = FALSE

\* The server closes the stream with status 200 and without [DONE]: no
\* listener of the page has anything to do.
ClosesSilently ==
  /\ source # 0
  /\ ~silent
  /\ silent' = TRUE
  /\ UNCHANGED <<messages, shown, isStreaming, isRequesting, source, calls, lastCall,
                 controller, pending, flushTimer, pageVars, saveTimer, stored, refused, reply>>

\* The finally block of sendNonStreamingChat.
CallSettled(r) ==
  /\ calls' = calls \ {r}
  /\ controller' = IF lastCall = r THEN 0 ELSE controller

\* A non-streaming request returns a choice.
Response(r) ==
  /\ r \in calls
  /\ LET text == <<Piece(r, 1)>>
     IN  /\ UpdateMessages(UpdateLastAssistantMessage(messages,
              [Last(messages) EXCEPT !.text = text, !.status = "complete"]))
         /\ reply' = IF reply.key = r THEN [reply EXCEPT !.text = text] ELSE reply
  /\ CallSettled(r)
  /\ isRequesting' = (isRequesting /\ lastCall # r)
  /\ UNCHANGED <<shown, isStreaming, source, silent, lastCall, pending, flushTimer,
                 pageVars, stored, refused>>

\* It fails, or returns no choice: handleStreamError, whoever is waiting now.
CallFails(r) ==
  /\ r \in calls
  /\ NothingPending
  /\ UpdateMessages(Failed(Flushed(messages)))
  /\ CallSettled(r)
  /\ isRequesting' = FALSE
  /\ UNCHANGED <<shown, isStreaming, source, silent, lastCall, pageVars, stored, refused, reply>>

-----------------------------------------------------------------------------
(***************************************************************************)
(* Timers, rendering and the life of the page                              *)
(***************************************************************************)

\* The flush timer, STREAM_UPDATE_FLUSH_MS after the first chunk not flushed.
FlushTimer ==
  /\ flushTimer
  /\ IF pending = <<>> THEN UNCHANGED <<messages, saveTimer>>
                       ELSE UpdateMessages(Flushed(messages))
  /\ NothingPending
  /\ UNCHANGED <<shown, isStreaming, isRequesting, source, silent, calls, lastCall,
                 controller, pageVars, stored, refused, reply>>

\* saveMessages: a conversation the schema or the browser refuses is reported
\* to the console, and the storage keeps what it has.
SaveMessages(ms) ==
  \/ stored' = TrimMessages(ms) /\ refused' = FALSE
  \/ stored' = stored /\ refused' = (stored # TrimMessages(ms))

\* The save timer, MESSAGE_SAVE_DEBOUNCE_MS after the last update.
SaveTimer ==
  /\ saveTimer
  /\ saveTimer' = FALSE
  /\ SaveMessages(messages)
  /\ UNCHANGED <<messages, shown, chatVars, pageVars, reply>>

Render ==
  /\ shown # Screen(messages, Generating, page)
  /\ shown' = Screen(messages, Generating, page)
  /\ UNCHANGED <<messages, chatVars, pageVars, saveTimer, stored, refused, reply>>

\* The timer of the mount effect: the stored conversation replaces the state,
\* and is saved if loading has changed it.  If it cannot be read the page
\* begins with an empty one.
Load ==
  /\ page = "loading"
  /\ page' = "ready"
  /\ LET loaded == LoadMessages(stored)
     IN  \/ /\ messages' = loaded
            /\ IF loaded = stored THEN stored' = stored /\ refused' = FALSE
                                  ELSE SaveMessages(loaded)
         \/ messages' = <<>> /\ stored' = stored /\ refused' = (stored # <<>>)
  /\ UNCHANGED <<shown, chatVars, editing, stream, nextKey, leaves, saveTimer, reply>>

NoReply == [key |-> 0, text |-> <<>>, merged |-> FALSE]

\* The state of a page that has just been mounted.
Mounted ==
  /\ leaves < MaxLeaves
  /\ leaves' = leaves + 1
  /\ page' = "loading"
  /\ messages' = <<>>
  /\ editing' = 0
  /\ isStreaming' = FALSE /\ isRequesting' = FALSE
  /\ source' = 0 /\ silent' = FALSE
  /\ calls' = {} /\ lastCall' = 0 /\ controller' = 0
  /\ NothingPending
  /\ saveTimer' = FALSE /\ refused' = FALSE
  /\ reply' = NoReply
  /\ UNCHANGED <<stream, nextKey>>
  /\ Rendered

\* The component is unmounted, which saves what the timer would have saved,
\* and mounted again later.  Requests run on; their updates are dropped.  A
\* save that fails leaves what Reload leaves.
Leave ==
  /\ stored' = IF saveTimer THEN TrimMessages(messages) ELSE stored
  /\ Mounted

\* The page is reloaded: what the timer would have saved is lost.
Reload ==
  /\ UNCHANGED stored
  /\ Mounted

Init ==
  /\ messages = <<>>
  /\ shown = Screen(<<>>, FALSE, "loading")
  /\ editing = 0
  /\ stream \in BOOLEAN
  /\ isStreaming = FALSE /\ isRequesting = FALSE
  /\ source = 0 /\ silent = FALSE
  /\ calls = {} /\ lastCall = 0 /\ controller = 0
  /\ pending = <<>> /\ flushTimer = FALSE
  /\ saveTimer = FALSE
  /\ stored = <<>> /\ refused = FALSE
  /\ page = "loading"
  /\ nextKey = 1
  /\ leaves = 0
  /\ reply = NoReply

User ==
  \/ Send
  \/ \E k \in Keys(shown.messages) : Regenerate(k) \/ Delete(k) \/ Edit(k)
  \/ CancelEdit
  \/ \E submit \in BOOLEAN : ApplyEdit(submit)
  \/ Clear
  \/ SetStream
  \/ Stop
  \/ Leave
  \/ Reload

Ends == Done \/ StreamFails \/ ClosesSilently \/ \E r \in calls : Response(r) \/ CallFails(r)

Server == (\E chunk \in Chunks : Chunk(chunk)) \/ Ends

Timer == FlushTimer \/ SaveTimer \/ Load

Next == User \/ Server \/ Timer \/ Render

Spec == Init /\ [][Next]_vars

(***************************************************************************)
(* The browser runs the save timer if it stays set, and every request is   *)
(* ended by the server or the network.  Nothing is assumed of the user.    *)
(***************************************************************************)
FairSpec ==
  /\ Spec
  /\ WF_vars(SaveTimer)
  /\ WF_vars(Ends)
-----------------------------------------------------------------------------
(***************************************************************************)
(* Properties                                                              *)
(***************************************************************************)

PieceType == [req : 0 .. MaxKey, n : 0 .. MaxPieces]

MessageType == [key : 1 .. MaxKey, from : {"user", "assistant"},
                status : {"none", "loading", "streaming", "complete", "error"},
                text : Seq(PieceType)]

\* The types of the page's state, its refs and its storage.
TypeOK ==
  /\ messages \in Seq(MessageType)
  /\ shown \in [messages : Seq(MessageType), generating : BOOLEAN,
                page : {"loading", "ready"}]
  /\ editing \in 0 .. MaxKey
  /\ stream \in BOOLEAN /\ isStreaming \in BOOLEAN /\ isRequesting \in BOOLEAN
  /\ source \in 0 .. MaxKey /\ silent \in BOOLEAN
  /\ calls \subseteq 1 .. MaxKey /\ lastCall \in 0 .. MaxKey
  /\ controller \in 0 .. MaxKey
  /\ pending \in Seq(PieceType)
  /\ flushTimer \in BOOLEAN /\ saveTimer \in BOOLEAN
  /\ stored \in Seq(MessageType) /\ refused \in BOOLEAN
  /\ page \in {"loading", "ready"}
  /\ nextKey \in 1 .. MaxKey + 1 /\ leaves \in 0 .. MaxLeaves
  /\ reply \in [key : 0 .. MaxKey, text : Seq(PieceType), merged : BOOLEAN]

Has(ms, k) == k \in Keys(ms)
At(ms, k) == ms[Index(ms, k)]

\* No part of one reply ends up in the message of another request, neither
\* on the page nor in the storage: chunks wait in a buffer that is not tied
\* to a request, and every update goes to "the last assistant message".
OwnReply ==
  \A ms \in {messages, stored} : \A i \in 1 .. Len(ms) :
    \A j \in 1 .. Len(ms[i].text) : ms[i].text[j].req \in {0, ms[i].key}

Said(text) == {text[i] : i \in 1 .. Len(text)}

\* A text is what has arrived of a reply, or all it said when some of it was
\* taken for a snapshot.
Whole(text, rep) ==
  /\ text = rep.text \/ rep.merged
  /\ Said(text) = Said(rep.text)

\* What the message holds and what waits to be flushed is what has arrived, in
\* order and once, until the reply fails or the user rewrites it.  The one
\* exception is the code's own: a chunk that begins with all that waits, or a
\* flush that begins with all the message holds, is taken for a snapshot, so
\* a reply that says the same again right after a flush loses the repetition;
\* even then nothing it said is missing and nothing else was added.  After the
\* end or a stop nothing waits, so the message alone is all that has arrived.
WholeReply ==
  Has(messages, reply.key) =>
    LET m == At(messages, reply.key)
    IN  m.status = "error" \/ m.text = Written \/ Whole(m.text \o pending, reply)

\* A message is shown as being answered only while the page also shows a
\* generation, so that there is a Stop button for it: after an end, an error,
\* a stop, and after the load of a conversation that was saved in the middle
\* of a reply, no message is left pending.
NoneLeftPending ==
  Generating \/ \A i \in 1 .. Len(messages) : ~IsPending(messages[i])

\* The requests whose events the page still handles.
InFlight == calls \union ({source} \ {0})

\* At most one request is in flight, and the page says it is generating
\* exactly while there is one: no action starts a second request, none lets
\* go of the first without ending it.
OneGeneration ==
  /\ Cardinality(InFlight) <= 1
  /\ Generating <=> InFlight # {}

\* A message that was completed or ended in error stays as it is for as long
\* as it is in the conversation, unless the user edits it: no late chunk,
\* timer, response or error changes it.
FinalStays ==
  [][\A k \in Keys(messages) :
       (/\ Has(messages', k)
        /\ IsFinal(At(messages, k))
        /\ ~\E submit \in BOOLEAN : ApplyEdit(submit))
       => At(messages', k) = At(messages, k)]_vars

\* Whatever the page shows is stored in the end, whatever order the save
\* timer, new updates and reloads come in, unless the page is left before or
\* the storage refuses: a refused save is not tried again until the
\* conversation changes.
EventuallySaved ==
  page = "ready" ~> (stored = TrimMessages(messages) \/ page = "loading" \/ refused)

\* A generation ends, or its stream was closed without [DONE] and without an
\* error, which the page cannot see: only Stop ends that one.
GenerationEnds == Generating ~> (~Generating \/ silent)
-----------------------------------------------------------------------------
(***************************************************************************)
(* Inductive invariants                                                    *)
(***************************************************************************)

\* Which request the chat handler is busy with, by all the state and refs it
\* keeps about it; none while no generation is shown.
RequestInv ==
  /\ Generating => shown.generating
  /\ isRequesting <=> InFlight # {}
  /\ isStreaming <=> source # 0
  /\ silent => source # 0
  /\ source # 0 => calls = {}
  /\ calls # {} => calls = {lastCall} /\ controller = lastCall
  /\ pending # <<>> => source # 0

\* What click handlers close over is the conversation itself, or nothing yet;
\* an empty conversation, which offers prompts to send, shows no generation.
ScreenInv ==
  /\ page = "loading" =>
       /\ messages = <<>> /\ reply = NoReply /\ ~Generating
       /\ shown = Screen(<<>>, FALSE, "loading")
  /\ ~shown.generating =>
       shown.messages = messages \/ shown = Screen(<<>>, FALSE, "loading")
  /\ shown.generating => shown.messages # <<>>

OwnText(m) == \A j \in 1 .. Len(m.text) : m.text[j].req \in {0, m.key}

\* The shape of a conversation, on the page and in the storage: keys grow and
\* are below the next one, texts are their own, and only the last message,
\* an assistant's, may be pending.
Tidy(ms, bound) ==
  \A i \in 1 .. Len(ms) :
    /\ ms[i].key < bound
    /\ \A j \in 1 .. Len(ms) : i < j => ms[i].key < ms[j].key
    /\ OwnText(ms[i])
    /\ IsPending(ms[i]) => i = Len(ms) /\ ms[i].from = "assistant"

\* What has arrived is of the reply to the newest request.
ReplyInv == \A i \in 1 .. Len(reply.text) : reply.text[i].req = reply.key

\* A generation answers the last message, which holds what was flushed; a
\* non-streaming one has nothing yet.
AnswerInv ==
  Generating =>
    /\ messages # <<>>
    /\ IsPending(Last(messages))
    /\ Last(messages).key = reply.key
    /\ InFlight = {reply.key}
    /\ Whole(Last(messages).text \o pending, reply)
    /\ Snapshot(Last(messages).text, pending) => reply.merged
    /\ calls # {} => reply.text = <<>>

ConversationInv ==
  /\ Tidy(messages, nextKey)
  /\ Tidy(stored, nextKey)
  /\ ReplyInv
  /\ reply.key < nextKey
  /\ AnswerInv
  /\ NoneLeftPending
  /\ WholeReply
=============================================================================
