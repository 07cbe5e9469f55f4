-------------------------- MODULE PlaygroundProofs --------------------------
(***************************************************************************)
(* Proofs about the playground, for any number of messages, chunks and     *)
(* reloads: its types, one generation at a time, and that every reply      *)
(* arrives whole, in its own message, and stays there.                     *)
(***************************************************************************)
EXTENDS Playground, TLAPS, SequenceTheorems, FiniteSetTheorems

-----------------------------------------------------------------------------
(* The types of messages and conversations *)

\* The parts of the type invariant.
ScreenTyped ==
  shown \in [messages : Seq(MessageType), generating : BOOLEAN, page : {"loading", "ready"}]
FlagsTyped == isStreaming \in BOOLEAN /\ isRequesting \in BOOLEAN /\ silent \in BOOLEAN
RefsTyped ==
  /\ source \in 0 .. MaxKey
  /\ calls \subseteq 1 .. MaxKey /\ lastCall \in 0 .. MaxKey
  /\ controller \in 0 .. MaxKey
ChatTyped == FlagsTyped /\ RefsTyped
PendingTyped == pending \in Seq(PieceType) /\ flushTimer \in BOOLEAN
PageTyped ==
  /\ editing \in 0 .. MaxKey /\ stream \in BOOLEAN
  /\ page \in {"loading", "ready"}
  /\ nextKey \in 1 .. MaxKey + 1 /\ leaves \in 0 .. MaxLeaves
SavedTyped == saveTimer \in BOOLEAN /\ refused \in BOOLEAN /\ stored \in Seq(MessageType)
ReplyTyped == reply \in [key : 0 .. MaxKey, text : Seq(PieceType), merged : BOOLEAN]

\* The type invariant is the conjunction of its parts.
LEMMA TypeParts ==
  TypeOK <=> /\ messages \in Seq(MessageType)
             /\ ScreenTyped /\ ChatTyped /\ PendingTyped /\ PageTyped /\ SavedTyped /\ ReplyTyped
  BY DEF TypeOK, ScreenTyped, ChatTyped, FlagsTyped, RefsTyped, PendingTyped, PageTyped, SavedTyped, ReplyTyped

\* The same after a step.
LEMMA TypePartsNext ==
  ASSUME (messages \in Seq(MessageType))', ScreenTyped', ChatTyped', PendingTyped', PageTyped',
         SavedTyped', ReplyTyped'
  PROVE  TypeOK'
  BY DEF TypeOK, ScreenTyped, ChatTyped, FlagsTyped, RefsTyped, PendingTyped, PageTyped, SavedTyped, ReplyTyped

\* The texts no server sent, and a piece of a reply, are texts.
LEMMA Texts ==
  /\ Written \in Seq(PieceType) /\ Failure \in Seq(PieceType) /\ <<>> \in Seq(PieceType)
  /\ \A k \in 0 .. MaxKey, n \in 0 .. MaxPieces : <<Piece(k, n)>> \in Seq(PieceType)
<1>1. \A k \in 0 .. MaxKey, n \in 0 .. MaxPieces : Piece(k, n) \in PieceType
  BY DEF Piece, PieceType
<1>2. 0 \in 0 .. MaxKey /\ 0 \in 0 .. MaxPieces /\ 1 \in 0 .. MaxPieces
  BY PlaygroundAssumption
<1>3. QED
  BY <1>1, <1>2 DEF Written, Failure

\* New messages are messages.
LEMMA NewMessages ==
  ASSUME NEW k \in 1 .. MaxKey
  PROVE  CreateUserMessage(k) \in MessageType /\ CreateLoadingAssistantMessage(k) \in MessageType
  BY Texts DEF CreateUserMessage, CreateLoadingAssistantMessage, MessageType

\* What the handlers make of a message is a message.
LEMMA ChangedMessages ==
  ASSUME NEW m \in MessageType
  PROVE  /\ CompleteAssistantMessage(m) \in MessageType
         /\ WithError(m) \in MessageType
         /\ NormalizeStoredMessageForLoad(m) \in MessageType
         /\ \A text \in Seq(PieceType) :
              [m EXCEPT !.text = text, !.status = "complete"] \in MessageType
<1>1. CompleteAssistantMessage(m) \in MessageType /\ WithError(m) \in MessageType
  BY Texts DEF CompleteAssistantMessage, WithError, MessageType
<1>2. NormalizeStoredMessageForLoad(m) \in MessageType
  BY <1>1 DEF NormalizeStoredMessageForLoad
<1>3. \A text \in Seq(PieceType) : [m EXCEPT !.text = text, !.status = "complete"] \in MessageType
  BY DEF MessageType
<1>4. QED
  BY <1>1, <1>2, <1>3

\* The appended part of a chunk is a text.
LEMMA AppendableTyped ==
  ASSUME NEW current \in Seq(PieceType), NEW chunk \in Seq(PieceType)
  PROVE  GetAppendableChunk(current, chunk) \in Seq(PieceType)
<1>1. ASSUME StartsWith(chunk, current)
      PROVE  SubSeq(chunk, Len(current) + 1, Len(chunk)) \in Seq(PieceType)
  <2>1. \A i \in Len(current) + 1 .. Len(chunk) : chunk[i] \in PieceType
    OBVIOUS
  <2>2. QED
    BY <2>1, SubSeqProperties, Len(current) + 1 \in Int, Len(chunk) \in Int
<1>2. QED
  BY <1>1 DEF GetAppendableChunk

\* A chunk applied to a message gives a message.
LEMMA ApplyTyped ==
  ASSUME NEW m \in MessageType, NEW chunk \in Seq(PieceType)
  PROVE  ApplyStreamingChunk(m, chunk) \in MessageType
<1>1. m.text \in Seq(PieceType)
  BY DEF MessageType
<1>2. m.text \o GetAppendableChunk(m.text, chunk) \in Seq(PieceType)
  BY <1>1, AppendableTyped, ConcatProperties
<1>3. [m EXCEPT !.text = m.text \o GetAppendableChunk(m.text, chunk), !.status = "streaming"]
        \in MessageType
  BY <1>2 DEF MessageType
<1>4. QED
  BY <1>3 DEF ApplyStreamingChunk

\* The last message of a conversation that is not empty.
LEMMA LastTyped ==
  ASSUME NEW ms \in Seq(MessageType), ms # <<>>
  PROVE  Last(ms) \in MessageType /\ Len(ms) \in 1 .. Len(ms) /\ Last(ms) = ms[Len(ms)]
  BY EmptySeq, ElementOfSeq DEF Last

\* Updating the last assistant message.
LEMMA UpdateTyped ==
  ASSUME NEW ms \in Seq(MessageType), NEW m, ms # <<>> => m \in MessageType
  PROVE  UpdateLastAssistantMessage(ms, m) \in Seq(MessageType)
  BY LastTyped, ExceptSeq DEF UpdateLastAssistantMessage

\* What the ends of a reply make of a conversation.
LEMMA EndsTyped ==
  ASSUME NEW ms \in Seq(MessageType)
  PROVE  Completed(ms) \in Seq(MessageType) /\ Failed(ms) \in Seq(MessageType)
  BY UpdateTyped, LastTyped, ChangedMessages DEF Completed, Failed

\* Flushing what waits.
LEMMA FlushedTyped ==
  ASSUME NEW ms \in Seq(MessageType), pending \in Seq(PieceType)
  PROVE  Flushed(ms) \in Seq(MessageType)
<1>1. ms # <<>> => ApplyStreamingChunk(Last(ms), pending) \in MessageType
  BY LastTyped, ApplyTyped
<1>2. QED
  BY <1>1, UpdateTyped DEF Flushed

\* A key that is in a conversation has a place in it.
LEMMA IndexOf ==
  ASSUME NEW ms, NEW k \in Keys(ms)
  PROVE  Index(ms, k) \in 1 .. Len(ms) /\ ms[Index(ms, k)].key = k
  BY DEF Keys, Index

\* The first messages of a conversation.
LEMMA Prefix ==
  ASSUME NEW ms \in Seq(MessageType), NEW n \in 0 .. Len(ms)
  PROVE  /\ SubSeq(ms, 1, n) \in Seq(MessageType)
         /\ Len(SubSeq(ms, 1, n)) = n
         /\ \A i \in 1 .. n : SubSeq(ms, 1, n)[i] = ms[i]
<1>1. \A i \in 1 .. n : ms[i] \in MessageType
  OBVIOUS
<1>2. QED
  BY <1>1, SubSeqProperties, 1 \in Int, n \in Int

\* The last messages of a conversation.
LEMMA Suffix ==
  ASSUME NEW ms \in Seq(MessageType), NEW n \in 1 .. Len(ms) + 1
  PROVE  /\ SubSeq(ms, n, Len(ms)) \in Seq(MessageType)
         /\ Len(SubSeq(ms, n, Len(ms))) = Len(ms) - n + 1
         /\ \A i \in 1 .. Len(ms) - n + 1 : SubSeq(ms, n, Len(ms))[i] = ms[n + i - 1]
<1>1. \A i \in n .. Len(ms) : ms[i] \in MessageType
  OBVIOUS
<1>2. QED
  BY <1>1, SubSeqProperties, Len(ms) \in Int, n \in Int

\* A message behind the first ones.
LEMMA PrefixAnd ==
  ASSUME NEW ms \in Seq(MessageType), NEW n \in 0 .. Len(ms), NEW m \in MessageType
  PROVE  LET new == SubSeq(ms, 1, n) \o <<m>>
         IN  /\ new \in Seq(MessageType) /\ Len(new) = n + 1
             /\ \A i \in 1 .. n : new[i] = ms[i]
             /\ new[n + 1] = m
<1> DEFINE a == SubSeq(ms, 1, n)
<1>1. a \in Seq(MessageType) /\ Len(a) = n /\ \A i \in 1 .. n : a[i] = ms[i]
  BY Prefix
<1>2. <<m>> \in Seq(MessageType) /\ Len(<<m>>) = 1 /\ <<m>>[1] = m
  OBVIOUS
<1> HIDE DEF a
<1>3. a \o <<m>> \in Seq(MessageType) /\ Len(a \o <<m>>) = n + 1
      /\ \A i \in 1 .. n + 1 : (a \o <<m>>)[i] = IF i <= n THEN a[i] ELSE <<m>>[i - n]
  BY <1>1, <1>2, ConcatProperties
<1>4. QED
  BY <1>1, <1>2, <1>3 DEF a

\* A prompt and the message that will answer it behind a conversation.
LEMMA AndTwo ==
  ASSUME NEW ms \in Seq(MessageType), NEW u \in MessageType, NEW m \in MessageType
  PROVE  LET new == ms \o <<u, m>>
         IN  /\ new \in Seq(MessageType) /\ Len(new) = Len(ms) + 2
             /\ \A i \in 1 .. Len(ms) : new[i] = ms[i]
             /\ new[Len(ms) + 1] = u /\ new[Len(ms) + 2] = m
<1>1. <<u, m>> \in Seq(MessageType) /\ Len(<<u, m>>) = 2 /\ <<u, m>>[1] = u /\ <<u, m>>[2] = m
  OBVIOUS
<1>2. ms \o <<u, m>> \in Seq(MessageType) /\ Len(ms \o <<u, m>>) = Len(ms) + 2
      /\ \A i \in 1 .. Len(ms) + 2 :
           (ms \o <<u, m>>)[i] = IF i <= Len(ms) THEN ms[i] ELSE <<u, m>>[i - Len(ms)]
  BY <1>1, ConcatProperties
<1>3. QED
  BY <1>1, <1>2

\* A conversation without its i-th message.
LEMMA WithoutOne ==
  ASSUME NEW ms \in Seq(MessageType), NEW i \in 1 .. Len(ms)
  PROVE  LET new == SubSeq(ms, 1, i - 1) \o SubSeq(ms, i + 1, Len(ms))
         IN  /\ new \in Seq(MessageType) /\ Len(new) = Len(ms) - 1
             /\ \A j \in 1 .. Len(ms) - 1 : new[j] = IF j < i THEN ms[j] ELSE ms[j + 1]
<1> DEFINE a == SubSeq(ms, 1, i - 1)  b == SubSeq(ms, i + 1, Len(ms))
<1>1. a \in Seq(MessageType) /\ Len(a) = i - 1 /\ \A j \in 1 .. i - 1 : a[j] = ms[j]
  BY Prefix, i - 1 \in 0 .. Len(ms)
<1>2. b \in Seq(MessageType) /\ Len(b) = Len(ms) - i
      /\ \A j \in 1 .. Len(ms) - i : b[j] = ms[i + j]
  <2>1. /\ b \in Seq(MessageType) /\ Len(b) = Len(ms) - (i + 1) + 1
        /\ \A j \in 1 .. Len(ms) - (i + 1) + 1 : b[j] = ms[i + 1 + j - 1]
    BY Suffix, i + 1 \in 1 .. Len(ms) + 1
  <2>2. QED
    BY <2>1
<1> HIDE DEF a, b
<1>3. a \o b \in Seq(MessageType) /\ Len(a \o b) = Len(a) + Len(b)
      /\ \A j \in 1 .. Len(a) + Len(b) : (a \o b)[j] = IF j <= Len(a) THEN a[j] ELSE b[j - Len(a)]
  BY <1>1, <1>2, ConcatProperties
<1>4. ASSUME NEW j \in 1 .. Len(ms) - 1
      PROVE  (a \o b)[j] = IF j < i THEN ms[j] ELSE ms[j + 1]
  <2>1. CASE j < i
    BY <1>1, <1>2, <1>3, <2>1
  <2>2. CASE ~(j < i)
    <3>1. (a \o b)[j] = b[j - (i - 1)] /\ j - (i - 1) \in 1 .. Len(ms) - i
      BY <1>1, <1>2, <1>3, <2>2
    <3>2. b[j - (i - 1)] = ms[i + (j - (i - 1))]
      BY <1>2, <3>1
    <3>3. i + (j - (i - 1)) = j + 1
      OBVIOUS
    <3>4. QED
      BY <2>2, <3>1, <3>2, <3>3
  <2>3. QED
    BY <2>1, <2>2
<1>5. a \o b \in Seq(MessageType) /\ Len(a \o b) = Len(ms) - 1
  BY <1>1, <1>2, <1>3
<1>6. QED
  BY <1>4, <1>5, Zenon DEF a, b

\* Removing a message.
LEMMA RemoveTyped ==
  ASSUME NEW ms \in Seq(MessageType), NEW k
  PROVE  RemoveMessageByKey(ms, k) \in Seq(MessageType)
  BY WithoutOne, IndexOf DEF RemoveMessageByKey

\* Replacing a message.
LEMMA RegeneratedTyped ==
  ASSUME NEW ms \in Seq(MessageType), NEW k \in Keys(ms), NEW new \in 1 .. MaxKey
  PROVE  CreateRegeneratedMessages(ms, k, new) \in Seq(MessageType)
<1>1. PICK i \in 1 .. Len(ms) : i = Index(ms, k)
  BY IndexOf
<1>2. (IF ms[i].from = "user" THEN i ELSE i - 1) \in 0 .. Len(ms)
  OBVIOUS
<1>3. QED
  BY <1>1, <1>2, PrefixAnd, NewMessages DEF CreateRegeneratedMessages

\* A conversation with the text of one message rewritten.
LEMMA Rewritten ==
  ASSUME NEW ms \in Seq(MessageType), NEW i \in 1 .. Len(ms)
  PROVE  LET new == [ms EXCEPT ![i].text = Written]
         IN  /\ new \in Seq(MessageType) /\ Len(new) = Len(ms)
             /\ \A j \in 1 .. Len(ms) :
                  new[j] = IF j = i THEN [ms[i] EXCEPT !.text = Written] ELSE ms[j]
<1>1. [ms[i] EXCEPT !.text = Written] \in MessageType
  <2>1. ms[i] \in MessageType /\ Written \in Seq(PieceType)
    BY ElementOfSeq, Texts
  <2>2. QED
    BY <2>1 DEF MessageType
<1>2. [ms EXCEPT ![i].text = Written] = [ms EXCEPT ![i] = [ms[i] EXCEPT !.text = Written]]
  OBVIOUS
<1>3. QED
  BY <1>1, <1>2, ExceptSeq

\* Trimming keeps the last messages.
LEMMA TrimTyped ==
  ASSUME NEW ms \in Seq(MessageType)
  PROVE  TrimMessages(ms) \in Seq(MessageType)
<1>1. CASE Len(ms) <= MaxStored
  BY <1>1 DEF TrimMessages
<1>2. CASE ~(Len(ms) <= MaxStored)
  <2>1. Len(ms) - MaxStored + 1 \in 1 .. Len(ms) + 1
    BY <1>2, PlaygroundAssumption
  <2>2. QED
    BY <1>2, <2>1, Suffix DEF TrimMessages
<1>3. QED
  BY <1>1, <1>2

\* A conversation whose messages were all normalised.
LEMMA NormalizedTyped ==
  ASSUME NEW ms \in Seq(MessageType)
  PROVE  LET new == [i \in 1 .. Len(ms) |-> NormalizeStoredMessageForLoad(ms[i])]
         IN  /\ new \in Seq(MessageType) /\ Len(new) = Len(ms)
             /\ \A i \in 1 .. Len(ms) : new[i] = NormalizeStoredMessageForLoad(ms[i])
<1> DEFINE new == [i \in 1 .. Len(ms) |-> NormalizeStoredMessageForLoad(ms[i])]
<1>1. \A i \in 1 .. Len(ms) : NormalizeStoredMessageForLoad(ms[i]) \in MessageType
  BY ElementOfSeq, ChangedMessages
<1>2. new \in [1 .. Len(ms) -> MessageType] /\ Len(ms) \in Nat
  BY <1>1
<1>3. new \in Seq(MessageType)
  BY <1>2, SeqDef, Zenon
<1>4. DOMAIN new = 1 .. Len(ms) /\ DOMAIN new = 1 .. Len(new) /\ Len(new) \in Nat
  BY <1>3, LenProperties
<1>5. Len(new) = Len(ms)
  BY <1>4, <1>2
<1>6. QED
  BY <1>3, <1>5

\* Sanitizing closes at most one message.
LEMMA SanitizeTyped ==
  ASSUME NEW ms \in Seq(MessageType)
  PROVE  SanitizeMessagesOnLoad(ms) \in Seq(MessageType)
<1> DEFINE stuck == {i \in 1 .. Len(ms) : ms[i].from = "assistant" /\ IsPending(ms[i])}
           last == CHOOSE i \in stuck : \A j \in stuck : j <= i
<1>1. \A i \in 1 .. Len(ms) : [ms EXCEPT ![i] = WithError(ms[i])] \in Seq(MessageType)
  BY ElementOfSeq, ExceptSeq, ChangedMessages
<1>2. QED
  <2>1. CASE last \in 1 .. Len(ms)
    BY <1>1, <2>1 DEF SanitizeMessagesOnLoad
  <2>2. CASE last \notin 1 .. Len(ms)
    <3>1. DOMAIN ms = 1 .. Len(ms)
      BY LenProperties
    <3>2. ASSUME NEW x, x \notin 1 .. Len(ms)
          PROVE  [ms EXCEPT ![x] = WithError(ms[x])] = ms
      BY <3>1, <3>2
    <3>3. QED
      BY <2>2, <3>2 DEF SanitizeMessagesOnLoad
  <2>3. QED
    BY <2>1, <2>2

\* What is loaded is a conversation.
LEMMA LoadTyped ==
  ASSUME NEW ms \in Seq(MessageType)
  PROVE  LoadMessages(ms) \in Seq(MessageType)
  BY NormalizedTyped, TrimTyped, SanitizeTyped, Zenon DEF LoadMessages

-----------------------------------------------------------------------------
(* The type invariant *)

\* What is rendered has the type of a screen.
LEMMA RenderedTyped ==
  ASSUME Rendered, messages' \in Seq(MessageType), ChatTyped', PageTyped'
  PROVE  ScreenTyped'
<1>1. Generating' \in BOOLEAN
  BY Zenon DEF Generating
<1>2. PICK g \in BOOLEAN : Generating' = g
  BY <1>1, Zenon
<1>3. shown' = Screen(messages', g, page')
  BY <1>2, Zenon DEF Rendered
<1>4. QED
  BY <1>3 DEF ScreenTyped, Screen, PageTyped

\* Updating the conversation.
LEMMA UpdatesTyped ==
  ASSUME NEW ms \in Seq(MessageType), UpdateMessages(ms)
  PROVE  messages' \in Seq(MessageType) /\ saveTimer' \in BOOLEAN
<1>1. saveTimer' \in BOOLEAN
  BY Zenon DEF UpdateMessages
<1>2. QED
  BY <1>1, Zenon DEF UpdateMessages

\* Sending a request.
LEMMA SendChatTyped ==
  ASSUME NEW k \in 1 .. MaxKey, SendChat(k), ChatTyped, PendingTyped
  PROVE  ChatTyped' /\ PendingTyped' /\ ReplyTyped'
<1>1. PendingTyped'
  BY DEF SendChat, PendingTyped
<1>2. ReplyTyped'
  BY Texts DEF SendChat, ReplyTyped
<1>3. ChatTyped'
  <2>1. FlagsTyped'
    BY Zenon DEF SendChat, ChatTyped, FlagsTyped
  <2>2. RefsTyped'
    <3>1. k \in 0 .. MaxKey /\ calls \union {k} \subseteq 1 .. MaxKey
      BY DEF ChatTyped, RefsTyped
    <3>2. source' \in {source, k} /\ lastCall' \in {lastCall, k} /\ controller' \in {controller, k}
          /\ calls' \in {calls, calls \union {k}}
      BY DEF SendChat
    <3>3. QED
      BY <3>1, <3>2 DEF ChatTyped, RefsTyped
  <2>3. QED
    BY <2>1, <2>2 DEF ChatTyped
<1>4. QED
  BY <1>1, <1>2, <1>3

\* What a click leaves alone keeps its type.
LEMMA Untouched ==
  ASSUME TypeOK
  PROVE  /\ UNCHANGED chatVars => ChatTyped' /\ PendingTyped'
         /\ UNCHANGED pageVars => PageTyped'
         /\ UNCHANGED reply => ReplyTyped'
         /\ UNCHANGED shown => ScreenTyped'
         /\ UNCHANGED <<saveTimer, stored, refused>> => SavedTyped'
  BY TypeParts DEF chatVars, pageVars, ChatTyped, FlagsTyped, RefsTyped, PendingTyped, PageTyped, ReplyTyped, ScreenTyped,
     SavedTyped

\* The fields of the screen, and the keys of what it shows.
LEMMA ScreenFields ==
  ASSUME TypeOK
  PROVE  /\ shown.messages \in Seq(MessageType)
         /\ shown.generating \in BOOLEAN
         /\ \A k \in Keys(shown.messages) : k \in 1 .. MaxKey
<1>1. shown.messages \in Seq(MessageType) /\ shown.generating \in BOOLEAN
  BY DEF TypeOK
<1>2. ASSUME NEW k \in Keys(shown.messages)
      PROVE  k \in 1 .. MaxKey
  <2>1. PICK i \in 1 .. Len(shown.messages) : k = shown.messages[i].key
    BY DEF Keys
  <2>2. shown.messages[i] \in MessageType
    BY <1>1, ElementOfSeq
  <2>3. QED
    BY <2>1, <2>2 DEF MessageType
<1>3. QED
  BY <1>1, <1>2

\* Send keeps the types.
LEMMA SendTyped ==
  ASSUME TypeOK, Send
  PROVE  TypeOK'
<1>1. nextKey \in 1 .. MaxKey /\ nextKey + 1 \in 1 .. MaxKey
  BY PlaygroundAssumption DEF TypeOK, Send
<1>2. shown.messages \o <<CreateUserMessage(nextKey), CreateLoadingAssistantMessage(nextKey + 1)>>
        \in Seq(MessageType)
  BY <1>1, ScreenFields, NewMessages, AndTwo
<1>3. messages' \in Seq(MessageType) /\ saveTimer' \in BOOLEAN
  BY <1>2, UpdatesTyped DEF Send
<1>4. ChatTyped' /\ PendingTyped' /\ ReplyTyped'
  BY <1>1, SendChatTyped, TypeParts DEF Send
<1>5. PageTyped'
  BY <1>1, PlaygroundAssumption DEF Send, TypeOK, PageTyped
<1>6. SavedTyped'
  BY <1>3 DEF Send, TypeOK, SavedTyped
<1>7. QED
  BY <1>3, <1>4, <1>5, <1>6, RenderedTyped, TypePartsNext DEF Send

\* Regenerate keeps the types.
LEMMA RegenerateTyped ==
  ASSUME TypeOK, NEW k \in Keys(shown.messages), Regenerate(k)
  PROVE  TypeOK'
<1>1. nextKey \in 1 .. MaxKey
  BY PlaygroundAssumption DEF TypeOK, Regenerate
<1>2. CreateRegeneratedMessages(shown.messages, k, nextKey) \in Seq(MessageType)
  BY <1>1, ScreenFields, RegeneratedTyped
<1>3. messages' \in Seq(MessageType) /\ saveTimer' \in BOOLEAN
  BY <1>2, UpdatesTyped DEF Regenerate
<1>4. ChatTyped' /\ PendingTyped' /\ ReplyTyped'
  BY <1>1, SendChatTyped, TypeParts DEF Regenerate
<1>5. PageTyped'
  BY <1>1, PlaygroundAssumption DEF Regenerate, TypeOK, PageTyped
<1>6. SavedTyped'
  BY <1>3 DEF Regenerate, TypeOK, SavedTyped
<1>7. QED
  BY <1>3, <1>4, <1>5, <1>6, RenderedTyped, TypePartsNext DEF Regenerate

\* Delete keeps the types.
LEMMA DeleteTyped ==
  ASSUME TypeOK, NEW k \in Keys(shown.messages), Delete(k)
  PROVE  TypeOK'
<1>1. messages' \in Seq(MessageType) /\ saveTimer' \in BOOLEAN
  BY RemoveTyped, UpdatesTyped DEF Delete, TypeOK
<1>2. ChatTyped' /\ PendingTyped' /\ ReplyTyped' /\ PageTyped'
  BY Untouched DEF Delete
<1>3. SavedTyped'
  BY <1>1 DEF Delete, TypeOK, SavedTyped
<1>4. QED
  BY <1>1, <1>2, <1>3, RenderedTyped, TypePartsNext DEF Delete

\* A click that changes only the editor or the settings keeps the types.
LEMMA SettingsTyped ==
  ASSUME TypeOK, Rendered, UNCHANGED <<messages, chatVars, saveTimer, stored, refused, reply>>,
         editing' \in 0 .. MaxKey, stream' \in BOOLEAN, UNCHANGED <<page, nextKey, leaves>>
  PROVE  TypeOK'
<1>1. messages' \in Seq(MessageType) /\ PageTyped'
  BY DEF TypeOK, PageTyped
<1>2. ChatTyped' /\ PendingTyped' /\ ReplyTyped' /\ SavedTyped'
  BY Untouched
<1>3. QED
  BY <1>1, <1>2, RenderedTyped, TypePartsNext

\* Edit, CancelEdit and SetStream keep the types.
LEMMA SettingTyped ==
  ASSUME TypeOK, (\E k \in Keys(shown.messages) : Edit(k)) \/ CancelEdit \/ SetStream
  PROVE  TypeOK'
<1>1. 0 \in 0 .. MaxKey
  BY PlaygroundAssumption
<1>2. CASE \E k \in Keys(shown.messages) : Edit(k)
  BY <1>2, ScreenFields, SettingsTyped DEF Edit, TypeOK
<1>3. CASE CancelEdit
  BY <1>1, <1>3, SettingsTyped DEF CancelEdit, TypeOK
<1>4. CASE SetStream
  <2>1. stream' \in BOOLEAN
    BY <1>4, Zenon DEF SetStream
  <2>2. QED
    BY <1>4, <2>1, SettingsTyped DEF SetStream, TypeOK
<1>5. QED
  BY <1>2, <1>3, <1>4

\* ApplyEdit keeps the types.
LEMMA ApplyEditTyped ==
  ASSUME TypeOK, NEW submit \in BOOLEAN, ApplyEdit(submit)
  PROVE  TypeOK'
<1>1. editing \in Keys(shown.messages) /\ editing' = 0 /\ 0 \in 0 .. MaxKey
      /\ UNCHANGED <<stream, page, leaves, stored, refused>> /\ Rendered
  BY PlaygroundAssumption DEF ApplyEdit
<1> DEFINE ms == shown.messages
           i  == Index(ms, editing)
           updated == [ms EXCEPT ![i].text = Written]
<1>2. ms \in Seq(MessageType) /\ i \in 1 .. Len(ms)
  BY <1>1, ScreenFields, IndexOf
<1>3. updated \in Seq(MessageType) /\ Len(updated) = Len(ms)
  BY <1>2, Rewritten
<1>4. \/ /\ nextKey <= MaxKey
         /\ UpdateMessages(SubSeq(updated, 1, i) \o <<CreateLoadingAssistantMessage(nextKey)>>)
         /\ SendChat(nextKey) /\ nextKey' = nextKey + 1
      \/ UpdateMessages(updated) /\ UNCHANGED <<chatVars, reply, nextKey>>
  BY DEF ApplyEdit
<1> HIDE DEF updated, i, ms
<1>5. CASE UpdateMessages(updated) /\ UNCHANGED <<chatVars, reply, nextKey>>
  <2>1. messages' \in Seq(MessageType) /\ saveTimer' \in BOOLEAN
    BY <1>3, <1>5, UpdatesTyped
  <2>2. ChatTyped' /\ PendingTyped' /\ ReplyTyped'
    BY <1>5, Untouched
  <2>3. PageTyped' /\ SavedTyped'
    BY <1>1, <1>5, <2>1 DEF TypeOK, PageTyped, SavedTyped
  <2>4. QED
    BY <1>1, <2>1, <2>2, <2>3, RenderedTyped, TypePartsNext
<1>6. CASE /\ nextKey <= MaxKey
           /\ UpdateMessages(SubSeq(updated, 1, i) \o <<CreateLoadingAssistantMessage(nextKey)>>)
           /\ SendChat(nextKey) /\ nextKey' = nextKey + 1
  <2>1. nextKey \in 1 .. MaxKey /\ i \in 0 .. Len(updated)
    BY <1>2, <1>3, <1>6, PlaygroundAssumption DEF TypeOK
  <2>2. SubSeq(updated, 1, i) \o <<CreateLoadingAssistantMessage(nextKey)>> \in Seq(MessageType)
    BY <1>3, <2>1, PrefixAnd, NewMessages
  <2>3. messages' \in Seq(MessageType) /\ saveTimer' \in BOOLEAN
    BY <1>6, <2>2, UpdatesTyped
  <2>4. ChatTyped' /\ PendingTyped' /\ ReplyTyped'
    BY <1>6, <2>1, SendChatTyped, TypeParts
  <2>5. PageTyped' /\ SavedTyped'
    BY <1>1, <1>6, <2>1, <2>3, PlaygroundAssumption DEF TypeOK, PageTyped, SavedTyped
  <2>6. QED
    BY <1>1, <2>3, <2>4, <2>5, RenderedTyped, TypePartsNext
<1>7. QED
  BY <1>4, <1>5, <1>6

\* Clear keeps the types.
LEMMA ClearTyped ==
  ASSUME TypeOK, Clear
  PROVE  TypeOK'
<1>1. messages' \in Seq(MessageType) /\ saveTimer' \in BOOLEAN
  BY UpdatesTyped, EmptySeq DEF Clear
<1>2. ChatTyped' /\ PendingTyped' /\ ReplyTyped'
  BY Untouched DEF Clear
<1>3. PageTyped' /\ SavedTyped'
  BY <1>1, PlaygroundAssumption DEF Clear, TypeOK, PageTyped, SavedTyped
<1>4. QED
  BY <1>1, <1>2, <1>3, RenderedTyped, TypePartsNext DEF Clear

\* Nothing waits: a buffer of the right type.
LEMMA NothingPendingTyped ==
  ASSUME NothingPending
  PROVE  PendingTyped'
  BY Texts DEF NothingPending, PendingTyped

\* Stop keeps the types.
LEMMA StopTyped ==
  ASSUME TypeOK, Stop
  PROVE  TypeOK'
<1>1. Flushed(messages) \in Seq(MessageType)
  BY FlushedTyped DEF TypeOK
<1> DEFINE ms == Flushed(messages)
           m == IF IsPending(Last(ms)) THEN CompleteAssistantMessage(Last(ms)) ELSE Last(ms)
<1>2. UpdateLastAssistantMessage(ms, m) \in Seq(MessageType)
  BY <1>1, UpdateTyped, LastTyped, ChangedMessages
<1>3. messages' \in Seq(MessageType) /\ saveTimer' \in BOOLEAN
  BY <1>2, UpdatesTyped DEF Stop, StopOf
<1>4. ChatTyped' /\ PendingTyped'
  <2>1. FlagsTyped'
    BY Zenon DEF Stop, StopOf, FlagsTyped
  <2>2. RefsTyped'
    BY PlaygroundAssumption DEF Stop, StopOf, TypeOK, RefsTyped
  <2>3. QED
    BY <2>1, <2>2, NothingPendingTyped DEF Stop, ChatTyped
<1>5. PageTyped' /\ ReplyTyped'
  BY Untouched DEF Stop, StopOf
<1>6. SavedTyped'
  BY <1>3 DEF Stop, StopOf, TypeOK, SavedTyped
<1>7. QED
  BY <1>3, <1>4, <1>5, <1>6, RenderedTyped, TypePartsNext DEF Stop, StopOf

\* What was merged into the waiting chunks is a text.
LEMMA MergeTyped ==
  ASSUME NEW current \in Seq(PieceType), NEW next \in Seq(PieceType)
  PROVE  MergePendingStreamChunk(current, next) \in Seq(PieceType)
  BY ConcatProperties DEF MergePendingStreamChunk

\* A chunk is a text of the stream's request.
LEMMA ChunkPieces ==
  ASSUME TypeOK, NEW chunk \in Chunks, Len(reply.text) + Len(chunk) <= MaxPieces
  PROVE  /\ chunk \in Seq(PieceType)
         /\ \A i \in 1 .. Len(chunk) : chunk[i].req = source
<1>1. reply.text \in Seq(PieceType) /\ source \in 0 .. MaxKey /\ Len(reply.text) \in Nat
  BY LenProperties DEF TypeOK
<1>2. MaxPieces \in Nat
  BY PlaygroundAssumption
<1>3. ASSUME NEW n \in 1 .. Len(reply.text) + 1, chunk = <<Piece(source, n)>>
      PROVE  /\ chunk \in Seq(PieceType)
             /\ \A i \in 1 .. Len(chunk) : chunk[i].req = source
  <2>1. Len(chunk) = 1 /\ chunk[1] = Piece(source, n)
    BY <1>3
  <2>2. n \in 0 .. MaxPieces
    BY <1>1, <1>2, <2>1
  <2>3. QED
    BY <1>1, <1>3, <2>1, <2>2, Texts DEF Piece
<1>4. ASSUME NEW n \in 1 .. Len(reply.text) + 1, NEW o \in 1 .. Len(reply.text) + 2,
             chunk = <<Piece(source, n), Piece(source, o)>>
      PROVE  /\ chunk \in Seq(PieceType)
             /\ \A i \in 1 .. Len(chunk) : chunk[i].req = source
  <2>1. Len(chunk) = 2 /\ chunk[1] = Piece(source, n) /\ chunk[2] = Piece(source, o)
    BY <1>4
  <2>2. n \in 0 .. MaxPieces /\ o \in 0 .. MaxPieces
    BY <1>1, <1>2, <2>1
  <2>3. Piece(source, n) \in PieceType /\ Piece(source, o) \in PieceType
    BY <1>1, <2>2 DEF Piece, PieceType
  <2>4. chunk \in Seq(PieceType)
    BY <1>4, <2>3
  <2>5. \A i \in 1 .. Len(chunk) : chunk[i].req = source
    BY <2>1 DEF Piece
  <2>6. QED
    BY <2>4, <2>5
<1>5. QED
  BY <1>3, <1>4 DEF Chunks

\* Chunk keeps the types.
LEMMA ChunkTyped ==
  ASSUME TypeOK, NEW chunk \in Chunks, Chunk(chunk)
  PROVE  TypeOK'
<1>1. chunk \in Seq(PieceType)
  BY ChunkPieces DEF Chunk
<1>2. PendingTyped'
  BY <1>1, MergeTyped DEF Chunk, TypeOK, PendingTyped
<1>3. ReplyTyped'
  <2>1. reply.text \o chunk \in Seq(PieceType)
    BY <1>1, ConcatProperties DEF TypeOK
  <2>2. PICK merged \in BOOLEAN : reply' = [reply EXCEPT !.text = reply.text \o chunk, !.merged = merged]
    BY Zenon DEF Chunk
  <2>3. QED
    BY <2>1, <2>2 DEF TypeOK, ReplyTyped
<1>4. ChatTyped' /\ messages' \in Seq(MessageType)
  BY DEF Chunk, TypeOK, ChatTyped, FlagsTyped, RefsTyped
<1>5. ScreenTyped' /\ PageTyped' /\ SavedTyped'
  BY Untouched DEF Chunk
<1>6. QED
  BY <1>2, <1>3, <1>4, <1>5, TypePartsNext

\* The end of a stream keeps the types.
LEMMA StreamEndsTyped ==
  ASSUME TypeOK, NEW ms \in Seq(MessageType), StreamEnds(ms), isRequesting' \in BOOLEAN
  PROVE  TypeOK'
<1>1. messages' \in Seq(MessageType) /\ saveTimer' \in BOOLEAN
  BY UpdatesTyped DEF StreamEnds
<1>2. ChatTyped' /\ PendingTyped'
  <2>1. FlagsTyped'
    BY DEF StreamEnds, TypeOK, FlagsTyped
  <2>2. RefsTyped'
    BY PlaygroundAssumption DEF StreamEnds, TypeOK, RefsTyped
  <2>3. QED
    BY <2>1, <2>2, NothingPendingTyped DEF StreamEnds, ChatTyped
<1>3. ScreenTyped' /\ PageTyped' /\ ReplyTyped'
  BY Untouched DEF StreamEnds
<1>4. SavedTyped'
  BY <1>1 DEF StreamEnds, TypeOK, SavedTyped
<1>5. QED
  BY <1>1, <1>2, <1>3, <1>4, TypePartsNext

\* Done, StreamFails and ClosesSilently keep the types.
LEMMA StreamEventsTyped ==
  ASSUME TypeOK, Done \/ StreamFails \/ ClosesSilently
  PROVE  TypeOK'
<1>1. Flushed(messages) \in Seq(MessageType)
  BY FlushedTyped DEF TypeOK
<1>2. CASE Done
  BY <1>1, <1>2, EndsTyped, StreamEndsTyped DEF Done
<1>3. CASE StreamFails
  BY <1>1, <1>3, EndsTyped, StreamEndsTyped DEF StreamFails
<1>4. CASE ClosesSilently
  <2>1. ChatTyped' /\ PendingTyped' /\ messages' \in Seq(MessageType)
    BY <1>4 DEF ClosesSilently, TypeOK, ChatTyped, FlagsTyped, RefsTyped, PendingTyped
  <2>2. ScreenTyped' /\ PageTyped' /\ SavedTyped' /\ ReplyTyped'
    BY <1>4, Untouched DEF ClosesSilently
  <2>3. QED
    BY <2>1, <2>2, TypePartsNext
<1>5. QED
  BY <1>2, <1>3, <1>4

\* A call that settles leaves the refs with their types.
LEMMA SettledTyped ==
  ASSUME TypeOK, NEW r \in calls, CallSettled(r), isRequesting' \in BOOLEAN,
         UNCHANGED <<isStreaming, source, silent, lastCall>>
  PROVE  ChatTyped'
  BY PlaygroundAssumption DEF CallSettled, TypeOK, ChatTyped, FlagsTyped, RefsTyped

\* Response keeps the types.
LEMMA ResponseTyped ==
  ASSUME TypeOK, NEW r \in calls, Response(r)
  PROVE  TypeOK'
<1>1. r \in 1 .. MaxKey /\ r \in 0 .. MaxKey /\ 1 \in 0 .. MaxPieces
  BY PlaygroundAssumption DEF TypeOK
<1>2. PICK text \in Seq(PieceType) : text = <<Piece(r, 1)>>
  BY <1>1, Texts
<1>3. messages # <<>> =>
        [Last(messages) EXCEPT !.text = text, !.status = "complete"] \in MessageType
  BY LastTyped, ChangedMessages DEF TypeOK
<1>4. UpdateLastAssistantMessage(messages,
        [Last(messages) EXCEPT !.text = text, !.status = "complete"]) \in Seq(MessageType)
  BY <1>3, UpdateTyped DEF TypeOK
<1>5. messages' \in Seq(MessageType) /\ saveTimer' \in BOOLEAN
  BY <1>2, <1>4, UpdatesTyped DEF Response
<1>6. ReplyTyped'
  BY <1>2 DEF Response, TypeOK, ReplyTyped
<1>7. isRequesting' \in BOOLEAN
  BY Zenon DEF Response
<1>8. ChatTyped' /\ PendingTyped'
  BY <1>7, SettledTyped DEF Response, TypeOK, PendingTyped
<1>9. ScreenTyped' /\ PageTyped'
  BY Untouched DEF Response
<1>10. SavedTyped'
  BY <1>5 DEF Response, TypeOK, SavedTyped
<1>11. QED
  BY <1>5, <1>6, <1>8, <1>9, <1>10, TypePartsNext

\* CallFails keeps the types.
LEMMA CallFailsTyped ==
  ASSUME TypeOK, NEW r \in calls, CallFails(r)
  PROVE  TypeOK'
<1>1. Failed(Flushed(messages)) \in Seq(MessageType)
  BY FlushedTyped, EndsTyped DEF TypeOK
<1>2. messages' \in Seq(MessageType) /\ saveTimer' \in BOOLEAN
  BY <1>1, UpdatesTyped DEF CallFails
<1>3. ChatTyped' /\ PendingTyped'
  BY SettledTyped, NothingPendingTyped DEF CallFails
<1>4. ScreenTyped' /\ PageTyped' /\ ReplyTyped'
  BY Untouched DEF CallFails
<1>5. SavedTyped'
  BY <1>2 DEF CallFails, TypeOK, SavedTyped
<1>6. QED
  BY <1>2, <1>3, <1>4, <1>5, TypePartsNext

\* FlushTimer keeps the types.
LEMMA FlushTimerTyped ==
  ASSUME TypeOK, FlushTimer
  PROVE  TypeOK'
<1>1. Flushed(messages) \in Seq(MessageType)
  BY FlushedTyped DEF TypeOK
<1>2. messages' \in Seq(MessageType) /\ saveTimer' \in BOOLEAN
  BY <1>1, UpdatesTyped DEF FlushTimer, TypeOK
<1>3. ChatTyped' /\ PendingTyped'
  BY NothingPendingTyped DEF FlushTimer, TypeOK, ChatTyped, FlagsTyped, RefsTyped
<1>4. ScreenTyped' /\ PageTyped' /\ ReplyTyped'
  BY Untouched DEF FlushTimer
<1>5. SavedTyped'
  BY <1>2 DEF FlushTimer, TypeOK, SavedTyped
<1>6. QED
  BY <1>2, <1>3, <1>4, <1>5, TypePartsNext

\* SaveTimer, Load and Render keep the types.
LEMMA OthersTyped ==
  ASSUME TypeOK, SaveTimer \/ Load \/ Render
  PROVE  TypeOK'
<1>1. TrimMessages(messages) \in Seq(MessageType) /\ LoadMessages(stored) \in Seq(MessageType)
  BY TrimTyped, LoadTyped DEF TypeOK
<1>2. ASSUME NEW ms \in Seq(MessageType), SaveMessages(ms)
      PROVE  stored' \in Seq(MessageType) /\ refused' \in BOOLEAN
  BY <1>2, TrimTyped DEF SaveMessages, TypeOK
<1>3. CASE SaveTimer
  <2>1. stored' \in Seq(MessageType) /\ refused' \in BOOLEAN
    BY <1>2, <1>3 DEF SaveTimer, TypeOK
  <2>2. messages' \in Seq(MessageType) /\ SavedTyped'
    BY <1>3, <2>1 DEF SaveTimer, TypeOK, SavedTyped
  <2>3. ScreenTyped' /\ ChatTyped' /\ PendingTyped' /\ PageTyped' /\ ReplyTyped'
    BY <1>3, Untouched DEF SaveTimer
  <2>4. QED
    BY <2>2, <2>3, TypePartsNext
<1>4. CASE Load
  <2>1. messages' \in Seq(MessageType) /\ stored' \in Seq(MessageType) /\ refused' \in BOOLEAN
    BY <1>1, <1>2, <1>4, EmptySeq DEF Load, TypeOK
  <2>2. SavedTyped' /\ PageTyped'
    BY <1>4, <2>1 DEF Load, TypeOK, SavedTyped, PageTyped
  <2>3. ScreenTyped' /\ ChatTyped' /\ PendingTyped' /\ ReplyTyped'
    BY <1>4, Untouched DEF Load
  <2>4. QED
    BY <2>1, <2>2, <2>3, TypePartsNext
<1>5. CASE Render
  <2>1. messages' \in Seq(MessageType)
    BY <1>5 DEF Render, TypeOK
  <2>2. ChatTyped' /\ PendingTyped' /\ PageTyped' /\ SavedTyped' /\ ReplyTyped'
    BY <1>5, Untouched DEF Render
  <2>3. Rendered
    BY <1>5 DEF Render, Rendered, Generating, chatVars, pageVars
  <2>4. QED
    BY <2>1, <2>2, <2>3, RenderedTyped, TypePartsNext
<1>6. QED
  BY <1>3, <1>4, <1>5

\* Leave and Reload keep the types.
LEMMA MountedTyped ==
  ASSUME TypeOK, Leave \/ Reload
  PROVE  TypeOK'
<1>1. stored' \in Seq(MessageType)
  BY TrimTyped DEF TypeOK, Leave, Reload
<1>2. Mounted
  BY DEF Leave, Reload
<1>3. messages' \in Seq(MessageType) /\ SavedTyped'
  BY <1>1, <1>2, EmptySeq DEF Mounted, SavedTyped
<1>4. ChatTyped' /\ PendingTyped'
  <2>1. FlagsTyped'
    BY <1>2, Zenon DEF Mounted, FlagsTyped
  <2>2. RefsTyped'
    BY <1>2, PlaygroundAssumption DEF Mounted, RefsTyped
  <2>3. QED
    BY <1>2, <2>1, <2>2, NothingPendingTyped DEF Mounted, ChatTyped
<1>5. PageTyped'
  BY <1>2, PlaygroundAssumption DEF Mounted, TypeOK, PageTyped
<1>6. ReplyTyped'
  BY <1>2, Texts, PlaygroundAssumption DEF Mounted, NoReply, ReplyTyped
<1>7. QED
  BY <1>2, <1>3, <1>4, <1>5, <1>6, RenderedTyped, TypePartsNext DEF Mounted

\* The first state has the types.
LEMMA InitTyped ==
  ASSUME Init
  PROVE  TypeOK
<1>1. <<>> \in Seq(MessageType) /\ <<>> \in Seq(PieceType)
  BY EmptySeq
<1>2. 0 \in 0 .. MaxKey /\ 1 \in 1 .. MaxKey + 1 /\ 0 \in 0 .. MaxLeaves
  BY PlaygroundAssumption
<1>3. QED
  BY <1>1, <1>2 DEF Init, TypeOK, Screen, NoReply

\* Every state has the types the page's code assumes, whatever the user, the
\* server and the timers do, in any order and any number: the model of
\* use-chat-handler.ts, use-stream-request.ts and use-playground-state.ts
\* never leaves the message statuses and the key and text ranges.
THEOREM TypeCorrect == Spec => []TypeOK
<1>1. TypeOK /\ [Next]_vars => TypeOK'
  <2>1. SUFFICES ASSUME TypeOK, [Next]_vars
                 PROVE  TypeOK'
    OBVIOUS
  <2>2. CASE User
    BY <2>1, <2>2, SendTyped, RegenerateTyped, DeleteTyped, SettingTyped, ApplyEditTyped,
       ClearTyped, StopTyped, MountedTyped DEF User
  <2>3. CASE Server
    BY <2>1, <2>3, ChunkTyped, StreamEventsTyped, ResponseTyped, CallFailsTyped DEF Server, Ends
  <2>4. CASE Timer \/ Render
    BY <2>1, <2>4, FlushTimerTyped, OthersTyped DEF Timer
  <2>5. CASE UNCHANGED vars
    BY <2>1, <2>5 DEF vars, chatVars, pageVars, TypeOK
  <2>6. QED
    BY <2>1, <2>2, <2>3, <2>4, <2>5 DEF Next
<1>2. QED
  BY <1>1, InitTyped, PTL DEF Spec

-----------------------------------------------------------------------------
(* One generation at a time *)

\* What a click shows is the state it has set.
LEMMA RenderedShows ==
  ASSUME Rendered
  PROVE  /\ shown'.messages = messages' /\ shown'.page = page'
         /\ shown'.generating = Generating'
<1>1. Generating' \in BOOLEAN
  BY Zenon DEF Generating
<1>2. PICK g \in BOOLEAN : Generating' = g
  BY <1>1, Zenon
<1>3. shown' = Screen(messages', g, page')
  BY <1>2, Zenon DEF Rendered
<1>4. shown'.messages = messages' /\ shown'.page = page' /\ shown'.generating = g
  BY <1>3 DEF Screen
<1>5. QED
  BY <1>2, <1>4, Zenon

\* A request is in flight by a stream or by a call.
LEMMA Flights == InFlight # {} <=> (source # 0 \/ calls # {})
  BY DEF InFlight

\* The same after a step.
LEMMA FlightsNext == InFlight' # {} <=> (source' # 0 \/ calls' # {})
  BY DEF InFlight

\* Nothing in flight, nothing said to be generating.
LEMMA EndedRequest ==
  ASSUME source' = 0, ~isStreaming', ~isRequesting', calls' = {}, pending' = <<>>, ~silent'
  PROVE  RequestInv'
  BY FlightsNext DEF RequestInv, Generating

\* A request starts when none is shown.
LEMMA BegunRequest ==
  ASSUME TypeOK, RequestInv, ~shown.generating, NEW k \in 1 .. MaxKey, SendChat(k), Rendered
  PROVE  RequestInv'
<1>1. /\ source = 0 /\ calls = {} /\ ~isStreaming /\ ~isRequesting /\ ~silent /\ pending = <<>>
      /\ k # 0
  BY Flights DEF RequestInv, Generating
<1>2. isRequesting' /\ pending' = <<>> /\ Generating'
  BY <1>1 DEF SendChat, Generating
<1>3. shown'.generating
  BY <1>2, RenderedShows
<1>4. CASE stream
  BY <1>1, <1>2, <1>3, <1>4, FlightsNext DEF SendChat, RequestInv
<1>5. CASE ~stream
  BY <1>1, <1>2, <1>3, <1>5, FlightsNext DEF SendChat, RequestInv
<1>6. QED
  BY <1>4, <1>5

\* A click that leaves the request alone.
LEMMA QuietRequest ==
  ASSUME RequestInv, UNCHANGED chatVars, Rendered \/ UNCHANGED shown
  PROVE  RequestInv'
<1>1. (Generating' <=> Generating) /\ InFlight' = InFlight
  BY DEF chatVars, Generating, InFlight
<1>2. Generating' => shown'.generating
  BY <1>1, RenderedShows DEF RequestInv
<1>3. QED
  BY <1>1, <1>2 DEF RequestInv, chatVars

\* Regenerate and the other buttons are there only when nothing is generating,
\* and so are the prompts of an empty conversation; an editor is, unless the
\* user submits one that was left open.
LEMMA ClicksRequest ==
  ASSUME TypeOK, RequestInv, ScreenInv, Habits = {},
         \/ Send
         \/ \E k \in Keys(shown.messages) : Regenerate(k) \/ Delete(k) \/ Edit(k)
         \/ CancelEdit
         \/ \E submit \in BOOLEAN : ApplyEdit(submit)
         \/ Clear \/ SetStream
  PROVE  RequestInv'
<1>1. CASE Send
  <2>1. nextKey + 1 \in 1 .. MaxKey
    BY <1>1, PlaygroundAssumption DEF Send, TypeOK
  <2>2. ~shown.generating
    BY <1>1 DEF Send, ScreenInv
  <2>3. QED
    BY <1>1, <2>1, <2>2, BegunRequest DEF Send
<1>2. ASSUME NEW k \in Keys(shown.messages), Regenerate(k)
      PROVE  RequestInv'
  <2>1. nextKey \in 1 .. MaxKey
    BY <1>2, PlaygroundAssumption DEF Regenerate, TypeOK
  <2>2. QED
    BY <1>2, <2>1, BegunRequest DEF Regenerate, Offered
<1>3. ASSUME NEW submit \in BOOLEAN, ApplyEdit(submit)
      PROVE  RequestInv'
  <2>1. Rendered /\ ~shown.generating
    BY <1>3 DEF ApplyEdit
  <2>2. (nextKey <= MaxKey /\ SendChat(nextKey)) \/ UNCHANGED chatVars
    BY <1>3 DEF ApplyEdit
  <2>3. CASE nextKey <= MaxKey /\ SendChat(nextKey)
    <3>1. nextKey \in 1 .. MaxKey
      BY <2>3, PlaygroundAssumption DEF TypeOK
    <3>2. QED
      BY <2>1, <2>3, <3>1, BegunRequest
  <2>4. QED
    BY <2>1, <2>2, <2>3, QuietRequest
<1>4. CASE (\E k \in Keys(shown.messages) : Delete(k) \/ Edit(k)) \/ CancelEdit \/ Clear \/ SetStream
  BY <1>4, QuietRequest DEF Delete, Edit, CancelEdit, Clear, SetStream
<1>5. QED
  BY <1>1, <1>2, <1>3, <1>4

\* Stop and what ends a request leave none in flight.
LEMMA EndsRequest ==
  ASSUME TypeOK, RequestInv,
         Stop \/ Leave \/ Reload \/ Done \/ StreamFails \/ \E r \in calls : Response(r) \/ CallFails(r)
  PROVE  /\ source' = 0 /\ ~isStreaming' /\ ~isRequesting' /\ calls' = {}
         /\ pending' = <<>> /\ ~silent'
<1>1. calls # {} => calls = {lastCall} /\ controller = lastCall /\ source = 0 /\ pending = <<>>
                     /\ ~isStreaming /\ ~silent
  BY DEF RequestInv
<1>2. CASE Stop
  BY <1>1, <1>2 DEF Stop, StopOf, NothingPending
<1>3. CASE Leave \/ Reload
  BY <1>3 DEF Leave, Reload, Mounted, NothingPending
<1>4. CASE Done \/ StreamFails
  BY <1>4 DEF Done, StreamFails, StreamEnds, NothingPending, RequestInv
<1>5. ASSUME NEW r \in calls, Response(r) \/ CallFails(r)
      PROVE  /\ source' = 0 /\ ~isStreaming' /\ ~isRequesting' /\ calls' = {}
             /\ pending' = <<>> /\ ~silent'
  <2>1. lastCall = r /\ calls = {r} /\ source = 0 /\ pending = <<>> /\ ~isStreaming /\ ~silent
    BY <1>1
  <2>2. CASE Response(r)
    BY <2>1, <2>2 DEF Response, CallSettled
  <2>3. CASE CallFails(r)
    BY <2>1, <2>3 DEF CallFails, CallSettled, NothingPending
  <2>4. QED
    BY <1>5, <2>2, <2>3
<1>6. QED
  BY <1>2, <1>3, <1>4, <1>5

\* Chunks, timers and renders leave the request as it is.
LEMMA TimersRequest ==
  ASSUME TypeOK, RequestInv,
         \/ \E chunk \in Chunks : Chunk(chunk)
         \/ ClosesSilently \/ FlushTimer \/ SaveTimer \/ Load \/ Render
  PROVE  RequestInv'
<1>1. CASE SaveTimer \/ Load
  BY <1>1, QuietRequest DEF SaveTimer, Load
<1>2. CASE Render
  <2>1. Rendered
    BY <1>2 DEF Render, Rendered, Generating, chatVars, pageVars
  <2>2. QED
    BY <1>2, <2>1, QuietRequest DEF Render
<1>3. CASE (\E chunk \in Chunks : Chunk(chunk)) \/ ClosesSilently \/ FlushTimer
  <2>1. /\ UNCHANGED <<shown, isStreaming, isRequesting, source, calls, lastCall, controller>>
        /\ silent' => source # 0
        /\ pending' # <<>> => source # 0
    <3>1. CASE \E chunk \in Chunks : Chunk(chunk)
      BY <3>1 DEF Chunk, RequestInv
    <3>2. CASE ClosesSilently
      BY <3>2 DEF ClosesSilently, RequestInv
    <3>3. CASE FlushTimer
      BY <3>3 DEF FlushTimer, NothingPending, RequestInv
    <3>4. QED
      BY <1>3, <3>1, <3>2, <3>3
  <2>2. (Generating' <=> Generating) /\ InFlight' = InFlight
    BY <2>1 DEF Generating, InFlight
  <2>3. QED
    BY <2>1, <2>2 DEF RequestInv
<1>4. QED
  BY <1>1, <1>2, <1>3

\* No step of the page starts a second request or loses the one in flight.
LEMMA StepRequest ==
  ASSUME TypeOK, RequestInv, ScreenInv, Habits = {}, [Next]_vars
  PROVE  RequestInv'
<1>1. CASE Stop \/ Leave \/ Reload \/ Done \/ StreamFails
             \/ \E r \in calls : Response(r) \/ CallFails(r)
  BY <1>1, EndsRequest, EndedRequest
<1>2. CASE UNCHANGED vars
  BY <1>2, QuietRequest DEF vars
<1>3. QED
  BY <1>1, <1>2, ClicksRequest, TimersRequest DEF Next, User, Server, Ends, Timer

-----------------------------------------------------------------------------
(* What is on the screen *)

\* The screen of a page that has not loaded its conversation.
LEMMA LoadingScreen ==
  ASSUME shown = Screen(<<>>, FALSE, "loading")
  PROVE  /\ shown.messages = <<>> /\ ~shown.generating /\ shown.page = "loading"
         /\ Keys(shown.messages) = {}
<1>1. shown.messages = <<>> /\ ~shown.generating /\ shown.page = "loading"
  BY DEF Screen
<1>2. 1 .. Len(<<>>) = {}
  BY EmptySeq
<1>3. \A k : k \notin Keys(shown.messages)
  BY <1>1, <1>2 DEF Keys
<1>4. QED
  BY <1>1, <1>3

\* A click on a page that is ready, or that changes nothing on it.
LEMMA ClickScreen ==
  ASSUME ScreenInv, Rendered, UNCHANGED page,
         page = "ready" \/ UNCHANGED <<messages, reply, isStreaming, isRequesting>>, TypeOK,
         Generating' => messages' # <<>>
  PROVE  ScreenInv'
<1>1. shown'.messages = messages' /\ shown'.generating = Generating'
  BY RenderedShows
<1>2. ASSUME page' = "loading"
      PROVE  messages' = <<>> /\ reply' = NoReply /\ ~Generating'
             /\ shown' = Screen(<<>>, FALSE, "loading")
  <2>1. messages' = <<>> /\ reply' = NoReply /\ ~Generating'
    BY <1>2 DEF ScreenInv, Generating
  <2>2. Generating' = FALSE
    BY <2>1, Zenon DEF Generating
  <2>3. shown' = Screen(<<>>, FALSE, "loading")
    BY <1>2, <2>1, <2>2, Zenon DEF Rendered
  <2>4. QED
    BY <2>1, <2>3
<1>3. QED
  BY <1>1, <1>2 DEF ScreenInv

\* A step while a generation runs that does not render.
LEMMA BusyScreen ==
  ASSUME RequestInv, ScreenInv, Generating, UNCHANGED <<shown, page>>
  PROVE  ScreenInv'
  BY DEF RequestInv, ScreenInv

\* A step that leaves alone what the screen depends on.
LEMMA SameScreen ==
  ASSUME ScreenInv, UNCHANGED <<shown, page, messages, reply, isStreaming, isRequesting>>
  PROVE  ScreenInv'
<1>1. Generating' <=> Generating
  BY DEF Generating
<1>2. QED
  BY <1>1 DEF ScreenInv

\* A message can only be clicked when the conversation is loaded, and a prompt
\* is only sent then.
LEMMA ClicksScreen ==
  ASSUME TypeOK, RequestInv, ScreenInv, Habits = {},
         \/ Send
         \/ \E k \in Keys(shown.messages) : Regenerate(k) \/ Delete(k) \/ Edit(k)
         \/ CancelEdit
         \/ \E submit \in BOOLEAN : ApplyEdit(submit)
         \/ Clear \/ SetStream \/ Stop,
         Generating' => messages' # <<>>
  PROVE  ScreenInv'
<1>1. page = "loading" => shown.messages = <<>> /\ ~shown.generating /\ shown.page = "loading"
                          /\ Keys(shown.messages) = {}
  BY LoadingScreen DEF ScreenInv
<1>2. page = "loading" \/ page = "ready"
  BY DEF TypeOK
<1>3. CASE Send
  BY <1>1, <1>2, <1>3, ClickScreen DEF Send
<1>4. CASE \E k \in Keys(shown.messages) : Regenerate(k) \/ Delete(k) \/ Edit(k)
  BY <1>1, <1>2, <1>4, ClickScreen DEF Regenerate, Delete, Edit, pageVars
<1>5. CASE CancelEdit \/ SetStream
  BY <1>5, ClickScreen DEF CancelEdit, SetStream, chatVars
<1>6. CASE \E submit \in BOOLEAN : ApplyEdit(submit)
  <2>1. editing \in Keys(shown.messages) /\ UNCHANGED page /\ Rendered
    BY <1>6 DEF ApplyEdit
  <2>2. QED
    BY <1>1, <1>2, <2>1, ClickScreen
<1>7. CASE Clear
  BY <1>1, <1>2, <1>7, ClickScreen DEF Clear
<1>8. CASE Stop
  BY <1>1, <1>2, <1>8, ClickScreen DEF Stop, StopOf, pageVars
<1>9. QED
  BY <1>3, <1>4, <1>5, <1>6, <1>7, <1>8

\* The screen of a page that has just been mounted.
LEMMA MountedScreen ==
  ASSUME Mounted
  PROVE  ScreenInv'
<1>1. messages' = <<>> /\ reply' = NoReply /\ ~Generating' /\ page' = "loading" /\ Rendered
  BY DEF Mounted, Generating
<1>2. Generating' = FALSE
  BY <1>1, Zenon DEF Generating
<1>3. shown' = Screen(<<>>, FALSE, "loading")
  BY <1>1, <1>2, Zenon DEF Rendered
<1>4. QED
  BY <1>1, <1>3 DEF ScreenInv, Screen

\* Every step keeps what the click handlers close over true.
LEMMA StepScreen ==
  ASSUME TypeOK, RequestInv, ScreenInv, Habits = {}, [Next]_vars,
         Generating' => messages' # <<>>
  PROVE  ScreenInv'
<1>1. source # 0 \/ calls # {} \/ pending # <<>> => Generating
  BY Flights DEF RequestInv, Generating
<1>2. CASE Leave \/ Reload
  BY <1>2, MountedScreen DEF Leave, Reload
<1>3. CASE Server
  <2>1. Generating /\ UNCHANGED <<shown, page>>
    BY <1>1, <1>3 DEF Server, Ends, Chunk, Done, StreamFails, StreamEnds, ClosesSilently, Response,
       CallFails, pageVars
  <2>2. QED
    BY <2>1, BusyScreen
<1>4. CASE FlushTimer
  <2>1. CASE pending = <<>>
    BY <1>4, <2>1, SameScreen DEF FlushTimer, pageVars
  <2>2. CASE pending # <<>>
    BY <1>1, <1>4, <2>2, BusyScreen DEF FlushTimer, pageVars
  <2>3. QED
    BY <2>1, <2>2
<1>5. CASE SaveTimer
  BY <1>5, SameScreen DEF SaveTimer, pageVars, chatVars
<1>6. CASE Load
  BY <1>6, LoadingScreen DEF Load, ScreenInv
<1>7. CASE Render
  <2>1. Rendered
    BY <1>7 DEF Render, Rendered, Generating, chatVars, pageVars
  <2>2. QED
    BY <1>7, <2>1, ClickScreen DEF Render, chatVars, pageVars
<1>8. CASE UNCHANGED vars
  BY <1>8, SameScreen DEF vars, chatVars, pageVars
<1>9. QED
  BY <1>2, <1>3, <1>4, <1>5, <1>6, <1>7, <1>8, ClicksScreen DEF Next, User, Timer

\* What a click handler sees when it may change the conversation.
LEMMA SeesConversation ==
  ASSUME RequestInv, ScreenInv, ~shown.generating, shown.page = "ready" \/ shown.messages # <<>>
  PROVE  /\ shown.messages = messages /\ ~Generating /\ source = 0 /\ calls = {}
         /\ pending = <<>>
<1>1. shown.messages = messages
  BY LoadingScreen DEF ScreenInv
<1>2. ~Generating /\ source = 0 /\ calls = {} /\ pending = <<>>
  BY Flights DEF RequestInv, Generating
<1>3. QED
  BY <1>1, <1>2

-----------------------------------------------------------------------------
(* The shape of conversations *)

\* No message of a conversation is being answered.
Settled(ms) == \A i \in 1 .. Len(ms) : ~IsPending(ms[i])

\* The final messages of a conversation that are still in a newer one are the
\* same there.
Keeps(ms, new) ==
  \A i \in 1 .. Len(ms), j \in 1 .. Len(new) :
    IsFinal(ms[i]) /\ ms[i].key = new[j].key => new[j] = ms[i]

\* The fields of a message.
LEMMA Fields ==
  ASSUME NEW m \in MessageType
  PROVE  /\ m.key \in 1 .. MaxKey /\ m.key \in Int /\ m.text \in Seq(PieceType) /\ Len(m.text) \in Nat
         /\ m.status \in {"none", "loading", "streaming", "complete", "error"}
  BY PlaygroundAssumption DEF MessageType

\* A message is found at its place.
LEMMA Places ==
  ASSUME NEW ms \in Seq(MessageType), NEW b, Tidy(ms, b), NEW i \in 1 .. Len(ms)
  PROVE  Index(ms, ms[i].key) = i /\ At(ms, ms[i].key) = ms[i] /\ Has(ms, ms[i].key)
<1>1. PICK k : k = ms[i].key
  OBVIOUS
<1>2. k \in Keys(ms)
  BY <1>1 DEF Keys
<1>3. PICK p \in 1 .. Len(ms) : p = Index(ms, k) /\ ms[p].key = k
  BY <1>2, IndexOf
<1>4. ms[i].key \in Int /\ ms[p].key \in Int
  BY ElementOfSeq, Fields
<1>5. p < i => ms[p].key < ms[i].key
  BY DEF Tidy
<1>6. i < p => ms[i].key < ms[p].key
  BY DEF Tidy
<1>7. p = i
  BY <1>1, <1>3, <1>4, <1>5, <1>6
<1>8. QED
  BY <1>1, <1>2, <1>3, <1>7 DEF At, Has

\* The keys of a conversation are those at its places.
LEMMA HasPlace ==
  ASSUME NEW ms, NEW k, Has(ms, k)
  PROVE  \E i \in 1 .. Len(ms) : ms[i].key = k
  BY DEF Has, Keys

\* Different places hold different keys.
LEMMA SameKeySamePlace ==
  ASSUME NEW ms \in Seq(MessageType), NEW b, Tidy(ms, b),
         NEW i \in 1 .. Len(ms), NEW j \in 1 .. Len(ms), ms[i].key = ms[j].key
  PROVE  i = j
  BY Places

\* A larger bound on the keys.
LEMMA TidyBound ==
  ASSUME NEW ms \in Seq(MessageType), NEW b \in Int, NEW c \in Int, b <= c, Tidy(ms, b)
  PROVE  Tidy(ms, c)
<1>1. ASSUME NEW i \in 1 .. Len(ms)
      PROVE  ms[i].key < c
  <2>1. ms[i].key \in Int /\ ms[i].key < b
    BY ElementOfSeq, Fields DEF Tidy
  <2>2. QED
    BY <2>1
<1>2. QED
  BY <1>1 DEF Tidy

\* The empty conversation.
LEMMA TidyEmpty == \A b : Tidy(<<>>, b) /\ Settled(<<>>)
  BY DEF Tidy, Settled

\* Texts no server sent, and no text.
LEMMA OwnTexts ==
  ASSUME NEW m, m.text \in {<<>>, Written, Failure}
  PROVE  OwnText(m)
  BY DEF OwnText, Written, Failure, Piece

\* A conversation cut short and continued by a new message.
LEMMA TidyExtend ==
  ASSUME NEW ms \in Seq(MessageType), NEW b \in Int, Tidy(ms, b), Settled(ms),
         NEW new \in Seq(MessageType), NEW n \in 0 .. Len(ms), Len(new) = n + 1,
         \A i \in 1 .. n : new[i] = ms[i],
         new[n + 1].key >= b, OwnText(new[n + 1]), new[n + 1].from = "assistant",
         NEW c \in Int, new[n + 1].key < c
  PROVE  Tidy(new, c) /\ Keeps(ms, new)
<1>1. \A i \in 1 .. Len(ms) : ms[i].key \in Int /\ ms[i].key < b
  BY ElementOfSeq, Fields DEF Tidy
<1>2. new[n + 1].key \in Int
  BY ElementOfSeq, Fields
<1>3. ASSUME NEW i \in 1 .. Len(new)
      PROVE  /\ new[i].key < c
             /\ \A j \in 1 .. Len(new) : i < j => new[i].key < new[j].key
             /\ OwnText(new[i])
             /\ IsPending(new[i]) => i = Len(new) /\ new[i].from = "assistant"
  <2>1. CASE i = n + 1
    BY <1>2, <2>1
  <2>2. CASE i \in 1 .. n
    <3>1. i \in 1 .. Len(ms) /\ new[i] = ms[i] /\ new[i].key < c
      BY <1>1, <1>2, <2>2
    <3>2. OwnText(new[i]) /\ ~IsPending(new[i])
      BY <3>1 DEF Tidy, Settled
    <3>3. ASSUME NEW j \in 1 .. Len(new), i < j
          PROVE  new[i].key < new[j].key
      <4>1. CASE j = n + 1
        BY <1>1, <1>2, <3>1, <4>1
      <4>2. CASE j \in 1 .. n
        <5>1. j \in 1 .. Len(ms) /\ new[j] = ms[j]
          BY <4>2
        <5>2. QED
          BY <3>1, <3>3, <5>1 DEF Tidy
      <4>3. QED
        BY <4>1, <4>2
    <3>4. QED
      BY <3>1, <3>2, <3>3
  <2>3. QED
    BY <2>1, <2>2
<1>4. ASSUME NEW i \in 1 .. Len(ms), NEW j \in 1 .. Len(new), ms[i].key = new[j].key
      PROVE  new[j] = ms[i]
  <2>1. j # n + 1
    BY <1>1, <1>2, <1>4
  <2>2. j \in 1 .. n /\ j \in 1 .. Len(ms) /\ new[j] = ms[j]
    BY <2>1
  <2>3. i = j
    BY <1>4, <2>2, SameKeySamePlace
  <2>4. QED
    BY <2>2, <2>3
<1>5. QED
  BY <1>3, <1>4 DEF Tidy, Keeps

\* A prompt and its answer behind a conversation.
LEMMA TidyPrompt ==
  ASSUME NEW ms \in Seq(MessageType), NEW b \in 1 .. MaxKey, b + 1 <= MaxKey, Tidy(ms, b), Settled(ms)
  PROVE  LET new == ms \o <<CreateUserMessage(b), CreateLoadingAssistantMessage(b + 1)>>
         IN  Tidy(new, b + 2) /\ Keeps(ms, new)
<1>1. b + 1 \in 1 .. MaxKey
  BY PlaygroundAssumption
<1>2. PICK u \in MessageType : u = CreateUserMessage(b)
  BY NewMessages
<1>3. PICK m \in MessageType : m = CreateLoadingAssistantMessage(b + 1)
  BY <1>1, NewMessages
<1> DEFINE new == ms \o <<u, m>>
<1>4. /\ new \in Seq(MessageType) /\ Len(new) = Len(ms) + 2
      /\ \A i \in 1 .. Len(ms) : new[i] = ms[i]
      /\ new[Len(ms) + 1] = u /\ new[Len(ms) + 2] = m
  BY AndTwo
<1>5. /\ u.key = b /\ OwnText(u) /\ ~IsPending(u)
      /\ m.key = b + 1 /\ OwnText(m) /\ m.from = "assistant"
  <2>1. u.key = b /\ u.text = Written /\ ~IsPending(u)
    BY <1>2 DEF CreateUserMessage, IsPending
  <2>2. m.key = b + 1 /\ m.text = <<>> /\ m.from = "assistant"
    BY <1>3 DEF CreateLoadingAssistantMessage
  <2>3. QED
    BY <2>1, <2>2, OwnTexts
<1> HIDE DEF new
<1>6. \A i \in 1 .. Len(ms) : ms[i].key \in Int /\ ms[i].key < b
  BY ElementOfSeq, Fields DEF Tidy
<1>7. ASSUME NEW i \in 1 .. Len(new)
      PROVE  /\ new[i].key < b + 2
             /\ \A j \in 1 .. Len(new) : i < j => new[i].key < new[j].key
             /\ OwnText(new[i])
             /\ IsPending(new[i]) => i = Len(new) /\ new[i].from = "assistant"
  <2>1. CASE i = Len(ms) + 2
    BY <1>4, <1>5, <2>1
  <2>2. CASE i = Len(ms) + 1
    BY <1>4, <1>5, <2>2
  <2>3. CASE i \in 1 .. Len(ms)
    <3>1. new[i] = ms[i] /\ new[i].key < b + 2
      BY <1>4, <1>6, <2>3
    <3>2. OwnText(new[i]) /\ ~IsPending(new[i])
      BY <2>3, <3>1 DEF Tidy, Settled
    <3>3. ASSUME NEW j \in 1 .. Len(new), i < j
          PROVE  new[i].key < new[j].key
      <4>1. CASE j \in {Len(ms) + 1, Len(ms) + 2}
        BY <1>4, <1>5, <1>6, <2>3, <3>1, <4>1
      <4>2. CASE j \in 1 .. Len(ms)
        BY <1>4, <2>3, <3>1, <3>3, <4>2 DEF Tidy
      <4>3. QED
        BY <1>4, <4>1, <4>2
    <3>4. QED
      BY <3>1, <3>2, <3>3
  <2>4. QED
    BY <1>4, <2>1, <2>2, <2>3
<1>8. ASSUME NEW i \in 1 .. Len(ms), NEW j \in 1 .. Len(new), ms[i].key = new[j].key
      PROVE  new[j] = ms[i]
  <2>1. j # Len(ms) + 1 /\ j # Len(ms) + 2
    BY <1>4, <1>5, <1>6, <1>8
  <2>2. j \in 1 .. Len(ms) /\ new[j] = ms[j]
    BY <1>4, <2>1
  <2>3. i = j
    BY <1>8, <2>2, SameKeySamePlace
  <2>4. QED
    BY <2>2, <2>3
<1>9. Tidy(new, b + 2) /\ Keeps(ms, new)
  BY <1>7, <1>8 DEF Tidy, Keeps
<1>10. QED
  BY <1>2, <1>3, <1>9 DEF new

\* A conversation with its last message replaced by a later form of it.
LEMMA TidyLast ==
  ASSUME NEW ms \in Seq(MessageType), NEW b, Tidy(ms, b), ms # <<>>,
         NEW m \in MessageType, m.key = Last(ms).key, OwnText(m), m.from = "assistant"
  PROVE  LET new == [ms EXCEPT ![Len(ms)] = m]
         IN  /\ new \in Seq(MessageType) /\ Len(new) = Len(ms) /\ Tidy(new, b)
             /\ \A i \in 1 .. Len(ms) : i # Len(ms) => new[i] = ms[i]
             /\ new[Len(ms)] = m
             /\ IsPending(Last(ms)) => Keeps(ms, new)
<1> DEFINE new == [ms EXCEPT ![Len(ms)] = m]
<1>1. Last(ms) \in MessageType /\ Len(ms) \in 1 .. Len(ms) /\ Last(ms) = ms[Len(ms)]
  BY LastTyped
<1>2. /\ new \in Seq(MessageType) /\ Len(new) = Len(ms)
      /\ \A i \in 1 .. Len(ms) : new[i] = IF i = Len(ms) THEN m ELSE ms[i]
  BY <1>1, ExceptSeq
<1> HIDE DEF new
<1>3. \A i \in 1 .. Len(ms) : new[i].key = ms[i].key
  BY <1>1, <1>2
<1>4. ASSUME NEW i \in 1 .. Len(ms)
      PROVE  OwnText(new[i]) /\ (IsPending(new[i]) => i = Len(new) /\ new[i].from = "assistant")
  BY <1>2 DEF Tidy
<1>5. Tidy(new, b)
  <2>1. ASSUME NEW i \in 1 .. Len(new)
        PROVE  new[i].key < b /\ \A j \in 1 .. Len(new) : i < j => new[i].key < new[j].key
    BY <1>2, <1>3 DEF Tidy
  <2>2. QED
    BY <1>2, <1>4, <2>1 DEF Tidy
<1>6. ASSUME IsPending(Last(ms)), NEW i \in 1 .. Len(ms), NEW j \in 1 .. Len(new),
             IsFinal(ms[i]), ms[i].key = new[j].key
      PROVE  new[j] = ms[i]
  <2>1. i # Len(ms)
    BY <1>1, <1>6 DEF IsPending, IsFinal
  <2>2. ms[i].key = ms[j].key /\ j \in 1 .. Len(ms)
    BY <1>2, <1>3, <1>6
  <2>3. i = j
    BY <2>2, SameKeySamePlace
  <2>4. QED
    BY <1>2, <2>1, <2>3
<1>7. QED
  BY <1>1, <1>2, <1>5, <1>6 DEF new, Keeps

\* A conversation without one of its messages.
LEMMA TidyWithout ==
  ASSUME NEW ms \in Seq(MessageType), NEW b, Tidy(ms, b), Settled(ms), NEW k \in Keys(ms)
  PROVE  LET new == RemoveMessageByKey(ms, k)
         IN  new \in Seq(MessageType) /\ Tidy(new, b) /\ Settled(new)
             /\ \A j \in 1 .. Len(new) : \E i \in 1 .. Len(ms) : new[j] = ms[i]
<1>1. PICK i \in 1 .. Len(ms) : i = Index(ms, k)
  BY IndexOf
<1> DEFINE new == SubSeq(ms, 1, i - 1) \o SubSeq(ms, i + 1, Len(ms))
<1>2. /\ new \in Seq(MessageType) /\ Len(new) = Len(ms) - 1
      /\ \A j \in 1 .. Len(ms) - 1 : new[j] = IF j < i THEN ms[j] ELSE ms[j + 1]
  BY WithoutOne
<1>3. RemoveMessageByKey(ms, k) = new
  BY <1>1 DEF RemoveMessageByKey
<1> HIDE DEF new
<1>4. ASSUME NEW j \in 1 .. Len(new)
      PROVE  \E p \in 1 .. Len(ms) : new[j] = ms[p] /\ p = IF j < i THEN j ELSE j + 1
  BY <1>2
<1>5. ASSUME NEW j \in 1 .. Len(new), NEW q \in 1 .. Len(new), j < q
      PROVE  new[j].key < new[q].key
  <2>1. PICK p \in 1 .. Len(ms) : new[j] = ms[p] /\ p = IF j < i THEN j ELSE j + 1
    BY <1>4
  <2>2. PICK s \in 1 .. Len(ms) : new[q] = ms[s] /\ s = IF q < i THEN q ELSE q + 1
    BY <1>4
  <2>3. p < s
    BY <1>2, <1>5, <2>1, <2>2
  <2>4. QED
    BY <2>1, <2>2, <2>3 DEF Tidy
<1>6. ASSUME NEW j \in 1 .. Len(new)
      PROVE  new[j].key < b /\ OwnText(new[j]) /\ ~IsPending(new[j])
  BY <1>4 DEF Tidy, Settled
<1>7. Tidy(new, b) /\ Settled(new)
  BY <1>5, <1>6 DEF Tidy, Settled
<1>8. QED
  BY <1>2, <1>3, <1>4, <1>7

\* A conversation with one message rewritten.
LEMMA TidyRewritten ==
  ASSUME NEW ms \in Seq(MessageType), NEW b, Tidy(ms, b), Settled(ms), NEW i \in 1 .. Len(ms)
  PROVE  LET new == [ms EXCEPT ![i].text = Written]
         IN  /\ new \in Seq(MessageType) /\ Len(new) = Len(ms) /\ Tidy(new, b) /\ Settled(new)
             /\ \A j \in 1 .. Len(ms) :
                  new[j].key = ms[j].key /\ (new[j] = ms[j] \/ new[j].text = Written)
<1> DEFINE new == [ms EXCEPT ![i].text = Written]
           m == [ms[i] EXCEPT !.text = Written]
<1>1. /\ new \in Seq(MessageType) /\ Len(new) = Len(ms)
      /\ \A j \in 1 .. Len(ms) : new[j] = IF j = i THEN m ELSE ms[j]
  BY Rewritten
<1>2. m.key = ms[i].key /\ m.status = ms[i].status /\ m.text = Written
  BY ElementOfSeq DEF MessageType
<1> HIDE DEF new, m
<1>3. OwnText(m) /\ ~IsPending(m)
  BY <1>2, OwnTexts DEF Settled, IsPending
<1>4. ASSUME NEW j \in 1 .. Len(ms)
      PROVE  /\ new[j].key = ms[j].key /\ (new[j] = ms[j] \/ new[j].text = Written)
             /\ OwnText(new[j]) /\ ~IsPending(new[j])
  BY <1>1, <1>2, <1>3 DEF Tidy, Settled
<1>5. \A j \in 1 .. Len(ms) : new[j].key < b
  BY <1>4 DEF Tidy
<1>6. \A j, q \in 1 .. Len(ms) : j < q => new[j].key < new[q].key
  BY <1>4 DEF Tidy
<1>7. Tidy(new, b) /\ Settled(new)
  BY <1>1, <1>4, <1>5, <1>6 DEF Tidy, Settled
<1>8. QED
  BY <1>1, <1>4, <1>7 DEF new

\* What trimming keeps.
LEMMA TidyTrim ==
  ASSUME NEW ms \in Seq(MessageType), NEW b, Tidy(ms, b)
  PROVE  Tidy(TrimMessages(ms), b)
<1>1. CASE Len(ms) <= MaxStored
  BY <1>1 DEF TrimMessages
<1>2. CASE ~(Len(ms) <= MaxStored)
  <2>1. PICK n \in 1 .. Len(ms) + 1 : n = Len(ms) - MaxStored + 1
    BY <1>2, PlaygroundAssumption
  <2>2. PICK new : new = SubSeq(ms, n, Len(ms))
    OBVIOUS
  <2>3. /\ Len(new) = Len(ms) - n + 1
        /\ \A i \in 1 .. Len(ms) - n + 1 : new[i] = ms[n + i - 1]
    BY <2>2, Suffix
  <2>4. ASSUME NEW i \in 1 .. Len(new)
        PROVE  \E p \in 1 .. Len(ms) : new[i] = ms[p] /\ p = n + i - 1
    BY <2>3
  <2>5. ASSUME NEW i \in 1 .. Len(new), NEW j \in 1 .. Len(new), i < j
        PROVE  new[i].key < new[j].key
    <3>1. PICK p \in 1 .. Len(ms) : new[i] = ms[p] /\ p = n + i - 1
      BY <2>4
    <3>2. PICK q \in 1 .. Len(ms) : new[j] = ms[q] /\ q = n + j - 1
      BY <2>4
    <3>3. p < q
      BY <2>3, <2>5, <3>1, <3>2
    <3>4. QED
      BY <3>1, <3>2, <3>3 DEF Tidy
  <2>6. ASSUME NEW i \in 1 .. Len(new)
        PROVE  /\ new[i].key < b /\ OwnText(new[i])
               /\ IsPending(new[i]) => i = Len(new) /\ new[i].from = "assistant"
    <3>1. PICK p \in 1 .. Len(ms) : new[i] = ms[p] /\ p = n + i - 1
      BY <2>4
    <3>2. p = Len(ms) => i = Len(new)
      <4>1. Len(ms) \in Nat /\ Len(new) = Len(ms) - n + 1 /\ p = n + i - 1
        BY <2>3, <3>1
      <4>2. i \in Int /\ n \in Int
        BY <4>1
      <4>3. QED
        BY <4>1, <4>2
    <3>3. QED
      BY <3>1, <3>2 DEF Tidy
  <2>7. Tidy(new, b)
    BY <2>5, <2>6 DEF Tidy
  <2>8. QED
    BY <1>2, <2>1, <2>2, <2>7 DEF TrimMessages
<1>3. QED
  BY <1>1, <1>2

\* Normalising keeps the shape.
LEMMA TidyNormalized ==
  ASSUME NEW ms \in Seq(MessageType), NEW b, Tidy(ms, b)
  PROVE  Tidy([i \in 1 .. Len(ms) |-> NormalizeStoredMessageForLoad(ms[i])], b)
<1>1. PICK new : new = [i \in 1 .. Len(ms) |-> NormalizeStoredMessageForLoad(ms[i])]
  OBVIOUS
<1>2. Len(new) = Len(ms) /\ \A i \in 1 .. Len(ms) : new[i] = NormalizeStoredMessageForLoad(ms[i])
  BY <1>1, NormalizedTyped
<1>3. ASSUME NEW i \in 1 .. Len(ms)
      PROVE  /\ new[i].key = ms[i].key /\ new[i].text = ms[i].text /\ new[i].from = ms[i].from
             /\ IsPending(new[i]) => IsPending(ms[i])
  <2>1. ms[i] \in MessageType
    BY ElementOfSeq
  <2>2. CASE IsPending(ms[i]) /\ ms[i].text # <<>>
    <3>1. new[i] = [ms[i] EXCEPT !.status = "complete"]
      BY <1>2, <2>2 DEF NormalizeStoredMessageForLoad, CompleteAssistantMessage
    <3>2. QED
      BY <2>1, <2>2, <3>1 DEF MessageType
  <2>3. CASE ~(IsPending(ms[i]) /\ ms[i].text # <<>>)
    <3>1. new[i] = ms[i]
      BY <1>2, <2>3 DEF NormalizeStoredMessageForLoad
    <3>2. QED
      BY <3>1
  <2>4. QED
    BY <2>2, <2>3
<1>4. \A i \in 1 .. Len(ms) : OwnText(new[i])
  BY <1>3 DEF Tidy, OwnText
<1>5. \A i \in 1 .. Len(ms) : new[i].key < b /\ \A j \in 1 .. Len(ms) : i < j => new[i].key < new[j].key
  BY <1>3 DEF Tidy
<1>6. \A i \in 1 .. Len(ms) : IsPending(new[i]) => i = Len(ms) /\ new[i].from = "assistant"
  BY <1>3 DEF Tidy
<1>7. Tidy(new, b)
  BY <1>2, <1>4, <1>5, <1>6 DEF Tidy
<1>8. QED
  BY <1>1, <1>7

\* Sanitizing ends the one message that may be pending.
LEMMA TidySanitized ==
  ASSUME NEW ms \in Seq(MessageType), NEW b, Tidy(ms, b)
  PROVE  Tidy(SanitizeMessagesOnLoad(ms), b) /\ Settled(SanitizeMessagesOnLoad(ms))
<1> DEFINE stuck == {i \in 1 .. Len(ms) : ms[i].from = "assistant" /\ IsPending(ms[i])}
           last == CHOOSE i \in stuck : \A j \in stuck : j <= i
<1>1. \A i \in stuck : i = Len(ms)
  BY DEF Tidy
<1>2. CASE stuck = {}
  <2>1. SanitizeMessagesOnLoad(ms) = ms
    BY <1>2 DEF SanitizeMessagesOnLoad
  <2>2. Settled(ms)
    BY <1>2 DEF Settled, Tidy
  <2>3. QED
    BY <2>1, <2>2
<1>3. CASE stuck # {}
  <2>1. Len(ms) \in stuck /\ stuck = {Len(ms)}
    BY <1>1, <1>3
  <2>2. last \in stuck /\ \A j \in stuck : j <= last
    <3>1. \E i \in stuck : \A j \in stuck : j <= i
      BY <2>1
    <3>2. QED
      BY <3>1, Zenon
  <2>3. last = Len(ms)
    BY <1>1, <2>2
  <2>4. ms # <<>> /\ IsPending(Last(ms)) /\ Last(ms).from = "assistant" /\ Len(ms) \in 1 .. Len(ms)
    BY <2>1, EmptySeq DEF Last
  <2>5. PICK m \in MessageType : m = WithError(Last(ms))
    BY <2>4, LastTyped, ChangedMessages
  <2>6. m.key = Last(ms).key /\ m.from = "assistant" /\ m.text = Failure /\ m.status = "error"
    BY <2>4, <2>5, LastTyped DEF WithError, MessageType
  <2>7. OwnText(m)
    BY <2>6, OwnTexts
  <2>8. PICK new : new = [ms EXCEPT ![Len(ms)] = m]
    OBVIOUS
  <2>9. /\ Len(new) = Len(ms) /\ Tidy(new, b)
        /\ \A i \in 1 .. Len(ms) : i # Len(ms) => new[i] = ms[i]
        /\ new[Len(ms)] = m
    BY <2>4, <2>6, <2>7, <2>8, TidyLast
  <2>10. SanitizeMessagesOnLoad(ms) = new
    BY <1>3, <2>3, <2>5, <2>8 DEF SanitizeMessagesOnLoad, Last
  <2>11. Settled(new)
    BY <2>6, <2>9 DEF Settled, Tidy, IsPending
  <2>12. QED
    BY <2>9, <2>10, <2>11
<1>4. QED
  BY <1>2, <1>3

\* What is loaded is tidy, and nothing of it is pending.
LEMMA TidyLoaded ==
  ASSUME NEW ms \in Seq(MessageType), NEW b, Tidy(ms, b)
  PROVE  Tidy(LoadMessages(ms), b) /\ Settled(LoadMessages(ms))
<1>1. PICK a : a = [i \in 1 .. Len(ms) |-> NormalizeStoredMessageForLoad(ms[i])]
  OBVIOUS
<1>2. a \in Seq(MessageType) /\ Tidy(a, b)
  BY <1>1, NormalizedTyped, TidyNormalized
<1>3. TrimMessages(a) \in Seq(MessageType) /\ Tidy(TrimMessages(a), b)
  BY <1>2, TrimTyped, TidyTrim
<1>4. LoadMessages(ms) = SanitizeMessagesOnLoad(TrimMessages(a))
  BY <1>1 DEF LoadMessages
<1>5. QED
  BY <1>3, <1>4, TidySanitized

-----------------------------------------------------------------------------
(* What a step does to the conversation *)

\* WholeReply, place by place.
WholeAt(ms, rep, waiting) ==
  \A i \in 1 .. Len(ms) : ms[i].key = rep.key =>
    ms[i].status = "error" \/ ms[i].text = Written \/ Whole(ms[i].text \o waiting, rep)

\* The two forms of WholeReply say the same of a tidy conversation.
LEMMA WholeParts ==
  ASSUME messages \in Seq(MessageType), Tidy(messages, nextKey)
  PROVE  WholeReply <=> WholeAt(messages, reply, pending)
<1>1. ASSUME WholeReply, NEW i \in 1 .. Len(messages), messages[i].key = reply.key
      PROVE  \/ messages[i].status = "error" \/ messages[i].text = Written
             \/ Whole(messages[i].text \o pending, reply)
  <2>1. At(messages, reply.key) = messages[i] /\ Has(messages, reply.key)
    BY <1>1, Places
  <2>2. QED
    BY <1>1, <2>1 DEF WholeReply
<1>2. ASSUME WholeAt(messages, reply, pending)
      PROVE  WholeReply
  <2>1. SUFFICES ASSUME Has(messages, reply.key)
                 PROVE  \/ At(messages, reply.key).status = "error"
                        \/ At(messages, reply.key).text = Written
                        \/ Whole(At(messages, reply.key).text \o pending, reply)
    BY DEF WholeReply
  <2>2. PICK i \in 1 .. Len(messages) : messages[i].key = reply.key
    BY <2>1, HasPlace
  <2>3. At(messages, reply.key) = messages[i]
    BY <2>2, Places
  <2>4. QED
    BY <1>2, <2>2, <2>3 DEF WholeAt
<1>3. QED
  BY <1>1, <1>2 DEF WholeAt

\* The same after a step.
LEMMA WholePartsNext ==
  ASSUME messages' \in Seq(MessageType), Tidy(messages', nextKey'),
         WholeAt(messages', reply', pending')
  PROVE  WholeReply'
<1>1. SUFFICES ASSUME Has(messages', reply'.key)
               PROVE  \/ At(messages', reply'.key).status = "error"
                      \/ At(messages', reply'.key).text = Written
                      \/ Whole(At(messages', reply'.key).text \o pending', reply')
  BY DEF WholeReply
<1>2. PICK i \in 1 .. Len(messages') : messages'[i].key = reply'.key
  BY <1>1, HasPlace
<1>3. At(messages', reply'.key) = messages'[i]
  BY <1>2, Places
<1>4. QED
  BY <1>2, <1>3 DEF WholeAt

\* The invariant after a step that ends without a generation.
LEMMA IdleConversation ==
  ASSUME messages' \in Seq(MessageType), Tidy(messages', nextKey'), Settled(messages'),
         Tidy(stored', nextKey'), ReplyInv', reply'.key < nextKey', ~Generating',
         WholeAt(messages', reply', pending')
  PROVE  ConversationInv'
<1>1. AnswerInv' /\ NoneLeftPending'
  BY DEF AnswerInv, NoneLeftPending, Settled
<1>2. WholeReply'
  BY WholePartsNext
<1>3. QED
  BY <1>1, <1>2 DEF ConversationInv

\* A request begins.
LEMMA BegunConversation ==
  ASSUME TypeOK, TypeOK', ConversationInv, NEW k \in 1 .. MaxKey, SendChat(k),
         source = 0, calls = {}, pending = <<>>, nextKey <= k, nextKey' = k + 1,
         UNCHANGED stored, Tidy(messages', k + 1), messages' # <<>>,
         Last(messages') = CreateLoadingAssistantMessage(k)
  PROVE  ConversationInv'
<1>1. messages' \in Seq(MessageType) /\ stored \in Seq(MessageType) /\ nextKey \in Int
  BY DEF TypeOK
<1>2. reply'.key = k /\ reply'.text = <<>> /\ pending' = <<>> /\ isRequesting'
  BY DEF SendChat
<1>3. InFlight' = {k}
  BY DEF SendChat, InFlight
<1>4. Generating' /\ NoneLeftPending'
  BY <1>2 DEF Generating, NoneLeftPending
<1>5. /\ Last(messages').key = k /\ Last(messages').text = <<>> /\ IsPending(Last(messages'))
  BY DEF CreateLoadingAssistantMessage, IsPending
<1>6. <<>> \o <<>> = <<>> /\ Whole(<<>> \o <<>>, reply')
  BY <1>2, ConcatEmptySeq, EmptySeq DEF Whole
<1>7. AnswerInv'
  BY <1>2, <1>3, <1>5, <1>6 DEF AnswerInv, Snapshot
<1>8. Tidy(stored', nextKey')
  BY <1>1, TidyBound DEF ConversationInv
<1>9. ReplyInv' /\ reply'.key < nextKey'
  BY <1>2 DEF ReplyInv
<1>10. WholeAt(messages', reply', pending')
  <2>1. SUFFICES ASSUME NEW i \in 1 .. Len(messages'), messages'[i].key = k
                 PROVE  messages'[i].text = <<>>
    BY <1>2, <1>6 DEF WholeAt
  <2>2. Len(messages') \in 1 .. Len(messages') /\ messages'[Len(messages')].key = k
    BY <1>1, <1>5, LastTyped
  <2>3. i = Len(messages')
    BY <1>1, <2>1, <2>2, SameKeySamePlace
  <2>4. QED
    BY <1>5, <2>3 DEF Last
<1>11. WholeReply'
  BY <1>1, <1>10, WholePartsNext
<1>12. QED
  BY <1>4, <1>7, <1>8, <1>9, <1>11 DEF ConversationInv

\* A generation ends: its message is final, and the only one that changes.
LEMMA EndedConversation ==
  ASSUME TypeOK, ConversationInv, Generating, ~Generating', pending' = <<>>,
         NEW m \in MessageType, m.key = Last(messages).key, m.from = "assistant", IsFinal(m),
         OwnText(m), messages' = [messages EXCEPT ![Len(messages)] = m],
         ReplyInv', reply'.key = reply.key, m.status = "error" \/ Whole(m.text, reply'),
         UNCHANGED <<stored, nextKey>>
  PROVE  ConversationInv' /\ Keeps(messages, messages')
<1>1. /\ messages \in Seq(MessageType) /\ Tidy(messages, nextKey) /\ messages # <<>>
      /\ IsPending(Last(messages)) /\ Last(messages).key = reply.key
  BY DEF TypeOK, ConversationInv, AnswerInv
<1>2. /\ messages' \in Seq(MessageType) /\ Len(messages') = Len(messages)
      /\ Tidy(messages', nextKey) /\ Keeps(messages, messages')
      /\ \A i \in 1 .. Len(messages) : i # Len(messages) => messages'[i] = messages[i]
      /\ messages'[Len(messages)] = m
  BY <1>1, TidyLast
<1>3. Settled(messages')
  <2>1. ~IsPending(m)
    BY DEF IsPending, IsFinal
  <2>2. \A i \in 1 .. Len(messages) : i # Len(messages) => ~IsPending(messages[i])
    BY <1>1 DEF Tidy
  <2>3. QED
    BY <1>2, <2>1, <2>2 DEF Settled
<1>4. WholeAt(messages', reply', pending')
  <2>1. SUFFICES ASSUME NEW i \in 1 .. Len(messages'), messages'[i].key = reply.key
                 PROVE  messages'[i].status = "error" \/ Whole(messages'[i].text \o <<>>, reply')
    BY DEF WholeAt
  <2>2. Len(messages) \in 1 .. Len(messages') /\ messages'[Len(messages)].key = reply.key
    BY <1>1, <1>2, LastTyped
  <2>3. i = Len(messages)
    <3>1. PICK j \in 1 .. Len(messages') : j = Len(messages)
      BY <2>2
    <3>2. messages'[i].key = messages'[j].key
      BY <2>1, <2>2, <3>1
    <3>3. i = j
      BY <1>2, <3>2, SameKeySamePlace
    <3>4. QED
      BY <3>1, <3>3
  <2>4. m.text \o <<>> = m.text
    BY Fields, ConcatEmptySeq
  <2>5. QED
    BY <1>2, <2>3, <2>4
<1>5. ConversationInv'
  BY <1>2, <1>3, <1>4, IdleConversation DEF ConversationInv
<1>6. QED
  BY <1>2, <1>5

\* The conversation changes while nothing is generating.
LEMMA QuietConversation ==
  ASSUME TypeOK, ConversationInv, ~Generating', pending = <<>>, pending' = <<>>,
         messages' \in Seq(MessageType), Tidy(messages', nextKey), Settled(messages'),
         \A j \in 1 .. Len(messages') :
           messages'[j].text = Written \/ \E i \in 1 .. Len(messages) : messages'[j] = messages[i],
         UNCHANGED <<reply, stored, nextKey>>
  PROVE  ConversationInv'
<1>1. WholeAt(messages, reply, pending)
  BY WholeParts DEF TypeOK, ConversationInv
<1>2. WholeAt(messages', reply', pending')
  BY <1>1 DEF WholeAt
<1>3. ReplyInv' /\ reply'.key < nextKey' /\ Tidy(stored', nextKey') /\ Tidy(messages', nextKey')
  BY DEF ConversationInv, ReplyInv
<1>4. QED
  BY <1>2, <1>3, IdleConversation

\* Only what is stored changes, or nothing.
LEMMA SavedConversation ==
  ASSUME ConversationInv, Tidy(stored', nextKey),
         UNCHANGED <<messages, reply, pending, nextKey, isStreaming, isRequesting, source, calls>>
  PROVE  ConversationInv'
<1>1. (Generating' <=> Generating) /\ InFlight' = InFlight
  BY DEF Generating, InFlight
<1>2. QED
  BY <1>1 DEF ConversationInv, ReplyInv, AnswerInv, NoneLeftPending, WholeReply

\* The page is mounted.
LEMMA MountedConversation ==
  ASSUME TypeOK, ConversationInv, Mounted, Tidy(stored', nextKey)
  PROVE  ConversationInv'
<1>1. /\ messages' = <<>> /\ reply' = NoReply /\ ~Generating' /\ nextKey' = nextKey
      /\ nextKey \in 1 .. MaxKey + 1
  BY DEF Mounted, Generating, TypeOK
<1>2. messages' \in Seq(MessageType) /\ Tidy(messages', nextKey') /\ Settled(messages')
  BY <1>1, TidyEmpty, EmptySeq
<1>3. ReplyInv' /\ reply'.key < nextKey'
  BY <1>1, PlaygroundAssumption DEF ReplyInv, NoReply
<1>4. WholeAt(messages', reply', pending')
  BY <1>1 DEF WholeAt
<1>5. QED
  BY <1>1, <1>2, <1>3, <1>4, IdleConversation

\* The stored conversation is loaded.
LEMMA LoadedConversation ==
  ASSUME TypeOK, ScreenInv, ConversationInv, Load
  PROVE  ConversationInv' /\ Keeps(messages, messages')
<1>1. /\ messages = <<>> /\ reply = NoReply /\ ~Generating /\ ~Generating'
      /\ nextKey' = nextKey /\ reply' = reply
  BY DEF Load, ScreenInv, Generating, chatVars
<1>2. /\ messages' \in Seq(MessageType) /\ Tidy(messages', nextKey) /\ Settled(messages')
      /\ Tidy(stored', nextKey)
  <2>1. PICK loaded \in Seq(MessageType) : loaded = LoadMessages(stored)
    BY LoadTyped DEF TypeOK
  <2>2. Tidy(loaded, nextKey) /\ Settled(loaded) /\ Tidy(stored, nextKey)
    BY <2>1, TidyLoaded DEF TypeOK, ConversationInv
  <2>3. /\ messages' = loaded \/ messages' = <<>>
        /\ stored' = stored \/ stored' = TrimMessages(loaded)
    BY <2>1 DEF Load, SaveMessages
  <2>4. Tidy(TrimMessages(loaded), nextKey)
    BY <2>2, TidyTrim
  <2>5. QED
    BY <2>2, <2>3, <2>4, TidyEmpty, EmptySeq
<1>3. ReplyInv' /\ reply'.key < nextKey'
  BY <1>1 DEF ConversationInv, ReplyInv
<1>4. WholeAt(messages', reply', pending')
  <2>1. \A i \in 1 .. Len(messages') : messages'[i].key # 0
    BY <1>2, ElementOfSeq, Fields
  <2>2. reply'.key = 0
    BY <1>1 DEF NoReply
  <2>3. QED
    BY <2>1, <2>2 DEF WholeAt
<1>5. ConversationInv'
  BY <1>1, <1>2, <1>3, <1>4, IdleConversation
<1>6. Keeps(messages, messages')
  BY <1>1 DEF Keeps
<1>7. QED
  BY <1>5, <1>6

-----------------------------------------------------------------------------
(* The conversation of a running generation *)

\* What two texts in a row say is what each of them says.
LEMMA SaidBoth ==
  ASSUME NEW a \in Seq(PieceType), NEW b \in Seq(PieceType)
  PROVE  Said(a \o b) = Said(a) \union Said(b)
<1>1. /\ Len(a \o b) = Len(a) + Len(b) /\ Len(a) \in Nat /\ Len(b) \in Nat
      /\ \A i \in 1 .. Len(a) + Len(b) :
           (a \o b)[i] = IF i <= Len(a) THEN a[i] ELSE b[i - Len(a)]
  BY ConcatProperties, LenProperties
<1>2. ASSUME NEW x \in Said(a \o b)
      PROVE  x \in Said(a) \union Said(b)
  <2>1. PICK i \in 1 .. Len(a) + Len(b) : x = (a \o b)[i]
    BY <1>1 DEF Said
  <2>2. CASE i <= Len(a)
    BY <1>1, <2>1, <2>2 DEF Said
  <2>3. CASE i > Len(a)
    <3>1. x = b[i - Len(a)] /\ i - Len(a) \in 1 .. Len(b)
      BY <1>1, <2>1, <2>3
    <3>2. QED
      BY <3>1 DEF Said
  <2>4. QED
    BY <1>1, <2>2, <2>3
<1>3. ASSUME NEW x \in Said(a)
      PROVE  x \in Said(a \o b)
  <2>1. PICK i \in 1 .. Len(a) : x = a[i]
    BY DEF Said
  <2>2. i \in 1 .. Len(a \o b) /\ x = (a \o b)[i]
    BY <1>1, <2>1
  <2>3. QED
    BY <2>2 DEF Said
<1>4. ASSUME NEW x \in Said(b)
      PROVE  x \in Said(a \o b)
  <2>1. PICK i \in 1 .. Len(b) : x = b[i]
    BY DEF Said
  <2>2. PICK j : j = i + Len(a)
    OBVIOUS
  <2>3. j \in 1 .. Len(a) + Len(b) /\ ~(j <= Len(a)) /\ j - Len(a) = i
    BY <1>1, <2>2
  <2>4. j \in 1 .. Len(a \o b) /\ x = (a \o b)[j]
    BY <1>1, <2>1, <2>3
  <2>5. QED
    BY <2>4 DEF Said
<1>5. QED
  BY <1>2, <1>3, <1>4

\* A snapshot is what it is a snapshot of and the rest of it.
LEMMA SnapshotText ==
  ASSUME NEW a \in Seq(PieceType), NEW b \in Seq(PieceType), Snapshot(a, b)
  PROVE  /\ a \o SubSeq(b, Len(a) + 1, Len(b)) = b
         /\ Said(a) \subseteq Said(b)
<1>1. Len(a) \in Nat /\ Len(b) \in Nat /\ Len(a) <= Len(b) /\ SubSeq(b, 1, Len(a)) = a
  BY LenProperties DEF Snapshot, StartsWith
<1>2. \A i \in 1 .. Len(b) : b[i] \in PieceType
  BY ElementOfSeq
<1>3. \A i \in 1 .. Len(a) : a[i] = b[i]
  <2>1. \A i \in 1 .. Len(a) : b[i] \in PieceType
    BY <1>1, <1>2
  <2>2. \A i \in 1 .. Len(a) - 1 + 1 : SubSeq(b, 1, Len(a))[i] = b[1 + i - 1]
    BY <1>1, <2>1, SubSeqProperties, 1 \in Int, Len(a) \in Int
  <2>3. QED
    BY <1>1, <2>2
<1>4. Said(a) \subseteq Said(b)
  BY <1>1, <1>3 DEF Said
<1>5. PICK n : n = Len(a) + 1
  OBVIOUS
<1>6. PICK rest : rest = SubSeq(b, n, Len(b))
  OBVIOUS
<1>7. /\ rest \in Seq(PieceType) /\ Len(rest) = Len(b) - Len(a)
      /\ \A i \in 1 .. Len(b) - Len(a) : rest[i] = b[Len(a) + i]
  <2>1. n \in Int /\ Len(b) \in Int /\ n <= Len(b) + 1
    BY <1>1, <1>5
  <2>2. \A i \in n .. Len(b) : b[i] \in PieceType
    BY <1>1, <1>2, <1>5
  <2>3. /\ SubSeq(b, n, Len(b)) \in Seq(PieceType)
        /\ Len(SubSeq(b, n, Len(b))) = IF n <= Len(b) THEN Len(b) - n + 1 ELSE 0
        /\ \A i \in 1 .. Len(b) - n + 1 : SubSeq(b, n, Len(b))[i] = b[n + i - 1]
    BY <2>1, <2>2, SubSeqProperties
  <2>4. QED
    BY <1>1, <1>5, <1>6, <2>3
<1>8. /\ a \o rest \in Seq(PieceType) /\ Len(a \o rest) = Len(b)
      /\ \A i \in 1 .. Len(b) : (a \o rest)[i] = b[i]
  <2>1. /\ a \o rest \in Seq(PieceType) /\ Len(a \o rest) = Len(a) + Len(rest)
        /\ \A i \in 1 .. Len(a) + Len(rest) :
             (a \o rest)[i] = IF i <= Len(a) THEN a[i] ELSE rest[i - Len(a)]
    BY <1>7, ConcatProperties
  <2>2. QED
    BY <1>1, <1>3, <1>7, <2>1
<1>9. a \o rest = b
  BY <1>8, SeqEqual
<1>10. QED
  BY <1>4, <1>5, <1>6, <1>9

\* After a flush the last message holds what has arrived.
LEMMA FlushGives ==
  ASSUME TypeOK, ConversationInv, Generating
  PROVE  \E m \in MessageType :
           /\ Flushed(messages) = [messages EXCEPT ![Len(messages)] = m]
           /\ m.key = Last(messages).key /\ m.from = "assistant" /\ IsPending(m)
           /\ Whole(m.text, reply)
<1>1. /\ messages \in Seq(MessageType) /\ messages # <<>> /\ IsPending(Last(messages))
      /\ Whole(Last(messages).text \o pending, reply) /\ pending \in Seq(PieceType)
      /\ Snapshot(Last(messages).text, pending) => reply.merged
  BY DEF TypeOK, ConversationInv, AnswerInv
<1>2. PICK last \in MessageType : last = Last(messages) /\ last = messages[Len(messages)]
  BY <1>1, LastTyped
<1>3. last.from = "assistant" /\ IsPending(last) /\ Len(messages) \in 1 .. Len(messages)
  BY <1>1, <1>2, LastTyped DEF ConversationInv, Tidy
<1>4. CASE pending = <<>>
  <2>1. last.text \o <<>> = last.text
    BY Fields, ConcatEmptySeq
  <2>2. Whole(last.text, reply)
    BY <1>1, <1>2, <1>4, <2>1
  <2>3. [messages EXCEPT ![Len(messages)] = last] = messages
    BY <1>1, <1>2
  <2>4. Flushed(messages) = [messages EXCEPT ![Len(messages)] = last]
    BY <1>4, <2>3 DEF Flushed
  <2>5. QED
    BY <1>2, <1>3, <2>2, <2>4
<1>5. CASE pending # <<>>
  <2>1. PICK text \in Seq(PieceType) : text = last.text
    BY Fields
  <2>2. PICK new : new = text \o GetAppendableChunk(text, pending)
    OBVIOUS
  <2>3. Whole(new, reply)
    <3>1. CASE Snapshot(text, pending)
      <4>1. new = pending /\ Said(text) \subseteq Said(pending)
        BY <1>1, <2>2, <3>1, SnapshotText DEF GetAppendableChunk
      <4>2. Said(text \o pending) = Said(pending)
        BY <1>1, <4>1, SaidBoth
      <4>3. QED
        BY <1>1, <1>2, <2>1, <3>1, <4>1, <4>2 DEF Whole
    <3>2. CASE ~Snapshot(text, pending)
      BY <1>1, <1>2, <2>1, <2>2, <3>2 DEF GetAppendableChunk
    <3>3. QED
      BY <3>1, <3>2
  <2>4. last.status # "error"
    BY <1>3 DEF IsPending
  <2>5. PICK m : m = [last EXCEPT !.text = new, !.status = "streaming"]
    OBVIOUS
  <2>6. ApplyStreamingChunk(last, pending) = m
    <3>1. ApplyStreamingChunk(last, pending) =
            [last EXCEPT !.text = last.text \o GetAppendableChunk(last.text, pending),
                         !.status = "streaming"]
      BY <2>4 DEF ApplyStreamingChunk
    <3>2. QED
      BY <2>1, <2>2, <2>5, <3>1, Zenon
  <2>7. m \in MessageType
    BY <2>6, <1>1, ApplyTyped
  <2>8. m.key = last.key /\ m.from = "assistant" /\ m.text = new /\ m.status = "streaming"
    BY <1>3, <2>5 DEF MessageType
  <2>9. Flushed(messages) = [messages EXCEPT ![Len(messages)] = m]
    BY <1>1, <1>2, <1>3, <1>5, <2>6 DEF Flushed, UpdateLastAssistantMessage
  <2>10. QED
    BY <1>2, <2>3, <2>7, <2>8, <2>9 DEF IsPending
<1>6. QED
  BY <1>4, <1>5

\* A text that says what has arrived belongs to the message of the reply.
LEMMA OwnReplyText ==
  ASSUME NEW m, NEW rep, m.key = rep.key, Whole(m.text, rep),
         \A i \in 1 .. Len(rep.text) : rep.text[i].req = rep.key
  PROVE  OwnText(m)
<1>1. ASSUME NEW j \in 1 .. Len(m.text)
      PROVE  m.text[j].req \in {0, m.key}
  <2>1. m.text[j] \in Said(rep.text)
    BY DEF Whole, Said
  <2>2. PICK i \in 1 .. Len(rep.text) : m.text[j] = rep.text[i]
    BY <2>1 DEF Said
  <2>3. QED
    BY <2>2
<1>2. QED
  BY <1>1 DEF OwnText

\* An update after a flush replaces the same message.
LEMMA UpdateTwice ==
  ASSUME NEW ms \in Seq(MessageType), ms # <<>>, NEW m \in MessageType, m.from = "assistant",
         NEW x
  PROVE  LET new == [ms EXCEPT ![Len(ms)] = m]
         IN  /\ new # <<>> /\ Last(new) = m
             /\ UpdateLastAssistantMessage(new, x) = [ms EXCEPT ![Len(ms)] = x]
<1>1. PICK new : new = [ms EXCEPT ![Len(ms)] = m]
  OBVIOUS
<1>2. Len(ms) \in 1 .. Len(ms) /\ ms \in [1 .. Len(ms) -> MessageType]
  BY LastTyped, LenProperties
<1>3. new \in Seq(MessageType) /\ Len(new) = Len(ms) /\ new[Len(ms)] = m
  BY <1>1, <1>2, ExceptSeq
<1>4. new # <<>> /\ Last(new) = m
  BY <1>2, <1>3, EmptySeq DEF Last
<1>5. [new EXCEPT ![Len(ms)] = x] = [ms EXCEPT ![Len(ms)] = x]
  BY <1>1, <1>2
<1>6. UpdateLastAssistantMessage(new, x) = [ms EXCEPT ![Len(ms)] = x]
  BY <1>3, <1>4, <1>5 DEF UpdateLastAssistantMessage
<1>7. QED
  BY <1>1, <1>4, <1>6

\* A message that is completed or ends in error.
LEMMA FinalForms ==
  ASSUME NEW m \in MessageType
  PROVE  /\ CompleteAssistantMessage(m) \in MessageType /\ WithError(m) \in MessageType
         /\ CompleteAssistantMessage(m).key = m.key /\ WithError(m).key = m.key
         /\ CompleteAssistantMessage(m).from = m.from /\ WithError(m).from = m.from
         /\ CompleteAssistantMessage(m).text = m.text /\ WithError(m).text = Failure
         /\ CompleteAssistantMessage(m).status = "complete" /\ WithError(m).status = "error"
<1>1. CompleteAssistantMessage(m) \in MessageType /\ WithError(m) \in MessageType
  BY ChangedMessages
<1>2. QED
  BY <1>1 DEF CompleteAssistantMessage, WithError, MessageType

\* Done, StreamFails, CallFails and a Stop during a generation: the flushed
\* message is completed or ends in error.
LEMMA FlushedEnd ==
  ASSUME TypeOK, ConversationInv, Generating, ~Generating', pending' = <<>>,
         UNCHANGED <<reply, stored, nextKey>>,
         \/ messages' = Completed(Flushed(messages))
         \/ messages' = Failed(Flushed(messages))
         \/ messages' = UpdateLastAssistantMessage(Flushed(messages),
                          IF IsPending(Last(Flushed(messages)))
                          THEN CompleteAssistantMessage(Last(Flushed(messages)))
                          ELSE Last(Flushed(messages)))
  PROVE  ConversationInv' /\ Keeps(messages, messages')
<1>1. messages \in Seq(MessageType) /\ messages # <<>> /\ Last(messages).key = reply.key
      /\ ReplyInv /\ ReplyInv'
  BY DEF TypeOK, ConversationInv, AnswerInv, ReplyInv
<1>2. PICK m \in MessageType :
        /\ Flushed(messages) = [messages EXCEPT ![Len(messages)] = m]
        /\ m.key = Last(messages).key /\ m.from = "assistant" /\ IsPending(m)
        /\ Whole(m.text, reply)
  BY FlushGives
<1>3. PICK c \in MessageType : c = CompleteAssistantMessage(m)
  BY ChangedMessages
<1>4. PICK e \in MessageType : e = WithError(m)
  BY ChangedMessages
<1>5. /\ c.key = m.key /\ c.from = "assistant" /\ Whole(c.text, reply) /\ c.status = "complete"
      /\ e.key = m.key /\ e.from = "assistant" /\ e.text = Failure /\ e.status = "error"
  BY <1>2, <1>3, <1>4, FinalForms
<1>6. OwnText(c) /\ OwnText(e) /\ IsFinal(c) /\ IsFinal(e)
  <2>1. OwnText(c)
    BY <1>1, <1>2, <1>5, OwnReplyText DEF ReplyInv
  <2>2. OwnText(e)
    BY <1>5, OwnTexts
  <2>3. QED
    BY <1>5, <2>1, <2>2 DEF IsFinal
<1>7. Last(Flushed(messages)) = m
      /\ \A x : UpdateLastAssistantMessage(Flushed(messages), x) = [messages EXCEPT ![Len(messages)] = x]
  <2>1. Last(Flushed(messages)) = m
    BY <1>1, <1>2, UpdateTwice
  <2>2. ASSUME NEW x
        PROVE  UpdateLastAssistantMessage(Flushed(messages), x) =
                 [messages EXCEPT ![Len(messages)] = x]
    <3>1. UpdateLastAssistantMessage([messages EXCEPT ![Len(messages)] = m], x) =
            [messages EXCEPT ![Len(messages)] = x]
      BY <1>1, <1>2, UpdateTwice, Zenon
    <3>2. QED
      BY <1>2, <3>1, Zenon
  <2>3. QED
    BY <2>1, <2>2
<1>8. ~IsFinal(m)
  BY <1>2 DEF IsPending, IsFinal
<1>9. \/ messages' = [messages EXCEPT ![Len(messages)] = c]
      \/ messages' = [messages EXCEPT ![Len(messages)] = e]
  BY <1>2, <1>3, <1>4, <1>7, <1>8 DEF Completed, Failed
<1>10. QED
  BY <1>1, <1>2, <1>5, <1>6, <1>9, EndedConversation

\* A chunk arrives: it waits behind the others, and nothing it says is lost.
LEMMA ChunkConversation ==
  ASSUME TypeOK, RequestInv, ConversationInv, NEW chunk \in Chunks, Chunk(chunk)
  PROVE  ConversationInv'
<1>1. Generating /\ calls = {} /\ source # 0
  BY DEF Chunk, RequestInv, Generating
<1>2. /\ messages \in Seq(MessageType) /\ messages # <<>> /\ IsPending(Last(messages))
      /\ Last(messages).key = reply.key /\ InFlight = {reply.key}
      /\ Whole(Last(messages).text \o pending, reply) /\ pending \in Seq(PieceType)
      /\ reply.text \in Seq(PieceType) /\ Tidy(messages, nextKey)
  BY <1>1 DEF TypeOK, ConversationInv, AnswerInv
<1>3. source = reply.key
  BY <1>1, <1>2 DEF InFlight
<1>4. PICK text \in Seq(PieceType) : text = Last(messages).text
  BY <1>2, LastTyped, Fields
<1>5. chunk \in Seq(PieceType) /\ \A i \in 1 .. Len(chunk) : chunk[i].req = reply.key
  BY <1>3, ChunkPieces DEF Chunk
<1>6. /\ reply'.key = reply.key /\ reply'.text = reply.text \o chunk
      /\ UNCHANGED <<messages, isStreaming, isRequesting, source, calls, stored, nextKey>>
  BY DEF Chunk, TypeOK, pageVars
<1>7. reply.merged \/ Snapshot(pending, chunk) \/ Snapshot(text, pending') => reply'.merged
  BY <1>2, <1>4 DEF Chunk, TypeOK
<1>8. Whole(text \o pending', reply')
  <2>1. Said(text) \union Said(pending) = Said(reply.text)
    BY <1>2, <1>4, SaidBoth DEF Whole
  <2>2. Said(reply'.text) = Said(reply.text) \union Said(chunk)
    BY <1>2, <1>5, <1>6, SaidBoth
  <2>3. CASE Snapshot(pending, chunk)
    <3>1. pending' = chunk /\ Said(pending) \subseteq Said(chunk)
      BY <1>2, <1>5, <2>3, SnapshotText DEF Chunk, MergePendingStreamChunk
    <3>2. Said(text \o pending') = Said(text) \union Said(chunk)
      BY <1>5, <3>1, SaidBoth
    <3>3. QED
      BY <1>7, <2>1, <2>2, <2>3, <3>1, <3>2 DEF Whole
  <2>4. CASE ~Snapshot(pending, chunk)
    <3>1. pending' = pending \o chunk
      BY <2>4 DEF Chunk, MergePendingStreamChunk
    <3>2. (text \o pending) \o chunk = text \o (pending \o chunk)
      BY <1>2, <1>5, ConcatAssociative
    <3>3. text \o pending' = reply'.text \/ reply'.merged
      <4>1. CASE reply.merged
        BY <1>7, <4>1
      <4>2. CASE text \o pending = reply.text
        BY <1>6, <3>1, <3>2, <4>2, Zenon
      <4>3. QED
        BY <1>2, <1>4, <4>1, <4>2 DEF Whole
    <3>4. text \o pending \in Seq(PieceType)
      BY <1>2, ConcatProperties
    <3>5. Said((text \o pending) \o chunk) = Said(text \o pending) \union Said(chunk)
      BY <1>5, <3>4, SaidBoth
    <3>6. Said(text \o pending) = Said(text) \union Said(pending)
      BY <1>2, SaidBoth
    <3>7. Said(text \o pending') = Said(reply'.text)
      BY <2>1, <2>2, <3>1, <3>2, <3>5, <3>6
    <3>8. QED
      BY <3>3, <3>7 DEF Whole
  <2>5. QED
    BY <2>3, <2>4
<1>9. ReplyInv'
  <2>1. SUFFICES ASSUME NEW i \in 1 .. Len(reply'.text)
                 PROVE  reply'.text[i].req = reply.key
    BY <1>6 DEF ReplyInv
  <2>2. reply'.text[i] \in Said(reply.text) \union Said(chunk)
    <3>1. reply'.text[i] \in Said(reply'.text)
      BY DEF Said
    <3>2. QED
      BY <1>2, <1>5, <1>6, <3>1, SaidBoth
  <2>3. CASE reply'.text[i] \in Said(reply.text)
    BY <2>3 DEF Said, ConversationInv, ReplyInv
  <2>4. CASE reply'.text[i] \in Said(chunk)
    BY <1>5, <2>4 DEF Said
  <2>5. QED
    BY <2>2, <2>3, <2>4
<1>10. Generating' /\ InFlight' = {reply'.key}
  BY <1>1, <1>2, <1>6 DEF Generating, InFlight
<1>11. AnswerInv' /\ NoneLeftPending'
  BY <1>1, <1>2, <1>4, <1>6, <1>7, <1>8, <1>10 DEF AnswerInv, NoneLeftPending
<1>12. WholeReply'
  <2>1. SUFFICES ASSUME NEW i \in 1 .. Len(messages), messages[i].key = reply.key
                 PROVE  Whole(messages[i].text \o pending', reply')
    BY <1>2, <1>6, WholePartsNext DEF WholeAt
  <2>2. Len(messages) \in 1 .. Len(messages) /\ messages[Len(messages)].key = reply.key
    BY <1>2, LastTyped
  <2>3. i = Len(messages)
    BY <1>2, <2>1, <2>2, SameKeySamePlace
  <2>4. QED
    BY <1>4, <1>8, <2>3 DEF Last
<1>13. QED
  BY <1>6, <1>9, <1>11, <1>12 DEF ConversationInv

\* A non-streaming request returns.
LEMMA ResponseConversation ==
  ASSUME TypeOK, RequestInv, ConversationInv, NEW r \in calls, Response(r)
  PROVE  ConversationInv' /\ Keeps(messages, messages')
<1>1. Generating /\ ~Generating' /\ pending' = <<>>
  <2>1. Generating
    BY Flights DEF RequestInv, Generating
  <2>2. QED
    BY <2>1, EndsRequest DEF Generating
<1>2. /\ messages \in Seq(MessageType) /\ messages # <<>> /\ IsPending(Last(messages))
      /\ Last(messages).key = reply.key /\ InFlight = {reply.key} /\ Tidy(messages, nextKey)
  BY <1>1 DEF TypeOK, ConversationInv, AnswerInv
<1>3. r = reply.key
  BY <1>2 DEF InFlight
<1>4. PICK last \in MessageType : last = Last(messages) /\ last = messages[Len(messages)]
  BY <1>2, LastTyped
<1>5. last.from = "assistant"
  BY <1>2, <1>4, LastTyped DEF Tidy
<1>6. PICK text \in Seq(PieceType) : text = <<Piece(r, 1)>>
  <2>1. r \in 0 .. MaxKey /\ 1 \in 0 .. MaxPieces
    BY PlaygroundAssumption DEF TypeOK
  <2>2. QED
    BY <2>1, Texts
<1>7. PICK m \in MessageType : m = [last EXCEPT !.text = text, !.status = "complete"]
  BY ChangedMessages
<1>8. m.key = last.key /\ m.from = "assistant" /\ m.text = text /\ m.status = "complete"
  BY <1>5, <1>7 DEF MessageType
<1>9. messages' = [messages EXCEPT ![Len(messages)] = m]
  BY <1>2, <1>4, <1>5, <1>6, <1>7 DEF Response, UpdateMessages, UpdateLastAssistantMessage
<1>10. reply'.key = r /\ reply'.text = text
  BY <1>3, <1>6 DEF Response, TypeOK
<1>11. ReplyInv'
  BY <1>6, <1>10 DEF ReplyInv, Piece
<1>12. OwnText(m) /\ IsFinal(m)
  <2>1. m.key = reply'.key /\ Whole(m.text, reply')
    BY <1>2, <1>3, <1>4, <1>8, <1>10 DEF Whole
  <2>2. OwnText(m)
    BY <1>11, <2>1, OwnReplyText DEF ReplyInv
  <2>3. QED
    BY <1>8, <2>2 DEF IsFinal
<1>13. UNCHANGED <<stored, nextKey>> /\ reply'.key = reply.key
  BY <1>3, <1>10 DEF Response, pageVars
<1>14. m.key = Last(messages).key /\ Whole(m.text, reply')
  BY <1>4, <1>8, <1>10 DEF Whole
<1>15. QED
  BY <1>1, <1>8, <1>9, <1>11, <1>12, <1>13, <1>14, EndedConversation

\* The flush timer moves what waits into the message.
LEMMA FlushConversation ==
  ASSUME TypeOK, RequestInv, ConversationInv, FlushTimer
  PROVE  ConversationInv' /\ Keeps(messages, messages')
<1>1. /\ UNCHANGED <<reply, stored, nextKey, isStreaming, isRequesting, source, calls>>
      /\ pending' = <<>>
  BY DEF FlushTimer, NothingPending, pageVars
<1>2. CASE pending = <<>>
  <2>1. messages' = messages
    BY <1>2 DEF FlushTimer
  <2>2. ConversationInv'
    BY <1>1, <1>2, <2>1, SavedConversation DEF ConversationInv
  <2>3. Keeps(messages, messages)
    BY SameKeySamePlace DEF Keeps, TypeOK, ConversationInv
  <2>4. QED
    BY <2>1, <2>2, <2>3
<1>3. CASE pending # <<>>
  <2>1. Generating /\ calls = {} /\ Generating'
    BY <1>1, <1>3 DEF RequestInv, Generating
  <2>2. /\ messages \in Seq(MessageType) /\ messages # <<>> /\ IsPending(Last(messages))
        /\ Last(messages).key = reply.key /\ InFlight = {reply.key} /\ Tidy(messages, nextKey)
        /\ ReplyInv
    BY <2>1 DEF TypeOK, ConversationInv, AnswerInv
  <2>3. PICK m \in MessageType :
          /\ Flushed(messages) = [messages EXCEPT ![Len(messages)] = m]
          /\ m.key = Last(messages).key /\ m.from = "assistant" /\ IsPending(m)
          /\ Whole(m.text, reply)
    BY <2>1, FlushGives
  <2>4. OwnText(m)
    BY <2>2, <2>3, OwnReplyText DEF ReplyInv
  <2>5. messages' = [messages EXCEPT ![Len(messages)] = m]
    BY <1>3, <2>3 DEF FlushTimer, UpdateMessages
  <2>6. /\ messages' \in Seq(MessageType) /\ Len(messages') = Len(messages)
        /\ Tidy(messages', nextKey') /\ Keeps(messages, messages')
        /\ messages'[Len(messages)] = m /\ Len(messages) \in 1 .. Len(messages)
    BY <1>1, <2>2, <2>3, <2>4, <2>5, TidyLast, LastTyped
  <2>7. Whole(m.text \o pending', reply') /\ ~Snapshot(m.text, pending')
    <3>1. m.text \in Seq(PieceType)
      BY <2>3, Fields
    <3>2. m.text \o <<>> = m.text
      BY <3>1, ConcatEmptySeq
    <3>3. ~Snapshot(m.text, <<>>)
      BY <3>1, EmptySeq, LenProperties DEF Snapshot, StartsWith
    <3>4. QED
      BY <1>1, <2>3, <3>2, <3>3
  <2>8. messages' # <<>> /\ Last(messages') = m
    BY <2>6, EmptySeq DEF Last
  <2>9. InFlight' = {reply'.key}
    BY <1>1, <2>2 DEF InFlight
  <2>10. AnswerInv' /\ NoneLeftPending'
    BY <1>1, <2>1, <2>2, <2>3, <2>7, <2>8, <2>9 DEF AnswerInv, NoneLeftPending
  <2>11. WholeReply'
    <3>1. SUFFICES ASSUME NEW i \in 1 .. Len(messages'), messages'[i].key = reply'.key
                   PROVE  Whole(messages'[i].text \o pending', reply')
      BY <2>6, WholePartsNext DEF WholeAt
    <3>2. PICK j \in 1 .. Len(messages') : j = Len(messages)
      BY <2>6
    <3>3. messages'[i].key = messages'[j].key
      BY <1>1, <2>2, <2>3, <2>6, <3>1, <3>2
    <3>4. i = j
      BY <2>6, <3>3, SameKeySamePlace
    <3>5. QED
      BY <2>6, <2>7, <3>2, <3>4
  <2>12. ReplyInv' /\ reply'.key < nextKey' /\ Tidy(stored', nextKey')
    BY <1>1 DEF ConversationInv, ReplyInv
  <2>13. QED
    BY <2>6, <2>10, <2>11, <2>12 DEF ConversationInv
<1>4. QED
  BY <1>2, <1>3

-----------------------------------------------------------------------------
(* The clicks *)

\* The conversation as it is.
LEMMA KeepsSame ==
  ASSUME TypeOK, ConversationInv
  PROVE  Keeps(messages, messages)
  BY SameKeySamePlace DEF Keeps, TypeOK, ConversationInv

\* The conversation that a click may change.
LEMMA IdleFacts ==
  ASSUME TypeOK, RequestInv, ScreenInv, ConversationInv, ~shown.generating,
         shown.page = "ready" \/ shown.messages # <<>>
  PROVE  /\ shown.messages = messages /\ messages \in Seq(MessageType)
         /\ Tidy(messages, nextKey) /\ Settled(messages)
         /\ ~Generating /\ source = 0 /\ calls = {} /\ pending = <<>>
         /\ nextKey \in 1 .. MaxKey + 1 /\ nextKey \in Int
<1>1. shown.messages = messages /\ ~Generating /\ source = 0 /\ calls = {} /\ pending = <<>>
  BY SeesConversation
<1>2. Settled(messages)
  BY <1>1 DEF ConversationInv, NoneLeftPending, Settled
<1>3. messages \in Seq(MessageType) /\ nextKey \in 1 .. MaxKey + 1 /\ nextKey \in Int
  BY PlaygroundAssumption DEF TypeOK
<1>4. QED
  BY <1>1, <1>2, <1>3 DEF ConversationInv

\* Send appends a prompt and the message that will answer it.
LEMMA SendConversation ==
  ASSUME TypeOK, TypeOK', RequestInv, ScreenInv, ConversationInv, Habits = {}, Send
  PROVE  ConversationInv' /\ Keeps(messages, messages')
<1>1. shown.page = "ready" /\ ~shown.generating
  BY DEF Send, ScreenInv
<1>2. /\ shown.messages = messages /\ messages \in Seq(MessageType)
      /\ Tidy(messages, nextKey) /\ Settled(messages)
      /\ source = 0 /\ calls = {} /\ pending = <<>>
      /\ nextKey \in 1 .. MaxKey + 1 /\ nextKey \in Int
  BY <1>1, IdleFacts
<1>3. PICK b \in 1 .. MaxKey : b = nextKey /\ b + 1 <= MaxKey /\ b + 1 \in 1 .. MaxKey
  BY <1>2, PlaygroundAssumption DEF Send
<1>4. PICK u \in MessageType : u = CreateUserMessage(b)
  BY NewMessages
<1>5. PICK m \in MessageType : m = CreateLoadingAssistantMessage(b + 1)
  BY <1>3, NewMessages
<1>6. messages' = messages \o <<u, m>>
  BY <1>2, <1>3, <1>4, <1>5 DEF Send, UpdateMessages
<1>7. messages' \in Seq(MessageType) /\ Len(messages') = Len(messages) + 2
      /\ messages'[Len(messages) + 2] = m
  BY <1>2, <1>6, AndTwo
<1>8. messages' # <<>> /\ Last(messages') = m
  BY <1>2, <1>7, EmptySeq DEF Last
<1>9. Tidy(messages', b + 2) /\ Keeps(messages, messages')
  BY <1>2, <1>3, <1>4, <1>5, <1>6, TidyPrompt
<1>10. PICK k \in 1 .. MaxKey : k = b + 1 /\ k + 1 = b + 2
  BY <1>3
<1>11. SendChat(k) /\ nextKey' = k + 1 /\ UNCHANGED stored /\ nextKey <= k
  BY <1>3, <1>10 DEF Send
<1>12. ConversationInv'
  BY <1>2, <1>5, <1>8, <1>9, <1>10, <1>11, BegunConversation
<1>13. QED
  BY <1>9, <1>12

\* A conversation cut behind its first n messages, continued by a new answer.
LEMMA AnswerAfter ==
  ASSUME TypeOK, TypeOK', ConversationInv, source = 0, calls = {}, pending = <<>>,
         NEW ms \in Seq(MessageType), Tidy(ms, nextKey), Settled(ms), NEW n \in 0 .. Len(ms),
         nextKey <= MaxKey, SendChat(nextKey), nextKey' = nextKey + 1, UNCHANGED stored,
         messages' = SubSeq(ms, 1, n) \o <<CreateLoadingAssistantMessage(nextKey)>>
  PROVE  ConversationInv' /\ Keeps(ms, messages')
<1>1. PICK k \in 1 .. MaxKey : k = nextKey
  BY PlaygroundAssumption DEF TypeOK
<1>2. PICK m \in MessageType : m = CreateLoadingAssistantMessage(k)
  BY NewMessages
<1>3. m.key = k /\ m.text = <<>> /\ m.from = "assistant"
  BY <1>2 DEF CreateLoadingAssistantMessage
<1>4. OwnText(m)
  BY <1>3, OwnTexts
<1>5. /\ messages' \in Seq(MessageType) /\ Len(messages') = n + 1
      /\ \A i \in 1 .. n : messages'[i] = ms[i]
      /\ messages'[n + 1] = m
  BY <1>1, <1>2, PrefixAnd
<1>6. messages' # <<>> /\ Last(messages') = m
  BY <1>5, EmptySeq DEF Last
<1>7. Tidy(messages', k + 1) /\ Keeps(ms, messages')
  <2>1. k \in Int /\ k + 1 \in Int /\ k >= k /\ k < k + 1
    BY PlaygroundAssumption
  <2>2. Tidy(ms, k)
    BY <1>1
  <2>3. QED
    BY <1>3, <1>4, <1>5, <2>1, <2>2, TidyExtend
<1>8. ConversationInv'
  <2>1. nextKey <= k /\ nextKey' = k + 1 /\ SendChat(k)
    BY <1>1
  <2>2. Last(messages') = CreateLoadingAssistantMessage(k)
    BY <1>2, <1>6
  <2>3. QED
    BY <1>6, <1>7, <2>1, <2>2, BegunConversation
<1>9. QED
  BY <1>7, <1>8

\* Regenerate replaces what follows a message.
LEMMA RegenerateConversation ==
  ASSUME TypeOK, TypeOK', RequestInv, ScreenInv, ConversationInv,
         NEW k \in Keys(shown.messages), Regenerate(k)
  PROVE  ConversationInv' /\ Keeps(messages, messages')
<1>1. shown.page = "ready" /\ ~shown.generating
  BY DEF Regenerate, Offered
<1>2. /\ shown.messages = messages /\ messages \in Seq(MessageType)
      /\ Tidy(messages, nextKey) /\ Settled(messages)
      /\ source = 0 /\ calls = {} /\ pending = <<>>
  BY <1>1, IdleFacts
<1>3. PICK i \in 1 .. Len(messages) : i = Index(messages, k)
  BY <1>2, IndexOf
<1>4. PICK n \in 0 .. Len(messages) : n = IF messages[i].from = "user" THEN i ELSE i - 1
  OBVIOUS
<1>5. messages' = SubSeq(messages, 1, n) \o <<CreateLoadingAssistantMessage(nextKey)>>
  BY <1>2, <1>3, <1>4 DEF Regenerate, UpdateMessages, CreateRegeneratedMessages
<1>6. nextKey <= MaxKey /\ SendChat(nextKey) /\ nextKey' = nextKey + 1 /\ UNCHANGED stored
  BY DEF Regenerate
<1>7. QED
  BY <1>2, <1>5, <1>6, AnswerAfter

\* Delete takes one message out.
LEMMA DeleteConversation ==
  ASSUME TypeOK, RequestInv, ScreenInv, ConversationInv, NEW k \in Keys(shown.messages), Delete(k)
  PROVE  ConversationInv' /\ Keeps(messages, messages')
<1>1. shown.page = "ready" /\ ~shown.generating
  BY DEF Delete, Offered
<1>2. /\ shown.messages = messages /\ messages \in Seq(MessageType)
      /\ Tidy(messages, nextKey) /\ Settled(messages) /\ ~Generating /\ pending = <<>>
  BY <1>1, IdleFacts
<1>3. messages' = RemoveMessageByKey(messages, k) /\ UNCHANGED <<chatVars, pageVars, stored, reply>>
  BY DEF Delete, UpdateMessages
<1>4. /\ messages' \in Seq(MessageType) /\ Tidy(messages', nextKey) /\ Settled(messages')
      /\ \A j \in 1 .. Len(messages') : \E i \in 1 .. Len(messages) : messages'[j] = messages[i]
  BY <1>2, <1>3, TidyWithout
<1>5. ~Generating' /\ pending' = <<>> /\ UNCHANGED <<reply, stored, nextKey>>
  BY <1>2, <1>3 DEF chatVars, pageVars, Generating
<1>6. ConversationInv'
  BY <1>2, <1>4, <1>5, QuietConversation
<1>7. ASSUME NEW i \in 1 .. Len(messages), NEW j \in 1 .. Len(messages'),
             messages[i].key = messages'[j].key
      PROVE  messages'[j] = messages[i]
  <2>1. PICK p \in 1 .. Len(messages) : messages'[j] = messages[p]
    BY <1>4
  <2>2. p = i
    BY <1>2, <1>7, <2>1, SameKeySamePlace
  <2>3. QED
    BY <2>1, <2>2
<1>8. QED
  BY <1>6, <1>7 DEF Keeps

\* ApplyEdit rewrites a message, and may ask for a new answer to it.
LEMMA ApplyEditConversation ==
  ASSUME TypeOK, TypeOK', RequestInv, ScreenInv, ConversationInv, Habits = {},
         NEW submit \in BOOLEAN, ApplyEdit(submit)
  PROVE  ConversationInv'
<1>1. /\ ~shown.generating /\ editing \in Keys(shown.messages)
      /\ UNCHANGED <<stream, page, leaves, stored>>
  BY DEF ApplyEdit
<1>2. shown.messages # <<>>
  <2>1. 1 .. Len(<<>>) = {}
    BY EmptySeq
  <2>2. QED
    BY <1>1, <2>1 DEF Keys
<1>3. /\ shown.messages = messages /\ messages \in Seq(MessageType)
      /\ Tidy(messages, nextKey) /\ Settled(messages)
      /\ ~Generating /\ source = 0 /\ calls = {} /\ pending = <<>>
  BY <1>1, <1>2, IdleFacts
<1>4. PICK i \in 1 .. Len(messages) : i = Index(messages, editing)
  BY <1>1, <1>3, IndexOf
<1>5. PICK updated : updated = [messages EXCEPT ![i].text = Written]
  OBVIOUS
<1>6. /\ updated \in Seq(MessageType) /\ Len(updated) = Len(messages) /\ Tidy(updated, nextKey)
      /\ Settled(updated)
      /\ \A j \in 1 .. Len(messages) :
           updated[j].key = messages[j].key /\ (updated[j] = messages[j] \/ updated[j].text = Written)
  <2>1. LET new == [messages EXCEPT ![i].text = Written]
        IN  /\ new \in Seq(MessageType) /\ Len(new) = Len(messages) /\ Tidy(new, nextKey)
            /\ Settled(new)
            /\ \A j \in 1 .. Len(messages) :
                 new[j].key = messages[j].key /\ (new[j] = messages[j] \/ new[j].text = Written)
    BY <1>3, TidyRewritten
  <2>2. QED
    BY <1>5, <2>1, Zenon
<1>7. \/ /\ nextKey <= MaxKey
         /\ UpdateMessages(SubSeq(updated, 1, i) \o <<CreateLoadingAssistantMessage(nextKey)>>)
         /\ SendChat(nextKey) /\ nextKey' = nextKey + 1
      \/ UpdateMessages(updated) /\ UNCHANGED <<chatVars, reply, nextKey>>
  BY <1>3, <1>4, <1>5 DEF ApplyEdit
<1>8. CASE UpdateMessages(updated) /\ UNCHANGED <<chatVars, reply, nextKey>>
  <2>1. messages' = updated
    BY <1>8 DEF UpdateMessages
  <2>2. ~Generating' /\ pending' = <<>>
    BY <1>3, <1>8 DEF chatVars, Generating
  <2>3. \A j \in 1 .. Len(messages') :
          messages'[j].text = Written \/ \E p \in 1 .. Len(messages) : messages'[j] = messages[p]
    BY <1>6, <2>1
  <2>4. QED
    BY <1>1, <1>3, <1>6, <1>8, <2>1, <2>2, <2>3, QuietConversation
<1>9. CASE /\ nextKey <= MaxKey
           /\ UpdateMessages(SubSeq(updated, 1, i) \o <<CreateLoadingAssistantMessage(nextKey)>>)
           /\ SendChat(nextKey) /\ nextKey' = nextKey + 1
  <2>1. messages' = SubSeq(updated, 1, i) \o <<CreateLoadingAssistantMessage(nextKey)>>
    BY <1>9 DEF UpdateMessages
  <2>2. i \in 0 .. Len(updated)
    BY <1>6
  <2>3. QED
    BY <1>1, <1>3, <1>6, <1>9, <2>1, <2>2, AnswerAfter
<1>10. QED
  BY <1>7, <1>8, <1>9

\* Clear empties the conversation.
LEMMA ClearConversation ==
  ASSUME TypeOK, RequestInv, ScreenInv, ConversationInv, Clear
  PROVE  ConversationInv' /\ Keeps(messages, messages')
<1>1. ~shown.generating /\ shown.messages # <<>>
  BY DEF Clear
<1>2. ~Generating /\ pending = <<>>
  BY <1>1, IdleFacts
<1>3. /\ messages' = <<>> /\ ~Generating' /\ pending' = <<>>
      /\ UNCHANGED <<reply, stored, nextKey>>
  BY <1>2 DEF Clear, UpdateMessages, chatVars, Generating
<1>4. messages' \in Seq(MessageType) /\ Tidy(messages', nextKey) /\ Settled(messages')
  BY <1>3, TidyEmpty, EmptySeq
<1>5. Len(messages') = 0
  BY <1>3, EmptySeq
<1>6. ConversationInv'
  BY <1>2, <1>3, <1>4, <1>5, QuietConversation
<1>7. QED
  BY <1>5, <1>6 DEF Keeps

\* Stop completes the message that is being answered, if it still is.
LEMMA StopConversation ==
  ASSUME TypeOK, RequestInv, ConversationInv, Stop
  PROVE  ConversationInv' /\ Keeps(messages, messages')
<1>1. ~Generating' /\ pending' = <<>>
  BY EndsRequest DEF Generating
<1>2. /\ UNCHANGED <<reply, stored, nextKey>>
      /\ messages' = UpdateLastAssistantMessage(Flushed(messages),
                       IF IsPending(Last(Flushed(messages)))
                       THEN CompleteAssistantMessage(Last(Flushed(messages)))
                       ELSE Last(Flushed(messages)))
  BY DEF Stop, StopOf, UpdateMessages, pageVars
<1>3. CASE Generating
  BY <1>1, <1>2, <1>3, FlushedEnd
<1>4. CASE ~Generating
  <2>1. /\ pending = <<>> /\ messages \in Seq(MessageType) /\ Settled(messages)
        /\ Tidy(messages, nextKey)
    BY <1>4 DEF RequestInv, Generating, TypeOK, ConversationInv, NoneLeftPending, Settled
  <2>2. Flushed(messages) = messages
    BY <2>1 DEF Flushed
  <2>3. messages' = messages
    <3>1. CASE messages = <<>>
      BY <1>2, <2>2, <3>1 DEF UpdateLastAssistantMessage
    <3>2. CASE messages # <<>>
      <4>1. Len(messages) \in 1 .. Len(messages) /\ Last(messages) = messages[Len(messages)]
        BY <2>1, <3>2, LastTyped
      <4>2. ~IsPending(Last(messages))
        BY <2>1, <4>1 DEF Settled
      <4>3. [messages EXCEPT ![Len(messages)] = Last(messages)] = messages
        BY <2>1, <4>1
      <4>4. QED
        BY <1>2, <2>2, <4>2, <4>3 DEF UpdateLastAssistantMessage
    <3>3. QED
      BY <3>1, <3>2
  <2>4. ConversationInv'
    BY <1>1, <1>2, <2>1, <2>3, QuietConversation
  <2>5. QED
    BY <2>3, <2>4, KeepsSame
<1>5. QED
  BY <1>3, <1>4

-----------------------------------------------------------------------------
(* Every step *)

\* What ends a generation, seen from the conversation.
LEMMA EndsConversation ==
  ASSUME TypeOK, RequestInv, ConversationInv,
         Done \/ StreamFails \/ \E r \in calls : Response(r) \/ CallFails(r)
  PROVE  ConversationInv' /\ Keeps(messages, messages')
<1>1. ~Generating' /\ pending' = <<>>
  BY EndsRequest DEF Generating
<1>2. source # 0 \/ calls # {} => Generating
  BY Flights DEF RequestInv, Generating
<1>3. CASE Done
  <2>1. /\ Generating /\ UNCHANGED <<reply, stored, nextKey>>
        /\ messages' = Completed(Flushed(messages))
    BY <1>2, <1>3 DEF Done, StreamEnds, UpdateMessages, pageVars
  <2>2. QED
    BY <1>1, <2>1, FlushedEnd
<1>4. CASE StreamFails
  <2>1. /\ Generating /\ UNCHANGED <<reply, stored, nextKey>>
        /\ messages' = Failed(Flushed(messages))
    BY <1>2, <1>4 DEF StreamFails, StreamEnds, UpdateMessages, pageVars
  <2>2. QED
    BY <1>1, <2>1, FlushedEnd
<1>5. ASSUME NEW r \in calls, CallFails(r)
      PROVE  ConversationInv' /\ Keeps(messages, messages')
  <2>1. /\ Generating /\ UNCHANGED <<reply, stored, nextKey>>
        /\ messages' = Failed(Flushed(messages))
    BY <1>2, <1>5 DEF CallFails, UpdateMessages, pageVars
  <2>2. QED
    BY <1>1, <2>1, FlushedEnd
<1>6. QED
  BY <1>3, <1>4, <1>5, ResponseConversation

\* What leaves the conversation of the page alone.
LEMMA OthersConversation ==
  ASSUME TypeOK, ConversationInv,
         \/ \E k \in Keys(shown.messages) : Edit(k)
         \/ CancelEdit \/ SetStream \/ ClosesSilently \/ SaveTimer \/ Render \/ UNCHANGED vars
  PROVE  ConversationInv' /\ messages' = messages
<1>1. UNCHANGED <<messages, reply, pending, nextKey, isStreaming, isRequesting, source, calls>>
  BY DEF Edit, CancelEdit, SetStream, ClosesSilently, SaveTimer, Render, vars, chatVars, pageVars
<1>2. stored' = stored \/ stored' = TrimMessages(messages)
  BY DEF Edit, CancelEdit, SetStream, ClosesSilently, SaveTimer, SaveMessages, Render, vars
<1>3. Tidy(stored', nextKey)
  BY <1>2, TidyTrim DEF TypeOK, ConversationInv
<1>4. QED
  BY <1>1, <1>3, SavedConversation

\* Every step keeps the conversation in shape, and the final messages that
\* stay as they were, unless one is edited.
LEMMA StepConversation ==
  ASSUME TypeOK, TypeOK', RequestInv, ScreenInv, ConversationInv, Habits = {}, [Next]_vars
  PROVE  /\ ConversationInv'
         /\ Keeps(messages, messages') \/ \E submit \in BOOLEAN : ApplyEdit(submit)
<1>1. CASE Leave \/ Reload
  <2>1. Mounted /\ (stored' = stored \/ stored' = TrimMessages(messages))
    BY <1>1 DEF Leave, Reload
  <2>2. Tidy(stored', nextKey)
    BY <2>1, TidyTrim DEF TypeOK, ConversationInv
  <2>3. Len(messages') = 0
    BY <2>1, EmptySeq DEF Mounted
  <2>4. QED
    BY <2>1, <2>2, <2>3, MountedConversation DEF Keeps
<1>2. CASE \E chunk \in Chunks : Chunk(chunk)
  <2>1. messages' = messages
    BY <1>2 DEF Chunk
  <2>2. QED
    BY <1>2, <2>1, ChunkConversation, KeepsSame
<1>3. CASE \/ \E k \in Keys(shown.messages) : Edit(k)
           \/ CancelEdit \/ SetStream \/ ClosesSilently \/ SaveTimer \/ Render \/ UNCHANGED vars
  BY <1>3, OthersConversation, KeepsSame
<1>4. CASE Send \/ Clear \/ Stop \/ \E k \in Keys(shown.messages) : Regenerate(k) \/ Delete(k)
  BY <1>4, SendConversation, ClearConversation, StopConversation, RegenerateConversation,
     DeleteConversation
<1>5. CASE \E submit \in BOOLEAN : ApplyEdit(submit)
  BY <1>5, ApplyEditConversation
<1>6. CASE Done \/ StreamFails \/ \E r \in calls : Response(r) \/ CallFails(r)
  BY <1>6, EndsConversation
<1>7. CASE FlushTimer \/ Load
  BY <1>7, FlushConversation, LoadedConversation
<1>8. QED
  BY <1>1, <1>2, <1>3, <1>4, <1>5, <1>6, <1>7 DEF Next, User, Server, Ends, Timer

\* All the invariants hold in every state.
LEMMA ConversationInvariance ==
  ASSUME Habits = {}
  PROVE  Spec => [](TypeOK /\ RequestInv /\ ScreenInv /\ ConversationInv)
<1>1. Init => RequestInv /\ ScreenInv
  <2>1. Init => RequestInv
    BY Flights DEF Init, RequestInv, Generating
  <2>2. Init => ScreenInv
    BY DEF Init, ScreenInv, Generating, Screen
  <2>3. QED
    BY <2>1, <2>2
<1>2. Init => ConversationInv
  <2>1. SUFFICES ASSUME Init
                 PROVE  ConversationInv
    OBVIOUS
  <2>2. messages = <<>> /\ stored = <<>> /\ reply = NoReply /\ nextKey = 1 /\ ~Generating
    BY <2>1 DEF Init, Generating
  <2>3. Tidy(messages, nextKey) /\ Tidy(stored, nextKey) /\ Settled(messages)
    BY <2>2, TidyEmpty
  <2>4. ReplyInv /\ reply.key < nextKey
    BY <2>2 DEF ReplyInv, NoReply
  <2>5. AnswerInv /\ NoneLeftPending
    BY <2>2, <2>3 DEF AnswerInv, NoneLeftPending, Settled
  <2>6. WholeReply
    BY <2>2, <2>3, EmptySeq, WholeParts DEF WholeAt
  <2>7. QED
    BY <2>3, <2>4, <2>5, <2>6 DEF ConversationInv
<1>3. TypeOK /\ TypeOK' /\ RequestInv /\ ScreenInv /\ ConversationInv /\ [Next]_vars
        => ConversationInv'
  BY StepConversation
<1>4. TypeOK /\ RequestInv /\ ScreenInv /\ ConversationInv' /\ [Next]_vars
        => RequestInv' /\ ScreenInv'
  <2>1. ConversationInv' => (Generating' => messages' # <<>>)
    BY DEF ConversationInv, AnswerInv
  <2>2. QED
    BY <2>1, StepRequest, StepScreen
<1>5. QED
  BY <1>1, <1>2, <1>3, <1>4, TypeCorrect, PTL DEF Spec

\* Unless the user submits an editor left open during a generation or sends a
\* prompt before the conversation is loaded, at most one request is in flight
\* and the page says it is generating exactly while there is one: sendChat
\* (use-chat-handler.ts) is never called over another request, by any order of
\* clicks, stream events, late renders, failed loads and reloads, the prompts
\* of an empty conversation included.
THEOREM GeneratesOnce ==
  ASSUME Habits = {}
  PROVE  Spec => []OneGeneration
<1>1. TypeOK /\ RequestInv => OneGeneration
  <2>1. SUFFICES ASSUME TypeOK, RequestInv
                 PROVE  OneGeneration
    OBVIOUS
  <2>2. Generating <=> InFlight # {}
    BY <2>1, Flights DEF RequestInv, Generating
  <2>3. InFlight = {} \/ \E x : InFlight = {x}
    <3>1. CASE source # 0
      BY <2>1, <3>1 DEF RequestInv, InFlight
    <3>2. CASE source = 0 /\ calls # {}
      BY <2>1, <3>2 DEF RequestInv, InFlight
    <3>3. CASE source = 0 /\ calls = {}
      BY <3>3 DEF InFlight
    <3>4. QED
      BY <3>1, <3>2, <3>3
  <2>4. Cardinality(InFlight) <= 1
    <3>1. CASE InFlight = {}
      BY <3>1, FS_EmptySet
    <3>2. ASSUME NEW x, InFlight = {x}
          PROVE  Cardinality(InFlight) <= 1
      <4>1. Cardinality({x}) = 1
        BY FS_Singleton, Zenon
      <4>2. QED
        BY <3>2, <4>1
    <3>3. QED
      BY <2>3, <3>1, <3>2
  <2>5. QED
    BY <2>2, <2>4 DEF OneGeneration
<1>2. QED
  BY <1>1, ConversationInvariance, PTL

\* No part of one reply ends up in the message of another request, on the page
\* or in localStorage, although chunks wait in a buffer of the page's and every
\* update goes to the last assistant message (use-chat-handler.ts).
THEOREM RepliesKeptApart ==
  ASSUME Habits = {}
  PROVE  Spec => []OwnReply
<1>1. ConversationInv => OwnReply
  BY DEF ConversationInv, Tidy, OwnText, OwnReply
<1>2. QED
  BY <1>1, ConversationInvariance, PTL

\* What the message of the newest request holds and what waits to be flushed
\* is what has arrived, in order and once, unless mergePendingStreamChunk or
\* getAppendableChunk took a repetition for a snapshot; even then all that the
\* reply said is there, and no end of the stream drops any of it.
THEOREM RepliesArriveWhole ==
  ASSUME Habits = {}
  PROVE  Spec => []WholeReply
<1>1. ConversationInv => WholeReply
  BY DEF ConversationInv
<1>2. QED
  BY <1>1, ConversationInvariance, PTL

\* Without a generation no message is shown as being answered, also after a
\* reload in the middle of a reply (sanitizeMessagesOnLoad).
THEOREM NothingLeftPending ==
  ASSUME Habits = {}
  PROVE  Spec => []NoneLeftPending
<1>1. ConversationInv => NoneLeftPending
  BY DEF ConversationInv
<1>2. QED
  BY <1>1, ConversationInvariance, PTL

\* A message that was completed or ended in error changes only by an edit of
\* the user's: no late chunk, timer, response, stop or error touches it.
THEOREM FinalMessagesStay ==
  ASSUME Habits = {}
  PROVE  Spec => FinalStays
<1>1. ASSUME TypeOK, TypeOK', RequestInv, ScreenInv, ConversationInv, [Next]_vars,
             NEW k \in Keys(messages), Has(messages', k), IsFinal(At(messages, k)),
             ~\E submit \in BOOLEAN : ApplyEdit(submit)
      PROVE  At(messages', k) = At(messages, k)
  <2>1. ConversationInv' /\ Keeps(messages, messages')
    BY <1>1, StepConversation
  <2>2. /\ messages \in Seq(MessageType) /\ Tidy(messages, nextKey)
        /\ messages' \in Seq(MessageType) /\ Tidy(messages', nextKey')
    BY <1>1, <2>1 DEF TypeOK, ConversationInv
  <2>3. PICK i \in 1 .. Len(messages) : messages[i].key = k
    BY <1>1 DEF Keys
  <2>4. PICK j \in 1 .. Len(messages') : messages'[j].key = k
    BY <1>1, HasPlace
  <2>5. At(messages, k) = messages[i]
    BY <2>2, <2>3, Places
  <2>6. At(messages', k) = messages'[j]
    BY <2>2, <2>4, Places
  <2>7. QED
    BY <1>1, <2>1, <2>3, <2>4, <2>5, <2>6 DEF Keeps
<1>2. TypeOK /\ TypeOK' /\ RequestInv /\ ScreenInv /\ ConversationInv /\ [Next]_vars =>
        [\A k \in Keys(messages) :
           (/\ Has(messages', k)
            /\ IsFinal(At(messages, k))
            /\ ~\E submit \in BOOLEAN : ApplyEdit(submit))
           => At(messages', k) = At(messages, k)]_vars
  BY <1>1
<1>3. QED
  BY <1>2, ConversationInvariance, PTL DEF Spec, FinalStays
=============================================================================
