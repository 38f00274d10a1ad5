------------------------------- MODULE AiChat --------------------------------
(***************************************************************************)
(* The AI Architect's chat: ai-store, useAIChat and the view.  A request   *)
(* outlives the view and the conversation it was sent from: its answer is  *)
(* added to whatever messages there are when it comes.                     *)
(*                                                                         *)
(* Prompts are numbered in the order they are sent; what is said is left   *)
(* out, and so is the history that goes with a prompt.                     *)
(***************************************************************************)
EXTENDS Naturals, Sequences, FiniteSets

CONSTANTS
  MaxPrompts, \* bound on the prompts sent
  MaxClears,  \* bound on the conversations begun anew
  Default,    \* DEFAULT_GREETING
  Configured  \* AI_GREETING of the server

ASSUME ChatAssumption ==
  MaxPrompts \in Nat \ {0} /\ MaxClears \in Nat /\ Default # Configured

VARIABLES
  starting,  \* loading of AuthBootstrap: the configuration is not there yet
  greeting,
  messages,
  isTyping,
  underWay,  \* prompts whose request is under way
  sent,      \* prompts sent so far
  clears,
  before,    \* (history) prompts sent before the conversation was begun
  disturbed  \* (history) it was begun with a request under way

chatVars == <<starting, greeting, messages, isTyping, underWay, sent, clears,
          before, disturbed>>

Prompts == 1 .. MaxPrompts
Greetings == {Default, Configured}

\* The prompt of a message: asked by the user, answered by the assistant.
Question(p) == [role |-> "user", prompt |-> p, content |-> "question"]
Reply(p, what) == [role |-> "assistant", prompt |-> p, content |-> what]
Opening(text) == [role |-> "assistant", prompt |-> 0, content |-> text]

Replies == {"answer", "timed out", "severed"}

Message == {Question(p) : p \in Prompts} \cup {Opening(g) : g \in Greetings}
           \cup {Reply(p, w) : p \in Prompts, w \in Replies}

\* There is always an opening.
ChatTypeOK ==
  /\ starting \in BOOLEAN /\ isTyping \in BOOLEAN /\ disturbed \in BOOLEAN
  /\ greeting \in Greetings
  /\ messages \in Seq(Message) /\ messages # <<>>
  /\ messages[1] = Opening(greeting)
  /\ sent \in 0 .. MaxPrompts /\ clears \in 0 .. MaxClears
  /\ before \in 0 .. sent /\ underWay \subseteq 1 .. sent

ChatInit ==
  /\ starting = TRUE
  /\ greeting = Default /\ messages = <<Opening(Default)>>
  /\ isTyping = FALSE /\ underWay = {} /\ sent = 0 /\ clears = 0
  /\ before = 0 /\ disturbed = FALSE

-----------------------------------------------------------------------------
setGreeting(text) ==
  /\ greeting' = text
  /\ messages' = IF Len(messages) <= 1 THEN <<Opening(text)>> ELSE messages

\* The configuration came with a greeting, or without one, or not at all.
Bootstrap ==
  /\ starting /\ starting' = FALSE
  /\ setGreeting(Configured) \/ UNCHANGED <<greeting, messages>>
  /\ UNCHANGED <<isTyping, underWay, sent, clears, before, disturbed>>

\* A plausible bug: the box is not disabled.
SendAnyTime ==
  /\ ~starting /\ sent < MaxPrompts
  /\ sent' = sent + 1
  /\ messages' = Append(messages, Question(sent'))
  /\ isTyping' = TRUE /\ underWay' = underWay \cup {sent'}
  /\ UNCHANGED <<starting, greeting, clears, before, disturbed>>

\* handleSubmit of the box, handleSend of the view, onMutate.
Send ==
  /\ ~starting /\ ~isTyping /\ sent < MaxPrompts
  /\ sent' = sent + 1
  /\ messages' = Append(messages, Question(sent'))
  /\ isTyping' = TRUE /\ underWay' = underWay \cup {sent'}
  /\ UNCHANGED <<starting, greeting, clears, before, disturbed>>

\* A plausible bug: only an answer ends the typing.
SettledIfAnswered(p, what) ==
  /\ p \in underWay /\ underWay' = underWay \ {p}
  /\ messages' = Append(messages, Reply(p, what))
  /\ isTyping' = (isTyping /\ what # "answer")
  /\ UNCHANGED <<starting, greeting, sent, clears, before, disturbed>>

\* A plausible bug: a failure is told and the request sent again.
SettledAndRetried(p, what) ==
  /\ p \in underWay
  /\ underWay' = IF what = "answer" THEN underWay \ {p} ELSE underWay
  /\ messages' = Append(messages, Reply(p, what))
  /\ isTyping' = FALSE
  /\ UNCHANGED <<starting, greeting, sent, clears, before, disturbed>>

\* onSuccess or onError, and onSettled.
Settled(p, what) ==
  /\ p \in underWay /\ underWay' = underWay \ {p}
  /\ messages' = Append(messages, Reply(p, what))
  /\ isTyping' = FALSE
  /\ UNCHANGED <<starting, greeting, sent, clears, before, disturbed>>

\* The button is there while a request is under way, too.
clearHistory ==
  /\ ~starting /\ clears < MaxClears /\ clears' = clears + 1
  /\ messages' = <<Opening(greeting)>>
  /\ isTyping' = FALSE
  /\ before' = sent /\ disturbed' = (underWay # {})
  /\ UNCHANGED <<starting, greeting, underWay, sent>>

Server == \E p \in Prompts, what \in Replies : Settled(p, what)

ChatNext == Bootstrap \/ Send \/ clearHistory \/ Server

ChatSpec == ChatInit /\ [][ChatNext]_chatVars

\* Every request ends: aiRequestTimeoutMs is positive.
ChatFairSpec == ChatSpec /\ WF_chatVars(Server)

-----------------------------------------------------------------------------
(* Properties. *)

\* In a conversation begun with no request under way (in others a late answer
\* opens the box early and may stand under any question), questions and answers
\* alternate, each answer under its question, and the assistant types exactly
\* while the last question is being answered.
Alternating ==
  ~disturbed =>
    /\ \A i \in 2 .. Len(messages) :
         IF i % 2 = 0 THEN messages[i].role = "user"
         ELSE messages[i].role = "assistant"
              /\ messages[i].prompt = messages[i - 1].prompt
    /\ underWay = {messages[i].prompt :
                     i \in {j \in {Len(messages)} : messages[j].role = "user"}}
    /\ isTyping <=> underWay # {}

\* Where one side speaks of a prompt.
Places(role, p) ==
  {i \in DOMAIN messages : messages[i].role = role /\ messages[i].prompt = p}

\* In every conversation, also one begun over requests of an earlier one and
\* mixed with their answers, in any order: each of its own questions stands
\* there once and is answered once, below, when its request has ended; a late
\* answer stands there once at most; and while the box is closed the latest
\* question is one of this conversation and not answered yet.
EachAnswered ==
  /\ \A p \in before + 1 .. sent :
       \E i \in DOMAIN messages :
         /\ Places("user", p) = {i}
         /\ IF p \in underWay THEN Places("assistant", p) = {}
            ELSE \E j \in DOMAIN messages : j > i /\ Places("assistant", p) = {j}
  /\ \A p \in 1 .. before :
       /\ Places("user", p) = {}
       /\ Places("assistant", p) = {} \/ p \notin underWay
       /\ \A i, j \in Places("assistant", p) : i = j
  /\ isTyping => sent > before /\ sent \in underWay

\* Nothing is said before the configuration is there.
OpeningFirst == starting => Len(messages) = 1 /\ underWay = {}

\* Nothing is said of a prompt not sent.
SaidIsSent == \A i \in DOMAIN messages : messages[i].prompt <= sent

ChatInv == ChatTypeOK /\ OpeningFirst /\ SaidIsSent /\ Alternating /\ EachAnswered

\* The box comes back.
TypingEnds == isTyping ~> ~isTyping
=============================================================================
