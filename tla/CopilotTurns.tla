------------------------------ MODULE CopilotTurns ------------------------------
(***************************************************************************)
(* Conversations with the copilot of ai_router_copilot_service.  A turn,   *)
(* of POST /copilot/chat or of a WebSocket, is one transaction around the  *)
(* calls of the language model: it reads the history, writes the question, *)
(* perhaps a recommendation, the answer, and commits.                      *)
(***************************************************************************)
EXTENDS Naturals, FiniteSets, SequencesExt

CONSTANTS
    Talks,          \* copilot_sessions.id
    Talkers,        \* requests and connections
    Window,         \* max_history_messages
    MaxClock        \* bound: messages written, those of turns that fail included

ASSUME CopilotAssumption == Window \in Nat /\ MaxClock \in Nat

VARIABLES
    talk,       \* committed copilot_sessions
    message,    \* committed copilot_messages
    advice,     \* committed router_recommendations, each named by its turn
    turn,       \* what each talker has flushed and not committed
    stamp       \* stamps messages: created_at

copilotVars == <<talk, message, advice, turn, stamp>>

Silent == [step |-> "silent"]

CopilotInit ==
    /\ talk = {} /\ message = {} /\ advice = {} /\ stamp = 0
    /\ turn = [w \in Talkers |-> Silent]

Speaking == {w \in Talkers : turn[w] # Silent}

\* By created_at.
History(s) ==
    SetToSortSeq({m \in message : m.talk = s}, LAMBDA m, n : m.at < n.at)

\* get_recent_messages.
Recent(s) == SubSeq(History(s), 1, IF Window < Len(History(s)) THEN Window ELSE Len(History(s)))

-----------------------------------------------------------------------------

\* A session id that is not known, or none, opens a new session.
TurnBegins(w, s) ==
    /\ turn[w] = Silent /\ stamp < MaxClock
    /\ \/ s \in talk
       \/ \A v \in Speaking : turn[v].talk # s
    /\ turn' = [turn EXCEPT ![w] =
          [step |-> "asked", talk |-> s, at |-> stamp, context |-> Recent(s), advised |-> FALSE]]
    /\ stamp' = stamp + 1
    /\ UNCHANGED <<talk, message, advice>>

\* The model asks for one and there are listings to rank.
TurnAdvises(w) ==
    /\ turn[w].step = "asked" /\ ~turn[w].advised
    /\ turn' = [turn EXCEPT ![w].advised = TRUE]
    /\ UNCHANGED <<talk, message, advice, stamp>>

MUT_TurnCommits(w) ==
    LET t == turn[w] IN
    /\ t.step = "asked" /\ stamp < MaxClock
    /\ talk' = talk \cup {t.talk}
    /\ message' = message \cup
          {[talk |-> t.talk, role |-> "user", turn |-> t.at, at |-> t.at, advised |-> FALSE]}
    /\ advice' = advice
    /\ stamp' = stamp + 1
    /\ turn' = [turn EXCEPT ![w] = Silent]

\* The answer is stamped, and all of the turn is committed before it is sent.
TurnCommits(w) ==
    LET t == turn[w] IN
    /\ t.step = "asked" /\ stamp < MaxClock
    /\ talk' = talk \cup {t.talk}
    /\ message' = message \cup
          {[talk |-> t.talk, role |-> "user", turn |-> t.at, at |-> t.at, advised |-> FALSE],
           [talk |-> t.talk, role |-> "assistant", turn |-> t.at, at |-> stamp,
            advised |-> t.advised]}
    /\ advice' = IF t.advised THEN advice \cup {t.at} ELSE advice
    /\ stamp' = stamp + 1
    /\ turn' = [turn EXCEPT ![w] = Silent]

\* The transaction is rolled back; a WebSocket is closed.
TurnFails(w) ==
    /\ turn[w].step = "asked"
    /\ turn' = [turn EXCEPT ![w] = Silent]
    /\ UNCHANGED <<talk, message, advice, stamp>>

CopilotNext ==
    \E w \in Talkers :
        \/ \E s \in Talks : TurnBegins(w, s)
        \/ TurnAdvises(w) \/ TurnCommits(w) \/ TurnFails(w)

CopilotSpec == CopilotInit /\ [][CopilotNext]_copilotVars
-----------------------------------------------------------------------------
(* Properties that hold *)

\* Every variable keeps its type.
CopilotTypeOK ==
    /\ talk \subseteq Talks /\ stamp \in 0..MaxClock /\ advice \subseteq 0..stamp
    /\ \A m \in message : m.talk \in talk /\ m.role \in {"user", "assistant"} /\ m.at \in 0..stamp
    /\ DOMAIN turn = Talkers

\* Whatever fails, and however turns overlap, a question that is kept has its answer after
\* it in the history, and an answer that quotes a recommendation has it recorded.
QuestionsAreAnswered ==
    /\ \A m \in message : m.role = "user" =>
          \E n \in message : /\ n.role = "assistant" /\ n.at > m.at
                             /\ n.talk = m.talk /\ n.turn = m.turn
    /\ \A m \in message : m.advised => m.turn \in advice

-----------------------------------------------------------------------------
(* A claim of the code's own text that its behaviour contradicts *)

\* repository.py: "Fetch the most recent `limit` messages": the last answer is among what
\* a turn is given.
RecentIsRemembered ==
    [][\A w \in Talkers : turn[w] = Silent /\ turn'[w] # Silent =>
          LET h == History(turn'[w].talk) IN
          h # <<>> /\ Window > 0 => h[Len(h)] \in ToSet(turn'[w].context)]_copilotVars
=============================================================================
