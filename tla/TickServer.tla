----------------------------- MODULE TickServer -----------------------------
(***************************************************************************)
(* HistoryManagerMT5: class WebSocketServer, which sends the ticks of the  *)
(* subscribed symbols over a web socket.  One map of subscriptions serves  *)
(* every client: opening or closing any connection clears it, and hdl_1,   *)
(* the connection that sent the last message, is the one ticks go to.      *)
(*                                                                         *)
(* Two threads share map and handle without a lock: the asio thread, in    *)
(* Manager::StartWS, runs on_open, on_close and on_message; the MT5 pump   *)
(* thread runs Manager::OnTick, which calls sendJSONTick.  websocketpp is  *)
(* external: it calls the handlers one at a time, and its send() throws    *)
(* from the moment the connection is no longer open, which is before the   *)
(* close handler runs; other handlers and ticks may come between.          *)
(***************************************************************************)
EXTENDS Naturals, Sequences, FiniteSets

CONSTANTS Clients,    \* connection handles; a handle is used once
          Symbols,    \* instrument names
          NoClient,   \* the empty connection_hdl
          MaxTokens   \* most words in a message

ASSUME ServerAssumption ==
    /\ NoClient \notin Clients
    /\ MaxTokens \in Nat

VARIABLES
    fresh,           \* handles not used yet
    open,            \* connections that are open
    closing,         \* no longer open, and on_close has not run yet
    connectionlist,  \* connectionlist
    sym_sub,         \* keys of sym_sub (the only value ever stored is true)
    hdl_1,           \* hdl_1
    message,         \* the words of the last message
    at,              \* how many of them getline has read
    flags,           \* isSubscribe and isUnSubscribe
    tick,            \* symbol sendJSONTick has found, or <<>>
    before,          \* ghost: sym_sub when the message came
    overtaken,       \* ghost: hdl_1's on_close has run since the tick was found
    failed           \* ghost: a send has thrown

connectionVars == <<fresh, open, closing, connectionlist>>
messageVars    == <<message, at, flags, before>>
tickVars       == <<tick, overtaken, failed>>
vars == <<fresh, open, closing, connectionlist, sym_sub, hdl_1, message, at,
          flags, before, tick, overtaken, failed>>

Keywords == {"SUBSCRIBE", "UNSUBSCRIBE"}

\* A word of a message: a keyword or a symbol.
Words == [keyword : Keywords] \cup [symbol : Symbols]

Messages == UNION {[1..n -> Words] : n \in 0..MaxTokens}

IsKeyword(w) == "keyword" \in DOMAIN w

TypeOK ==
    /\ fresh \subseteq Clients
    /\ open \subseteq Clients \ fresh
    /\ closing \subseteq Clients \ (fresh \cup open)
    /\ connectionlist \subseteq Clients \ fresh
    /\ sym_sub \subseteq Symbols
    /\ hdl_1 \in Clients \cup {NoClient}
    /\ message \in Messages
    /\ at \in 0..Len(message)
    /\ flags \subseteq Keywords
    /\ tick \in {<<>>} \cup {<<s>> : s \in Symbols}
    /\ before \subseteq Symbols
    /\ overtaken \in BOOLEAN
    /\ failed \in BOOLEAN

Init ==
    /\ fresh = Clients
    /\ open = {}
    /\ closing = {}
    /\ connectionlist = {}
    /\ sym_sub = {}
    /\ hdl_1 = NoClient
    /\ message = <<>>
    /\ at = 0
    /\ flags = {}
    /\ tick = <<>>
    /\ before = {}
    /\ overtaken = FALSE
    /\ failed = FALSE

-----------------------------------------------------------------------------
(* The asio thread. *)

\* No handler is running.
AsioIdle == at = Len(message)

\* Between messages there is no message to remember.
NoMessage ==
    /\ message' = <<>>
    /\ at' = 0
    /\ flags' = {}
    /\ before' = {}

on_open(c) ==
    /\ AsioIdle
    /\ c \in fresh
    /\ fresh' = fresh \ {c}
    /\ open' = open \cup {c}
    /\ connectionlist' = connectionlist \cup {c}
    /\ sym_sub' = {}
    /\ NoMessage
    /\ UNCHANGED <<closing, hdl_1, tickVars>>

\* The connection closes, by the client or by a failure; its handler is still
\* to come.
Closes(c) ==
    /\ AsioIdle
    /\ c \in open
    /\ open' = open \ {c}
    /\ closing' = closing \cup {c}
    /\ UNCHANGED <<fresh, connectionlist, sym_sub, hdl_1, messageVars, tickVars>>

\* Slip: only a client that opens starts from an empty map.
on_closeKeepsMap(c) ==
    /\ AsioIdle
    /\ c \in closing
    /\ closing' = closing \ {c}
    /\ overtaken' = (overtaken \/ (c = hdl_1 /\ tick # <<>>))
    /\ UNCHANGED <<fresh, open, connectionlist, sym_sub, hdl_1, messageVars,
                   tick, failed>>

on_close(c) ==
    /\ AsioIdle
    /\ c \in closing
    /\ closing' = closing \ {c}
    /\ sym_sub' = {}
    /\ overtaken' = (overtaken \/ (c = hdl_1 /\ tick # <<>>))
    /\ NoMessage
    /\ UNCHANGED <<fresh, open, connectionlist, hdl_1, tick, failed>>

\* on_message calls isValidRequest, which first takes the handle; the flags
\* are local to it.
on_message(c, m) ==
    /\ AsioIdle
    /\ c \in open
    /\ hdl_1' = c
    /\ message' = m
    /\ at' = 0
    /\ flags' = {}
    /\ before' = sym_sub
    /\ overtaken' = FALSE
    /\ UNCHANGED <<connectionVars, sym_sub, tick, failed>>

\* One turn of the getline loop.
NextWord ==
    /\ at < Len(message)
    /\ at' = at + 1
    /\ UNCHANGED <<connectionVars, hdl_1, message, before, tickVars>>

Word == message[at + 1]

ReadKeyword ==
    /\ NextWord
    /\ IsKeyword(Word)
    /\ flags' = flags \cup {Word.keyword}
    /\ UNCHANGED sym_sub

\* Slips: UNSUBSCRIBE is only looked at without a SUBSCRIBE; a word is
\* skipped.
ReadSymbolEither ==
    /\ NextWord
    /\ ~IsKeyword(Word)
    /\ sym_sub' = IF "SUBSCRIBE" \in flags THEN sym_sub \cup {Word.symbol}
                  ELSE IF "UNSUBSCRIBE" \in flags THEN sym_sub \ {Word.symbol}
                  ELSE sym_sub
    /\ UNCHANGED flags

ReadSymbolTwice ==
    /\ at < Len(message)
    /\ ~IsKeyword(Word)
    /\ at' = at + 2
    /\ UNCHANGED <<connectionVars, sym_sub, hdl_1, message, flags, before,
                   tickVars>>

\* SUBSCRIBE adds the symbol to the map, UNSUBSCRIBE then erases it.
ReadSymbol ==
    /\ NextWord
    /\ ~IsKeyword(Word)
    /\ LET added == IF "SUBSCRIBE" \in flags THEN sym_sub \cup {Word.symbol}
                                             ELSE sym_sub
       IN  sym_sub' = IF "UNSUBSCRIBE" \in flags THEN added \ {Word.symbol}
                                                 ELSE added
    /\ UNCHANGED flags

-----------------------------------------------------------------------------
(* The pump thread: sendJSONTick. *)

TickFind(s) ==
    /\ tick = <<>>
    /\ s \in sym_sub
    /\ tick' = <<s>>
    /\ UNCHANGED <<connectionVars, sym_sub, hdl_1, messageVars, overtaken, failed>>

\* m_server.send(hdl_1, ...): nothing catches what it throws.
TickSend ==
    /\ tick # <<>>
    /\ tick' = <<>>
    /\ overtaken' = FALSE
    /\ failed' = (hdl_1 \notin open)
    /\ UNCHANGED <<connectionVars, sym_sub, hdl_1, messageVars>>

-----------------------------------------------------------------------------
AsioStep == ReadKeyword \/ ReadSymbol

\* After a send has thrown the process is gone.
Next ==
    /\ ~failed
    /\ \/ \E c \in Clients : on_open(c) \/ Closes(c) \/ on_close(c)
       \/ \E c \in Clients, m \in Messages : on_message(c, m)
       \/ AsioStep
       \/ \E s \in Symbols : TickFind(s)
       \/ TickSend

Spec == Init /\ [][Next]_vars

-----------------------------------------------------------------------------
\* The close of the requester bounds what can be sent to a connection that is
\* gone, although hdl_1 outlives it: no tick is found once its on_close has run,
\* and the one tick found before is the only one it can overtake.  Between the
\* close and its handler nothing keeps a send from throwing.
ThrowsOnlyAroundClose ==
    /\ sym_sub # {} => hdl_1 \in open \cup closing
    /\ tick # <<>> => hdl_1 \in open \cup closing \/ overtaken

(***************************************************************************)
(* What the words read so far have done to the map, told from the message: *)
(* the last mention of a symbol under some keyword decides, and from the   *)
(* first UNSUBSCRIBE on every mention withdraws, whatever SUBSCRIBE comes  *)
(* before or after it.                                                     *)
(***************************************************************************)
Under(keyword, i) == \E j \in 1..(i - 1) : message[j] = [keyword |-> keyword]

MessageTakesEffect ==
    \A s \in Symbols :
        LET mentions == {i \in 1..at : /\ message[i] = [symbol |-> s]
                                       /\ \E k \in Keywords : Under(k, i)}
            last     == CHOOSE i \in mentions : \A j \in mentions : j <= i
        IN  s \in sym_sub <=> IF mentions = {} THEN s \in before
                                              ELSE ~Under("UNSUBSCRIBE", last)
=============================================================================
