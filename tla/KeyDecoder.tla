----------------------------- MODULE KeyDecoder -----------------------------
(***************************************************************************)
(* How the dashboard reads the terminal (terminal.go): a tick every 100 ms *)
(* reads the bytes that have arrived, or, when none have, takes a pending  *)
(* ESC for the Esc key; keyDecoder.feed turns bytes into keys.             *)
(*                                                                         *)
(* The user types keys and pastes; what the terminal sends for them        *)
(* arrives in pieces of any length.  When the line is Slow, a tick may     *)
(* find nothing although the rest of a sequence is still to come.          *)
(*                                                                         *)
(* Abstractions.  A few characters stand for all; what is pasted has no    *)
(* control characters, which terminals take out.                           *)
(***************************************************************************)
EXTENDS Integers, Sequences

CONSTANTS
  Slow,          \* sequences may be delayed on their way
  PendingLimit,  \* bytes of an unfinished sequence that are kept
  MaxInputs,     \* bound: keys and pastes
  MaxPasted      \* bound: characters of a paste

ASSUME KeysAssumption ==
  /\ Slow \in BOOLEAN /\ PendingLimit \in Nat \ {0}
  /\ MaxInputs \in Nat /\ MaxPasted \in Nat

VARIABLES
  wire,     \* bytes sent by the terminal and not read
  pending,  \* bytes read and not decoded
  paste,    \* inside a bracketed paste
  keys,     \* the keys handed to the dashboard
  meant,    \* ghost: the keys the user typed
  inputs    \* bound: keys and pastes so far

keyVars == <<wire, pending, paste, keys, meant, inputs>>

ESC == "ESC"

PasteStart == <<ESC, "[", "2", "0", "0", "~">>
PasteEnd   == <<ESC, "[", "2", "0", "1", "~">>

\* What the terminal sends for a key.
Sent ==
  [q |-> <<"q">>, esc |-> <<ESC>>, up |-> <<ESC, "[", "A">>, pgup |-> <<ESC, "[", "5", "~">>,
   down |-> <<ESC, "O", "B">>]

Pasted == UNION {[1..n -> {"q", "["}] : n \in 0..MaxPasted}

\* The key of a sequence, "" if it has none.
Meaning(seq) ==
  CASE seq \in {<<ESC, "[", "A">>, <<ESC, "O", "A">>} -> "up"
    [] seq \in {<<ESC, "[", "B">>, <<ESC, "O", "B">>} -> "down"
    [] seq = <<ESC, "[", "5", "~">> -> "pgup"
    [] OTHER -> ""

Final == {"A", "B", "O", "[", "q", "~"}   \* 0x40 to 0x7e

-----------------------------------------------------------------------------

\* Mutant of EndOf: every sequence has three bytes.
ThirdByte(p) == 3

\* The first position of a byte that ends the sequence, or one past the end.
EndOf(p) ==
  LET final == {i \in 3..Len(p) : p[i] \in Final}
  IN  IF final = {} THEN Len(p) + 1
      ELSE CHOOSE i \in final : \A j \in final : i <= j

\* Whether a lone ESC waits for more, and whether an unfinished sequence does.
Waits(p) ==
  p = <<ESC>> \/ (Len(p) > 1 /\ p[1] = ESC /\ p[2] \in {"[", "O"} /\ EndOf(p) > Len(p))

\* What a turn of feed's loop leaves: it keeps bytes that wait, up to a limit.
Left(p) == IF Waits(p) /\ Len(p) > PendingLimit THEN <<>> ELSE p

\* The loop is over.
Resting == pending = <<>> \/ Waits(pending)

KeysInit ==
  /\ wire = <<>> /\ pending = <<>>
  /\ paste = FALSE
  /\ keys = <<>> /\ meant = <<>>
  /\ inputs = 0

Type(k) ==
  /\ inputs < MaxInputs /\ inputs' = inputs + 1
  /\ wire' = wire \o Sent[k]
  /\ meant' = Append(meant, k)
  /\ UNCHANGED <<pending, paste, keys>>

Paste(text) ==
  /\ inputs < MaxInputs /\ inputs' = inputs + 1
  /\ wire' = wire \o PasteStart \o text \o PasteEnd
  /\ UNCHANGED <<pending, paste, keys, meant>>

\* A tick that finds input: feed begins.
Read(n) ==
  /\ Resting
  /\ n \in 1..Len(wire)
  /\ pending' = Left(pending \o SubSeq(wire, 1, n))
  /\ wire' = SubSeq(wire, n + 1, Len(wire))
  /\ UNCHANGED <<paste, keys, meant, inputs>>

\* A turn of its loop takes n bytes ...
Take(n) ==
  /\ ~Resting
  /\ pending' = Left(SubSeq(pending, n + 1, Len(pending)))
  /\ UNCHANGED <<wire, meant, inputs>>

\* ... and hands over their key unless it was pasted.
Hear(key) == keys' = IF paste \/ key = "" THEN keys ELSE Append(keys, key)

DecodeByte == pending[1] # ESC /\ Take(1) /\ Hear(pending[1]) /\ UNCHANGED paste

DecodeEsc ==
  /\ pending[1] = ESC /\ pending[2] \notin {"[", "O"}
  /\ Take(1) /\ Hear("esc") /\ UNCHANGED paste

DecodeSequence ==
  /\ pending[1] = ESC /\ pending[2] \in {"[", "O"}
  /\ Take(EndOf(pending))
  /\ LET seq == SubSeq(pending, 1, EndOf(pending))
     IN  /\ Hear(Meaning(seq))
         /\ paste' = (seq = PasteStart \/ (paste /\ seq # PasteEnd))

Decode == ~Resting /\ (DecodeByte \/ DecodeEsc \/ DecodeSequence)

\* Mutant of Timeout: a lone ESC waits for ever.
NoTimeout == FALSE

\* A tick that finds none.
Timeout ==
  /\ Slow \/ wire = <<>>
  /\ pending = <<ESC>>
  /\ pending' = <<>>
  /\ keys' = Append(keys, "esc")
  /\ UNCHANGED <<wire, paste, meant, inputs>>

KeysTick == Timeout \/ (\E n \in 1..Len(wire) : Read(n)) \/ Decode

KeysNext ==
  \/ \E k \in DOMAIN Sent : Type(k)
  \/ \E text \in Pasted : Paste(text)
  \/ KeysTick

KeysSpec == KeysInit /\ [][KeysNext]_keyVars /\ WF_keyVars(KeysTick)

-----------------------------------------------------------------------------
(* Properties *)

\* However the bytes are split, the dashboard gets the keys that were typed,
\* in their order and nothing else, in particular nothing of what was pasted, and
\* has them all when nothing is left to read (terminal.go:110).
DecodedIsMeant ==
  /\ Len(keys) <= Len(meant) /\ keys = SubSeq(meant, 1, Len(keys))
  /\ wire = <<>> /\ pending = <<>> => keys = meant

\* Once the user has typed the last key, every key has been decoded in the end,
\* a lone Esc too (terminal.go:96-99).
EveryKeyArrives == <>[](keys = meant)

\* Once all has been read, no paste is still open: otherwise every later key
\* is discarded, q and Ctrl+C too (README.md:118).
KeysAreHeard == wire = <<>> /\ pending = <<>> => ~paste
=============================================================================
