------------------------------ MODULE Keyboard ------------------------------
(***************************************************************************)
(* The PS/2 keyboard driver (include/drivers/keyboard/keyboard.c):         *)
(* keyboard_init and keyboard_poll_k, one action per byte read from port   *)
(* 0x60, against a keyboard that may ask for a byte again, and a user who  *)
(* may type at any time.                                                   *)
(***************************************************************************)
EXTENDS Integers, Sequences

CONSTANTS Keystrokes,  \* what a user may do: [bytes, gives], see MCPciBus
          MaxStrokes   \* keystrokes looked at

VARIABLES kb,        \* pc, attempts, response, discards left, result
          out,       \* the bytes the keyboard has sent and nobody has read
          latch,     \* what port 0x60 reads as when there is no new byte
          scodeset, inited, keyd,
          got,       \* history: the keys keyboard_poll_k returned, as their codes without 0xF0
          typed,     \* history: how often the user typed, the keys released, how much of it during the start
          dropped    \* history: the byte the third command's answer was

kbVars == <<kb, out, latch, scodeset, inited, keyd, got, typed, dropped>>

KeyboardInit ==
  /\ \E sil \in {0, 1} : kb = [pc |-> "init", sil |-> sil, attempts |-> 0, discard |-> 0, result |-> "none"]
  /\ out = <<>> /\ latch = "00" /\ scodeset = "none" /\ inited = FALSE /\ keyd = 0
  /\ got = <<>> /\ typed = [strokes |-> 0, gives |-> <<>>, early |-> 0] /\ dropped = "none"

-----------------------------------------------------------------------------
(* The keyboard: its answer to a byte, or its demand to have it again.      *)
Answers(byte) ==
  {<<"fe">>} \cup CASE byte = "ff" -> {<<"fa", "aa">>, <<"fa", "fc">>}
                    [] byte = "f0" -> {<<"fa">>}
                    [] byte = "00" -> {<<"fa", "41">>, <<"fa", "02">>}
Sent(byte) == \E answer \in Answers(byte) : out' = out \o answer

Type ==
  /\ typed.strokes < MaxStrokes
  /\ \E stroke \in Keystrokes :
       /\ out' = out \o stroke.bytes
       /\ typed' = [strokes |-> typed.strokes + 1, gives |-> typed.gives \o stroke.gives,
                    early |-> IF inited THEN typed.early ELSE typed.early + 1]
  /\ UNCHANGED <<kb, latch, scodeset, inited, keyd, got, dropped>>

-----------------------------------------------------------------------------
(* keyboard_init.  A command is sent again, three times at most, while the  *)
(* answer is 0xFE; any answer but 0xFA is -1.                               *)
Return(r) == kb' = [kb EXCEPT !.pc = "idle", !.result = r]
quiet == <<scodeset, inited, keyd, got, typed>>

Assert_sil_chill ==
  /\ kb.pc = "init"
  /\ IF kb.sil = 0 THEN kb' = [kb EXCEPT !.pc = "ack ff"] /\ Sent("ff")
     ELSE kb' = [kb EXCEPT !.pc = "panic"] /\ UNCHANGED out
  /\ UNCHANGED <<latch, dropped, quiet>>

Ack(pc, byte, next) ==
  /\ kb.pc = pc /\ out # <<>> /\ latch' = Head(out)
  /\ \/ /\ Head(out) = "fe" /\ kb.attempts < 3
        /\ kb' = [kb EXCEPT !.attempts = @ + 1]
        /\ \E answer \in Answers(byte) : out' = Tail(out) \o answer
     \/ Head(out) = "fa" /\ next
     \/ /\ Head(out) # "fa" /\ (Head(out) = "fe" => kb.attempts = 3)
        /\ Return("-1") /\ out' = Tail(out)
  /\ UNCHANGED <<dropped, quiet>>

ResetAck == Ack("ack ff", "ff", kb' = [kb EXCEPT !.pc = "self test", !.attempts = 0] /\ out' = Tail(out))

SelfTest ==
  /\ kb.pc = "self test" /\ out # <<>> /\ latch' = Head(out)
  /\ IF Head(out) = "aa"
     THEN /\ kb' = [kb EXCEPT !.pc = "ack f0"]
          /\ \E answer \in Answers("f0") : out' = Tail(out) \o answer
     ELSE Return("failed its own test") /\ out' = Tail(out)
  /\ UNCHANGED <<dropped, quiet>>

ScancodeAck ==
  Ack("ack f0", "f0", /\ kb' = [kb EXCEPT !.pc = "drop"]
                      /\ \E answer \in Answers("00") : out' = Tail(out) \o answer)

(* The answer to the third byte is read and not kept: `response' is still   *)
(* the 0xFA before it, and the loop that sends the byte again is not taken. *)
DropAnswer ==
  /\ kb.pc = "drop" /\ out # <<>>
  /\ latch' = Head(out) /\ dropped' = Head(out) /\ out' = Tail(out)
  /\ kb' = [kb EXCEPT !.pc = "set"]
  /\ UNCHANGED quiet

(* Two reads behind one wait: the second finds a new byte, or the same one. *)
ReadSet ==
  /\ kb.pc = "set" /\ out # <<>>
  /\ LET rest == Tail(out)
         set == IF rest = <<>> THEN Head(out) ELSE Head(rest)
         known == set \in {"43", "41", "3f"}
     IN  /\ scodeset' = set /\ latch' = set
         /\ out' = IF rest = <<>> THEN <<>> ELSE Tail(rest)
         /\ inited' = known
         /\ Return(IF known THEN "0" ELSE "-1")
  /\ UNCHANGED <<keyd, got, typed, dropped>>

-----------------------------------------------------------------------------
(* keyboard_poll_k.  The key that was released, or -1 at a plain press; the *)
(* pause key is thrown away, and presses behind 0xE0 are only counted.      *)
PauseRestWhole == 8
PauseRest == 7

poll == <<scodeset, inited, typed, dropped>>
Gives(k) == Return("key") /\ got' = Append(got, k)
On(pc) == kb' = [kb EXCEPT !.pc = pc] /\ UNCHANGED got

keyboard_poll_k ==
  /\ kb.pc = "idle"
  /\ \/ ~inited /\ Return("-1") /\ UNCHANGED got
     \/ \E sil \in {0, 1} : inited /\ On(IF sil = 0 THEN "start" ELSE "panic")
  /\ UNCHANGED <<out, latch, keyd, poll>>

PollByte ==
  /\ kb.pc \in {"start", "f0", "e0", "e0 f0", "e1"} /\ out # <<>>
  /\ latch' = Head(out) /\ out' = Tail(out)
  /\ LET b == Head(out)
     IN  \/ /\ kb.pc = "start" /\ b = "f0"
            /\ On("f0") /\ keyd' = IF keyd > 0 THEN keyd - 1 ELSE 0
         \/ kb.pc = "start" /\ b = "e0" /\ On("e0") /\ UNCHANGED keyd
         \/ /\ kb.pc = "start" /\ b = "e1"
            /\ kb' = [kb EXCEPT !.pc = "e1", !.discard = PauseRest] /\ UNCHANGED <<got, keyd>>
         \/ /\ kb.pc = "start" /\ b \notin {"f0", "e0", "e1"}
            /\ Return("-1") /\ UNCHANGED <<got, keyd>>
         \/ kb.pc = "f0" /\ Gives(<<b>>) /\ UNCHANGED keyd
         \/ kb.pc = "e0" /\ b = "f0" /\ On("e0 f0") /\ UNCHANGED keyd
         \/ kb.pc = "e0" /\ b # "f0" /\ On("start") /\ keyd' = (keyd + 1) % 256
         \/ kb.pc = "e0 f0" /\ Gives(<<"e0", b>>) /\ UNCHANGED keyd
         \/ /\ kb.pc = "e1" /\ UNCHANGED <<got, keyd>>
            /\ kb' = [kb EXCEPT !.discard = @ - 1, !.pc = IF kb.discard = 1 THEN "start" ELSE "e1"]
  /\ UNCHANGED poll

KeyboardNext ==
  Type \/ Assert_sil_chill \/ ResetAck \/ SelfTest \/ ScancodeAck \/ DropAnswer \/ ReadSet
    \/ keyboard_poll_k \/ PollByte

KeyboardSpec == KeyboardInit /\ [][KeyboardNext]_kbVars

\* The bytes there are: the keyboard's answers and what the keys send.
Byte ==
  {"fa", "fe", "aa", "fc", "41", "02"} \cup
    UNION {{stroke.bytes[k] : k \in DOMAIN stroke.bytes} : stroke \in Keystrokes}
StrokesAreBytes == \A stroke \in Keystrokes : stroke.bytes \in Seq(Byte)

-----------------------------------------------------------------------------
Pcs == {"init", "panic", "ack ff", "self test", "ack f0", "drop", "set", "idle",
        "start", "f0", "e0", "e0 f0", "e1"}
Results == {"none", "-1", "0", "key", "failed its own test"}
Record == [pc : Pcs, sil : {0, 1}, attempts : 0..3, discard : 0..PauseRest, result : Results]
KeyboardTypeOK ==
  /\ kb \in Record
  /\ keyd \in 0..255
  /\ inited \in BOOLEAN

(* keyboard_init waits for a byte that will never come only when the        *)
(* keyboard asked for the third byte again: that answer is dropped.         *)
WaitsForALostAnswer ==
  kb.pc \in {"ack ff", "self test", "ack f0", "drop", "set"} /\ out = <<>> =>
    kb.pc = "set" /\ dropped # "fa"

(* What keyboard_init says is true, unless the user typed meanwhile: 0 is  *)
(* a known scan code set, and the one the keyboard reported; 1 is a failed  *)
(* self test.                                                               *)
InitTellsTheTruth ==
  typed.early = 0 =>
    /\ inited => scodeset = "41" /\ dropped = "fa"
    /\ kb.result = "failed its own test" => latch = "fc"

(* With all bytes read, the keys returned are the keys released, in order:  *)
(* prefixes and the eight bytes of the pause key never put the driver out   *)
(* of step with the keyboard.                                               *)
KeysInStep ==
  (inited /\ typed.early = 0 /\ out = <<>> /\ kb.pc \in {"idle", "start"}) =>
    got = typed.gives

-----------------------------------------------------------------------------
(* The inductive invariant of the first three.  Whoever types: a 0xFA that  *)
(* is about to be taken for the answer to a command has a byte behind it.   *)
Starting == {"ack ff", "self test", "ack f0", "drop"}
AnswerComes ==
  /\ out \in Seq(Byte)
  /\ kb.pc \in Starting => out # <<>>
  /\ kb.pc \in {"ack ff", "drop"} /\ Head(out) = "fa" => Len(out) >= 2
  /\ kb.pc = "set" /\ out = <<>> => dropped # "fa"

(* keyboard_init returns once; keys are read only when it has succeeded.    *)
Progress ==
  /\ typed.early \in Nat
  /\ kb.pc \in {"init", "set"} \cup Starting => ~inited /\ kb.result = "none"
  /\ ~inited => kb.pc \in {"init", "panic", "set", "idle"} \cup Starting
  /\ inited => kb.result # "failed its own test"
  /\ kb.pc = "panic" => kb.result # "failed its own test"

(* As long as nobody has typed, what is to be read is the answer to the     *)
(* command sent last, or what is left of it.                                *)
Undisturbed ==
  typed.early = 0 =>
    /\ kb.pc = "init" => out = <<>>
    /\ kb.pc = "ack ff" => out \in Answers("ff")
    /\ kb.pc = "self test" => out \in {<<"aa">>, <<"fc">>}
    /\ kb.pc = "ack f0" => out \in Answers("f0")
    /\ kb.pc = "drop" => out \in Answers("00")
    /\ kb.pc = "set" => \/ dropped = "fe" /\ out = <<>>
                        \/ dropped = "fa" /\ out \in {<<"41">>, <<"02">>}

KbTypes == KeyboardTypeOK /\ (kb.pc = "e1" => kb.discard > 0)

KeyboardInv == KbTypes /\ AnswerComes /\ Progress /\ Undisturbed /\ InitTellsTheTruth
=============================================================================
