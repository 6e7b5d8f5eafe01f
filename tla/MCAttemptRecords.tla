-------------------------- MODULE MCAttemptRecords ---------------------------
(* A small instance of AttemptRecords for TLC: long, short and unreported  *)
(* suspends, failed ones with and without a time, and every kind of reason *)
(* file, so that each value meets several of the other component's.        *)
EXTENDS AttemptRecords

irq == <<"irq">>
alarm == <<"alarm">>
blank == <<>>

File(lines) == [readable |-> TRUE, lines |-> lines, opens |-> TRUE]
Unreadable(opens) == [readable |-> FALSE, lines |-> <<>>, opens |-> opens]

(* The default of main.cpp, one whose halves are rounded to even, and the  *)
(* one of the unit tests.                                                  *)
MCScales ==
  {[num |-> 2, den |-> 1], [num |-> 3, den |-> 2], [num |-> 19, den |-> 10]}

MCReasonFiles ==
  {File(<<>>), File(<<irq>>), File(<<alarm>>), File(<<irq \o alarm>>),
   File(<<irq, alarm>>), File(<<blank, irq>>), File(<<blank>>),
   Unreadable(TRUE), Unreadable(FALSE)}

MCAttempts ==
  LET attempt(success, content, file) ==
        [success |-> success, content |-> content, file |-> file]
  IN  {attempt(TRUE, <<1, 6>>, File(<<irq>>)),
       attempt(TRUE, <<1, 5>>, File(<<alarm>>)),
       attempt(TRUE, <<1, 5>>, File(<<irq, alarm>>)),
       attempt(TRUE, <<1, 0>>, File(<<irq \o alarm>>)),
       attempt(TRUE, <<>>, File(<<blank, irq>>)),
       attempt(FALSE, <<1, 0>>, File(<<>>)),
       attempt(FALSE, <<1, 5>>, File(<<blank>>)),
       attempt(FALSE, <<>>, File(<<alarm>>)),
       attempt(FALSE, <<1, 6>>, Unreadable(TRUE)),
       attempt(TRUE, <<1, 5>>, Unreadable(FALSE))}
==============================================================================
