---------------------------- MODULE MCDailySend ------------------------------
(***************************************************************************)
(* TLC instances of DailySend.  Two days of three or four instants: the    *)
(* first of a day is before 07:00, the rest are in the send window.        *)
(***************************************************************************)
EXTENDS DailySend

CONSTANTS DayLength, LastInstant, MessageCount

MCMessages == 1 .. MessageCount
MCInstants == 0 .. LastInstant
MCDays == 0 .. (LastInstant \div DayLength)
MCPacificDate == [t \in MCInstants |-> t \div DayLength]
MCSendWindow == {t \in MCInstants : t % DayLength # 0}
=============================================================================
