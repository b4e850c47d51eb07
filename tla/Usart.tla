-------------------------------- MODULE Usart --------------------------------
(***************************************************************************)
(* A USART (periph/Usart.cpp): bytes typed by the user wait in rx_ until    *)
(* the firmware, or the UI's memory view, reads DR.  The flags and their    *)
(* enables have the same bits in SR and CR1, so both are sets of names.     *)
(***************************************************************************)
EXTENDS Naturals, Sequences, MmioBus

CONSTANTS
    Chars,     \* values of a byte
    MaxBytes   \* bound: bytes that arrive from one reset to the next

VARIABLES
    usart,     \* rx: rx_; sr: flags that are set; cr1: enables; dr: dr_
    rxPend,    \* the interrupt's pending bit in the NVIC
    arrived,   \* history: bytes that arrived since the reset
    taken,     \* history: those that reads of DR have returned
    overruled, \* history: the handler was entered or the pending bit written
               \* since the last updateIrq
    cleared    \* history: the firmware has cleared RXNE since the last byte

usartVars == <<usart, rxPend, arrived, taken, overruled, cleared>>

Flags == {"RXNE", "TC", "TXE"}

\* RXNE and TC can be cleared by writing 0 (the mask 0x360).
WriteZero == {"RXNE", "TC"}

UsartTypeOK ==
    /\ usart \in [rx : Seq(Chars), sr : SUBSET Flags, cr1 : SUBSET Flags, dr : Chars \cup {0}]
    /\ rxPend \in BOOLEAN /\ overruled \in BOOLEAN /\ cleared \in BOOLEAN
    /\ arrived \in Seq(Chars) /\ Len(arrived) <= MaxBytes /\ taken \in Seq(Chars)

UsartReset == [rx |-> <<>>, sr |-> {"TC", "TXE"}, cr1 |-> {}, dr |-> 0]

UsartInit ==
    /\ usart = UsartReset /\ rxPend = FALSE
    /\ arrived = <<>> /\ taken = <<>> /\ overruled = FALSE /\ cleared = FALSE

-----------------------------------------------------------------------------

Requests(u) == u.sr \cap u.cr1 # {}

\* updateIrq, the last call of every access that changes something.
Updated(u) == usart' = u /\ rxPend' = Requests(u) /\ overruled' = FALSE

\* pushRx
Push(byte) ==
    /\ Len(arrived) < MaxBytes
    /\ Updated([usart EXCEPT !.rx = Append(@, byte), !.sr = @ \cup {"RXNE"}])
    /\ arrived' = Append(arrived, byte) /\ cleared' = FALSE
    /\ UNCHANGED taken

\* What a read of DR leaves.
Popped(u) ==
    LET rest == IF u.rx = <<>> THEN <<>> ELSE Tail(u.rx)
    IN [u EXCEPT !.rx = rest,
                 !.sr = IF rest = <<>> THEN @ \ {"RXNE"} ELSE @,
                 !.dr = IF u.rx = <<>> THEN @ ELSE Head(u.rx)]

\* A read of DR of any size, by the firmware or by the memory view.
ReadDr ==
    /\ Updated(Popped(usart))
    /\ taken' = IF usart.rx = <<>> THEN taken ELSE Append(taken, Head(usart.rx))
    /\ UNCHANGED <<arrived, cleared>>

\* Writing SR clears the WriteZero flags that it writes as 0; untouched bits
\* of a partial write are ones (partialWriteBase).
WriteSr(access) ==
    LET zeros == WriteZero \ Written(Flags, access)
    IN /\ Updated([usart EXCEPT !.sr = @ \ zeros])
       /\ cleared' = (cleared \/ "RXNE" \in zeros)
       /\ UNCHANGED <<arrived, taken>>

\* Mutant of DrBase: the rest of a partial write is read from DR.
DrBasePops(u) == Popped(u)

\* The partialWriteBase of DR, for the rest of a partial write, is dr_.
DrBase(u) == u

\* Writing DR sends at once.
WriteDr(byte) ==
    /\ Updated([DrBase(usart) EXCEPT !.dr = byte, !.sr = @ \cup {"TC", "TXE"}])
    /\ UNCHANGED <<arrived, taken, cleared>>

WriteCr1(access) ==
    /\ Updated([usart EXCEPT !.cr1 = Written(@, access)])
    /\ UNCHANGED <<arrived, taken, cleared>>

\* enterException
EnterUsart ==
    /\ rxPend
    /\ rxPend' = FALSE /\ overruled' = TRUE
    /\ UNCHANGED <<usart, arrived, taken, cleared>>

\* ISPR, ICPR.
WriteUsartPending(set) ==
    /\ rxPend' = set /\ overruled' = TRUE
    /\ UNCHANGED <<usart, arrived, taken, cleared>>

ResetUsart ==
    /\ usart' = UsartReset /\ rxPend' = FALSE
    /\ arrived' = <<>> /\ taken' = <<>> /\ overruled' = FALSE /\ cleared' = FALSE

UsartNext ==
    \/ \E byte \in Chars : Push(byte) \/ WriteDr(byte)
    \/ ReadDr
    \/ \E access \in Accesses(Flags, {}) : WriteSr(access) \/ WriteCr1(access)
    \/ EnterUsart
    \/ \E set \in BOOLEAN : WriteUsartPending(set)
    \/ ResetUsart

UsartSpec == UsartInit /\ [][UsartNext]_usartVars

-----------------------------------------------------------------------------
(* Properties *)

\* Every byte is read once and in order; RXNE says that there is one, unless
\* the firmware has cleared it; and the interrupt is pending while a flag
\* requests it, also when a handler reads one byte of several and returns.
Reception ==
    /\ taken \o usart.rx = arrived
    /\ "RXNE" \in usart.sr => usart.rx # <<>>
    /\ usart.rx # <<>> => "RXNE" \in usart.sr \/ cleared
    /\ overruled \/ (rxPend <=> Requests(usart))

=============================================================================
