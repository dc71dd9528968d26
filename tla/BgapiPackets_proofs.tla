------------------------ MODULE BgapiPackets_proofs ------------------------
(***************************************************************************)
(* Theorems about the tables of the bindings and the path of a message     *)
(* through them, for any lengths of data, any headers and any buffer the   *)
(* assumption allows.  The tables have no parameter: what is proved of     *)
(* them is proved row by row.                                              *)
(***************************************************************************)
EXTENDS BgapiPackets, SequenceTheorems, TLAPS

Kinds == DOMAIN ParameterSize

\* The bytes the parameters fill, and the arguments they take: an array takes
\* its length and a pointer.  No message has more than eight.
Size(s, k) == IF k <= Len(s) THEN ParameterSize[s[k]] ELSE 0
Bytes(s) ==
  Size(s, 1) + Size(s, 2) + Size(s, 3) + Size(s, 4)
  + Size(s, 5) + Size(s, 6) + Size(s, 7) + Size(s, 8)
Taken(s, k) == IF k <= Len(s) THEN IF s[k] = Arr THEN 2 ELSE 1 ELSE 0
Arguments(s) ==
  Taken(s, 1) + Taken(s, 2) + Taken(s, 3) + Taken(s, 4)
  + Taken(s, 5) + Taken(s, 6) + Taken(s, 7) + Taken(s, 8)

ArrayLast(s) == \A k \in 1..Len(s) : s[k] = Arr => k = Len(s)

Measured(s, bytes, taken) ==
  /\ s \in Seq(Kinds) /\ Len(s) <= 8 /\ ArrayLast(s)
  /\ Bytes(s) = bytes /\ Arguments(s) = taken

\* A row of a command, the bytes of its structure and the arguments of its
\* macro count the same.
CommandFits(row, struct, taken) ==
  /\ Head(row) = struct /\ struct \in 0..15
  /\ Measured(Tail(row), struct, taken)

-----------------------------------------------------------------------------
(* Parameters.                                                             *)

\* The first parameter counts, and those after it (ble_send_message()).
LEMMA FirstAndRest ==
  ASSUME NEW s \in Seq(Kinds), s # <<>>, Len(s) <= 8, ArrayLast(s)
  PROVE  /\ Tail(s) \in Seq(Kinds) /\ Len(Tail(s)) <= 8 /\ ArrayLast(Tail(s))
         /\ Head(s) \in Kinds
         /\ Head(s) = Arr => Tail(s) = <<>>
         /\ Bytes(s) = ParameterSize[Head(s)] + Bytes(Tail(s))
         /\ Arguments(s) = (IF Head(s) = Arr THEN 2 ELSE 1) + Arguments(Tail(s))
<1> DEFINE t == Tail(s)
<1>1. /\ t \in Seq(Kinds) /\ Len(s) \in 1..8 /\ Len(t) = Len(s) - 1 /\ Head(s) = s[1]
      /\ s[1] \in Kinds
  <2>1. Len(s) \in Nat /\ Len(s) # 0
    BY LenProperties, EmptySeq
  <2>2. t \in Seq(Kinds) /\ Len(t) = Len(s) - 1 /\ Head(s) = s[1]
    BY HeadTailProperties
  <2>3. Len(s) \in 1..8
    <3> DEFINE n == Len(s)
    <3>1. n \in Nat /\ n # 0 /\ n <= 8
      BY <2>1
    <3> HIDE DEF n
    <3>2. n \in 1..8
      BY <3>1
    <3> QED BY <3>2 DEF n
  <2>4. s[1] \in Kinds
    BY <2>3, ElementOfSeq
  <2> QED BY <2>2, <2>3, <2>4
<1>2. \A k \in 1..Len(t) : t[k] = s[k + 1]
  BY HeadTailProperties
<1> HIDE DEF t
<1>3. ArrayLast(t)
  <2> SUFFICES ASSUME NEW k \in 1..Len(t), t[k] = Arr
               PROVE  k = Len(t)
    BY DEF ArrayLast
  <2>1. k + 1 \in 1..Len(s) /\ s[k + 1] = Arr
    BY <1>1, <1>2
  <2> QED BY <2>1, <1>1 DEF ArrayLast
<1>4. Head(s) = Arr => t = <<>>
  <2> SUFFICES ASSUME s[1] = Arr
               PROVE  t = <<>>
    BY <1>1
  <2>1. 1 \in 1..Len(s)
    BY <1>1
  <2>2. Len(s) = 1
    BY <2>1 DEF ArrayLast
  <2> QED BY <2>2, <1>1, EmptySeq
<1>5. \A k \in 1..8 : Size(t, k) = Size(s, k + 1) /\ Taken(t, k) = Taken(s, k + 1)
  BY <1>1, <1>2 DEF Size, Taken
<1>6. /\ Size(s, 1) = ParameterSize[Head(s)]
      /\ Taken(s, 1) = IF Head(s) = Arr THEN 2 ELSE 1
      /\ Size(s, 9) = 0 /\ Taken(s, 9) = 0
  BY <1>1 DEF Size, Taken
<1>7. \A k \in 1..9 : Size(s, k) \in 0..6 /\ Taken(s, k) \in 0..2
  <2>1. \A x \in Kinds : ParameterSize[x] \in 0..6
    BY DEF Kinds, ParameterSize
  <2>2. \A k \in 1..Len(s) : s[k] \in Kinds
    BY ElementOfSeq
  <2> QED BY <2>1, <2>2, <1>1 DEF Size, Taken
<1>8. Bytes(s) = ParameterSize[Head(s)] + Bytes(t)
  <2> DEFINE n1 == Size(s, 1)
             n2 == Size(s, 2)
             n3 == Size(s, 3)
             n4 == Size(s, 4)
             n5 == Size(s, 5)
             n6 == Size(s, 6)
             n7 == Size(s, 7)
             n8 == Size(s, 8)
  <2>1. Bytes(s) = n1 + n2 + n3 + n4 + n5 + n6 + n7 + n8
    BY DEF Bytes
  <2>2. Bytes(t) = n2 + n3 + n4 + n5 + n6 + n7 + n8 + 0
    BY <1>5, <1>6 DEF Bytes
  <2>3. /\ n1 \in Nat /\ n2 \in Nat /\ n3 \in Nat /\ n4 \in Nat
        /\ n5 \in Nat /\ n6 \in Nat /\ n7 \in Nat /\ n8 \in Nat
    BY <1>7
  <2>4. Bytes(s) = n1 + Bytes(t)
    <3> HIDE DEF n1, n2, n3, n4, n5, n6, n7, n8
    <3> QED BY <2>1, <2>2, <2>3
  <2> QED BY <2>4, <1>6
<1>9. Arguments(s) = (IF Head(s) = Arr THEN 2 ELSE 1) + Arguments(t)
  <2> DEFINE n1 == Taken(s, 1)
             n2 == Taken(s, 2)
             n3 == Taken(s, 3)
             n4 == Taken(s, 4)
             n5 == Taken(s, 5)
             n6 == Taken(s, 6)
             n7 == Taken(s, 7)
             n8 == Taken(s, 8)
  <2>1. Arguments(s) = n1 + n2 + n3 + n4 + n5 + n6 + n7 + n8
    BY DEF Arguments
  <2>2. Arguments(t) = n2 + n3 + n4 + n5 + n6 + n7 + n8 + 0
    BY <1>5, <1>6 DEF Arguments
  <2>3. /\ n1 \in Nat /\ n2 \in Nat /\ n3 \in Nat /\ n4 \in Nat
        /\ n5 \in Nat /\ n6 \in Nat /\ n7 \in Nat /\ n8 \in Nat
    BY <1>7
  <2>4. Arguments(s) = n1 + Arguments(t)
    <3> HIDE DEF n1, n2, n3, n4, n5, n6, n7, n8
    <3> QED BY <2>1, <2>2, <2>3
  <2> QED BY <2>4, <1>6
<1> QED BY <1>1, <1>3, <1>4, <1>8, <1>9 DEF t

\* Nothing is left of no parameters.
LEMMA NoParameters == Bytes(<<>>) = 0 /\ Arguments(<<>>) = 0
  BY DEF Bytes, Arguments, Size, Taken

-----------------------------------------------------------------------------
(* The rows of the commands, their macros and their structures.            *)

\* The lists of parameters that commands have.
LEMMA Shapes ==
  /\ Measured(<< >>, 0, 0)
  /\ Measured(<<Arr>>, 1, 2)
  /\ Measured(<<U16>>, 2, 1)
  /\ Measured(<<U32>>, 4, 1)
  /\ Measured(<<U8>>, 1, 1)
  /\ Measured(<<Addr, U8>>, 7, 2)
  /\ Measured(<<U16, Arr>>, 3, 3)
  /\ Measured(<<U16, U16>>, 4, 2)
  /\ Measured(<<U16, U8>>, 3, 2)
  /\ Measured(<<U32, Arr>>, 5, 3)
  /\ Measured(<<U32, U8>>, 5, 2)
  /\ Measured(<<U8, Arr>>, 2, 3)
  /\ Measured(<<U8, U16>>, 3, 2)
  /\ Measured(<<U8, U32>>, 5, 2)
  /\ Measured(<<U8, U8>>, 2, 2)
  /\ Measured(<<U16, U16, U8>>, 5, 3)
  /\ Measured(<<U16, U8, Arr>>, 4, 4)
  /\ Measured(<<U32, U8, U8>>, 6, 3)
  /\ Measured(<<U8, U16, Arr>>, 4, 4)
  /\ Measured(<<U8, U16, U16>>, 5, 3)
  /\ Measured(<<U8, U8, Arr>>, 3, 4)
  /\ Measured(<<U8, U8, U8>>, 3, 3)
  /\ Measured(<<U16, U16, U16, U16>>, 8, 4)
  /\ Measured(<<U8, U16, U16, Arr>>, 6, 5)
  /\ Measured(<<U8, U8, U8, U16>>, 5, 4)
  /\ Measured(<<U8, U16, U16, U16, Arr>>, 8, 6)
  /\ Measured(<<U8, U16, U16, U16, U16>>, 9, 5)
  /\ Measured(<<Addr, U8, U16, U16, U16, U16>>, 15, 6)
  /\ Measured(<<U8, U8, U8, U8, U8, U8>>, 6, 6)
<1> USE DEF Measured, ArrayLast, Kinds, Bytes, Size, Arguments, Taken, ParameterSize,
            U8, U16, U32, Arr, Addr
<1>1. Measured(<< >>, 0, 0)
  OBVIOUS
<1>2. Measured(<<Arr>>, 1, 2)
  OBVIOUS
<1>3. Measured(<<U16>>, 2, 1)
  OBVIOUS
<1>4. Measured(<<U32>>, 4, 1)
  OBVIOUS
<1>5. Measured(<<U8>>, 1, 1)
  OBVIOUS
<1>6. Measured(<<Addr, U8>>, 7, 2)
  OBVIOUS
<1>7. Measured(<<U16, Arr>>, 3, 3)
  OBVIOUS
<1>8. Measured(<<U16, U16>>, 4, 2)
  OBVIOUS
<1>9. Measured(<<U16, U8>>, 3, 2)
  OBVIOUS
<1>10. Measured(<<U32, Arr>>, 5, 3)
  OBVIOUS
<1>11. Measured(<<U32, U8>>, 5, 2)
  OBVIOUS
<1>12. Measured(<<U8, Arr>>, 2, 3)
  OBVIOUS
<1>13. Measured(<<U8, U16>>, 3, 2)
  OBVIOUS
<1>14. Measured(<<U8, U32>>, 5, 2)
  OBVIOUS
<1>15. Measured(<<U8, U8>>, 2, 2)
  OBVIOUS
<1>16. Measured(<<U16, U16, U8>>, 5, 3)
  OBVIOUS
<1>17. Measured(<<U16, U8, Arr>>, 4, 4)
  OBVIOUS
<1>18. Measured(<<U32, U8, U8>>, 6, 3)
  OBVIOUS
<1>19. Measured(<<U8, U16, Arr>>, 4, 4)
  OBVIOUS
<1>20. Measured(<<U8, U16, U16>>, 5, 3)
  OBVIOUS
<1>21. Measured(<<U8, U8, Arr>>, 3, 4)
  OBVIOUS
<1>22. Measured(<<U8, U8, U8>>, 3, 3)
  OBVIOUS
<1>23. Measured(<<U16, U16, U16, U16>>, 8, 4)
  OBVIOUS
<1>24. Measured(<<U8, U16, U16, Arr>>, 6, 5)
  OBVIOUS
<1>25. Measured(<<U8, U8, U8, U16>>, 5, 4)
  OBVIOUS
<1>26. Measured(<<U8, U16, U16, U16, Arr>>, 8, 6)
  OBVIOUS
<1>27. Measured(<<U8, U16, U16, U16, U16>>, 9, 5)
  OBVIOUS
<1>28. Measured(<<Addr, U8, U16, U16, U16, U16>>, 15, 6)
  OBVIOUS
<1>29. Measured(<<U8, U8, U8, U8, U8, U8>>, 6, 6)
  OBVIOUS
<1> HIDE DEF Measured
<1> QED
  BY <1>1, <1>2, <1>3, <1>4, <1>5, <1>6, <1>7, <1>8, <1>9, <1>10, <1>11, <1>12,
     <1>13, <1>14, <1>15, <1>16, <1>17, <1>18, <1>19, <1>20, <1>21, <1>22,
     <1>23, <1>24, <1>25, <1>26, <1>27, <1>28, <1>29

\* The rows that commands have.
LEMMA RowShapes ==
  /\ CommandFits(<<0>>, 0, 0)
  /\ CommandFits(<<1, Arr>>, 1, 2)
  /\ CommandFits(<<2, U16>>, 2, 1)
  /\ CommandFits(<<4, U32>>, 4, 1)
  /\ CommandFits(<<1, U8>>, 1, 1)
  /\ CommandFits(<<7, Addr, U8>>, 7, 2)
  /\ CommandFits(<<3, U16, Arr>>, 3, 3)
  /\ CommandFits(<<4, U16, U16>>, 4, 2)
  /\ CommandFits(<<3, U16, U8>>, 3, 2)
  /\ CommandFits(<<5, U32, Arr>>, 5, 3)
  /\ CommandFits(<<5, U32, U8>>, 5, 2)
  /\ CommandFits(<<2, U8, Arr>>, 2, 3)
  /\ CommandFits(<<3, U8, U16>>, 3, 2)
  /\ CommandFits(<<5, U8, U32>>, 5, 2)
  /\ CommandFits(<<2, U8, U8>>, 2, 2)
  /\ CommandFits(<<5, U16, U16, U8>>, 5, 3)
  /\ CommandFits(<<4, U16, U8, Arr>>, 4, 4)
  /\ CommandFits(<<6, U32, U8, U8>>, 6, 3)
  /\ CommandFits(<<4, U8, U16, Arr>>, 4, 4)
  /\ CommandFits(<<5, U8, U16, U16>>, 5, 3)
  /\ CommandFits(<<3, U8, U8, Arr>>, 3, 4)
  /\ CommandFits(<<3, U8, U8, U8>>, 3, 3)
  /\ CommandFits(<<8, U16, U16, U16, U16>>, 8, 4)
  /\ CommandFits(<<6, U8, U16, U16, Arr>>, 6, 5)
  /\ CommandFits(<<5, U8, U8, U8, U16>>, 5, 4)
  /\ CommandFits(<<8, U8, U16, U16, U16, Arr>>, 8, 6)
  /\ CommandFits(<<9, U8, U16, U16, U16, U16>>, 9, 5)
  /\ CommandFits(<<15, Addr, U8, U16, U16, U16, U16>>, 15, 6)
  /\ CommandFits(<<6, U8, U8, U8, U8, U8, U8>>, 6, 6)
  BY Shapes DEF CommandFits

\* The commands of the system class: row, structure and macro agree.
LEMMA SystemCommandsFit ==
  \A k \in 1..18 :
    CommandFits(SystemCommands[k], SystemStructs.cmd[k], MacroArgs[1][k])
<1>1. /\ CommandFits(<<0>>, 0, 0)
      /\ CommandFits(<<1, Arr>>, 1, 2)
      /\ CommandFits(<<1, U8>>, 1, 1)
      /\ CommandFits(<<2, U16>>, 2, 1)
      /\ CommandFits(<<2, U8, Arr>>, 2, 3)
      /\ CommandFits(<<2, U8, U8>>, 2, 2)
      /\ CommandFits(<<3, U16, U8>>, 3, 2)
      /\ CommandFits(<<5, U32, U8>>, 5, 2)
      /\ CommandFits(<<7, Addr, U8>>, 7, 2)
      /\ CommandFits(<<3, U8, U8, U8>>, 3, 3)
  BY RowShapes
<1> QED
  BY <1>1 DEF SystemCommands, SystemStructs, MacroArgs, MacroArgsSystemToSm,
              MacroArgsGapToDfu

\* The commands of the flash class: row, structure and macro agree.
LEMMA FlashCommandsFit ==
  \A k \in 1..9 :
    CommandFits(FlashCommands[k], FlashStructs.cmd[k], MacroArgs[2][k])
<1>1. /\ CommandFits(<<0>>, 0, 0)
      /\ CommandFits(<<1, U8>>, 1, 1)
      /\ CommandFits(<<2, U16>>, 2, 1)
      /\ CommandFits(<<3, U16, Arr>>, 3, 3)
      /\ CommandFits(<<5, U32, Arr>>, 5, 3)
      /\ CommandFits(<<5, U32, U8>>, 5, 2)
  BY RowShapes
<1> QED
  BY <1>1 DEF FlashCommands, FlashStructs, MacroArgs, MacroArgsSystemToSm,
              MacroArgsGapToDfu

\* The commands of the attribute class: row, structure and macro agree.
LEMMA AttributesCommandsFit ==
  \A k \in 1..6 :
    CommandFits(AttributesCommands[k], AttributesStructs.cmd[k], MacroArgs[3][k])
<1>1. /\ CommandFits(<<2, U16>>, 2, 1)
      /\ CommandFits(<<2, U8, U8>>, 2, 2)
      /\ CommandFits(<<4, U16, U16>>, 4, 2)
      /\ CommandFits(<<3, U8, U8, Arr>>, 3, 4)
      /\ CommandFits(<<4, U16, U8, Arr>>, 4, 4)
      /\ CommandFits(<<4, U8, U16, Arr>>, 4, 4)
  BY RowShapes
<1> QED
  BY <1>1 DEF AttributesCommands, AttributesStructs, MacroArgs, MacroArgsSystemToSm,
              MacroArgsGapToDfu

\* The commands of the connection class: row, structure and macro agree.
LEMMA ConnectionCommandsFit ==
  \A k \in 1..9 :
    CommandFits(ConnectionCommands[k], ConnectionStructs.cmd[k], MacroArgs[4][k])
<1>1. /\ CommandFits(<<1, U8>>, 1, 1)
      /\ CommandFits(<<2, U8, Arr>>, 2, 3)
      /\ CommandFits(<<9, U8, U16, U16, U16, U16>>, 9, 5)
  BY RowShapes
<1> QED
  BY <1>1 DEF ConnectionCommands, ConnectionStructs, MacroArgs, MacroArgsSystemToSm,
              MacroArgsGapToDfu

\* The commands of the attribute client class: row, structure and macro agree.
LEMMA AttclientCommandsFit ==
  \A k \in 1..12 :
    CommandFits(AttclientCommands[k], AttclientStructs.cmd[k], MacroArgs[5][k])
<1>1. /\ CommandFits(<<1, U8>>, 1, 1)
      /\ CommandFits(<<2, U8, Arr>>, 2, 3)
      /\ CommandFits(<<2, U8, U8>>, 2, 2)
      /\ CommandFits(<<3, U8, U16>>, 3, 2)
      /\ CommandFits(<<4, U8, U16, Arr>>, 4, 4)
      /\ CommandFits(<<5, U8, U16, U16>>, 5, 3)
      /\ CommandFits(<<6, U8, U16, U16, Arr>>, 6, 5)
      /\ CommandFits(<<8, U8, U16, U16, U16, Arr>>, 8, 6)
  BY RowShapes
<1> QED
  BY <1>1 DEF AttclientCommands, AttclientStructs, MacroArgs, MacroArgsSystemToSm,
              MacroArgsGapToDfu

\* The commands of the security manager class: row, structure and macro agree.
LEMMA SmCommandsFit ==
  \A k \in 1..8 :
    CommandFits(SmCommands[k], SmStructs.cmd[k], MacroArgs[6][k])
<1>1. /\ CommandFits(<<0>>, 0, 0)
      /\ CommandFits(<<1, Arr>>, 1, 2)
      /\ CommandFits(<<1, U8>>, 1, 1)
      /\ CommandFits(<<2, U8, U8>>, 2, 2)
      /\ CommandFits(<<5, U8, U32>>, 5, 2)
      /\ CommandFits(<<3, U8, U8, U8>>, 3, 3)
  BY RowShapes
<1> QED
  BY <1>1 DEF SmCommands, SmStructs, MacroArgs, MacroArgsSystemToSm,
              MacroArgsGapToDfu

\* The commands of the GAP class: row, structure and macro agree.
LEMMA GapCommandsFit ==
  \A k \in 1..11 :
    CommandFits(GapCommands[k], GapStructs.cmd[k], MacroArgs[7][k])
<1>1. /\ CommandFits(<<0>>, 0, 0)
      /\ CommandFits(<<1, U8>>, 1, 1)
      /\ CommandFits(<<2, U8, Arr>>, 2, 3)
      /\ CommandFits(<<2, U8, U8>>, 2, 2)
      /\ CommandFits(<<7, Addr, U8>>, 7, 2)
      /\ CommandFits(<<3, U8, U8, U8>>, 3, 3)
      /\ CommandFits(<<5, U16, U16, U8>>, 5, 3)
      /\ CommandFits(<<8, U16, U16, U16, U16>>, 8, 4)
      /\ CommandFits(<<15, Addr, U8, U16, U16, U16, U16>>, 15, 6)
  BY RowShapes
<1> QED
  BY <1>1 DEF GapCommands, GapStructs, MacroArgs, MacroArgsSystemToSm,
              MacroArgsGapToDfu

\* The commands of the hardware class: row, structure and macro agree.
LEMMA HardwareCommandsFit ==
  \A k \in 1..21 :
    CommandFits(HardwareCommands[k], HardwareStructs.cmd[k], MacroArgs[8][k])
<1>1. /\ CommandFits(<<0>>, 0, 0)
      /\ CommandFits(<<1, U8>>, 1, 1)
      /\ CommandFits(<<2, U8, Arr>>, 2, 3)
      /\ CommandFits(<<2, U8, U8>>, 2, 2)
      /\ CommandFits(<<3, U8, U8, Arr>>, 3, 4)
      /\ CommandFits(<<3, U8, U8, U8>>, 3, 3)
      /\ CommandFits(<<6, U32, U8, U8>>, 6, 3)
      /\ CommandFits(<<5, U8, U8, U8, U16>>, 5, 4)
      /\ CommandFits(<<6, U8, U8, U8, U8, U8, U8>>, 6, 6)
  BY RowShapes
<1>2. MacroArgs[8] = MacroArgsGapToDfu[2]
  BY DEF MacroArgs, MacroArgsSystemToSm, MacroArgsGapToDfu
<1>3. /\ CommandFits(HardwareCommands[1], HardwareStructs.cmd[1], MacroArgs[8][1])
      /\ CommandFits(HardwareCommands[2], HardwareStructs.cmd[2], MacroArgs[8][2])
      /\ CommandFits(HardwareCommands[3], HardwareStructs.cmd[3], MacroArgs[8][3])
      /\ CommandFits(HardwareCommands[4], HardwareStructs.cmd[4], MacroArgs[8][4])
      /\ CommandFits(HardwareCommands[5], HardwareStructs.cmd[5], MacroArgs[8][5])
      /\ CommandFits(HardwareCommands[6], HardwareStructs.cmd[6], MacroArgs[8][6])
      /\ CommandFits(HardwareCommands[7], HardwareStructs.cmd[7], MacroArgs[8][7])
  BY <1>1, <1>2 DEF HardwareCommands, HardwareStructs, MacroArgsGapToDfu
<1>4. /\ CommandFits(HardwareCommands[8], HardwareStructs.cmd[8], MacroArgs[8][8])
      /\ CommandFits(HardwareCommands[9], HardwareStructs.cmd[9], MacroArgs[8][9])
      /\ CommandFits(HardwareCommands[10], HardwareStructs.cmd[10], MacroArgs[8][10])
      /\ CommandFits(HardwareCommands[11], HardwareStructs.cmd[11], MacroArgs[8][11])
      /\ CommandFits(HardwareCommands[12], HardwareStructs.cmd[12], MacroArgs[8][12])
      /\ CommandFits(HardwareCommands[13], HardwareStructs.cmd[13], MacroArgs[8][13])
      /\ CommandFits(HardwareCommands[14], HardwareStructs.cmd[14], MacroArgs[8][14])
  BY <1>1, <1>2 DEF HardwareCommands, HardwareStructs, MacroArgsGapToDfu
<1>5. /\ CommandFits(HardwareCommands[15], HardwareStructs.cmd[15], MacroArgs[8][15])
      /\ CommandFits(HardwareCommands[16], HardwareStructs.cmd[16], MacroArgs[8][16])
      /\ CommandFits(HardwareCommands[17], HardwareStructs.cmd[17], MacroArgs[8][17])
      /\ CommandFits(HardwareCommands[18], HardwareStructs.cmd[18], MacroArgs[8][18])
      /\ CommandFits(HardwareCommands[19], HardwareStructs.cmd[19], MacroArgs[8][19])
      /\ CommandFits(HardwareCommands[20], HardwareStructs.cmd[20], MacroArgs[8][20])
      /\ CommandFits(HardwareCommands[21], HardwareStructs.cmd[21], MacroArgs[8][21])
  BY <1>1, <1>2 DEF HardwareCommands, HardwareStructs, MacroArgsGapToDfu
<1> QED
  BY <1>3, <1>4, <1>5

\* The commands of the test class: row, structure and macro agree.
LEMMA TestCommandsFit ==
  \A k \in 1..7 :
    CommandFits(TestCommands[k], TestStructs.cmd[k], MacroArgs[9][k])
<1>1. /\ CommandFits(<<0>>, 0, 0)
      /\ CommandFits(<<1, Arr>>, 1, 2)
      /\ CommandFits(<<1, U8>>, 1, 1)
      /\ CommandFits(<<3, U8, U8, U8>>, 3, 3)
  BY RowShapes
<1> QED
  BY <1>1 DEF TestCommands, TestStructs, MacroArgs, MacroArgsSystemToSm,
              MacroArgsGapToDfu

\* The commands of the DFU class: row, structure and macro agree.
LEMMA DfuCommandsFit ==
  \A k \in 1..4 :
    CommandFits(DfuCommands[k], DfuStructs.cmd[k], MacroArgs[10][k])
<1>1. /\ CommandFits(<<0>>, 0, 0)
      /\ CommandFits(<<1, Arr>>, 1, 2)
      /\ CommandFits(<<1, U8>>, 1, 1)
      /\ CommandFits(<<4, U32>>, 4, 1)
  BY RowShapes
<1> QED
  BY <1>1 DEF DfuCommands, DfuStructs, MacroArgs, MacroArgsSystemToSm,
              MacroArgsGapToDfu

\* Every command's macro, row and structure agree.
LEMMA CommandsFit ==
  \A c \in 0..9 : \A k \in 1..Len(Commands[c + 1]) :
    CommandFits(Commands[c + 1][k], Structs[c + 1].cmd[k], MacroArgs[c + 1][k])
<1> DEFINE Sound(d) ==
      \A k \in 1..Len(Commands[d]) : CommandFits(Commands[d][k], Structs[d].cmd[k], MacroArgs[d][k])
<1>1. Sound(1)
  <2>1. /\ Commands[1] = SystemCommands /\ Structs[1] = SystemStructs
        /\ Len(SystemCommands) = 18
    BY DEF Commands, Structs, SystemCommands
  <2> QED BY <2>1, SystemCommandsFit
<1>2. Sound(2)
  <2>1. /\ Commands[2] = FlashCommands /\ Structs[2] = FlashStructs
        /\ Len(FlashCommands) = 9
    BY DEF Commands, Structs, FlashCommands
  <2> QED BY <2>1, FlashCommandsFit
<1>3. Sound(3)
  <2>1. /\ Commands[3] = AttributesCommands /\ Structs[3] = AttributesStructs
        /\ Len(AttributesCommands) = 6
    BY DEF Commands, Structs, AttributesCommands
  <2> QED BY <2>1, AttributesCommandsFit
<1>4. Sound(4)
  <2>1. /\ Commands[4] = ConnectionCommands /\ Structs[4] = ConnectionStructs
        /\ Len(ConnectionCommands) = 9
    BY DEF Commands, Structs, ConnectionCommands
  <2> QED BY <2>1, ConnectionCommandsFit
<1>5. Sound(5)
  <2>1. /\ Commands[5] = AttclientCommands /\ Structs[5] = AttclientStructs
        /\ Len(AttclientCommands) = 12
    BY DEF Commands, Structs, AttclientCommands
  <2> QED BY <2>1, AttclientCommandsFit
<1>6. Sound(6)
  <2>1. /\ Commands[6] = SmCommands /\ Structs[6] = SmStructs
        /\ Len(SmCommands) = 8
    BY DEF Commands, Structs, SmCommands
  <2> QED BY <2>1, SmCommandsFit
<1>7. Sound(7)
  <2>1. /\ Commands[7] = GapCommands /\ Structs[7] = GapStructs
        /\ Len(GapCommands) = 11
    BY DEF Commands, Structs, GapCommands
  <2> QED BY <2>1, GapCommandsFit
<1>8. Sound(8)
  <2>1. /\ Commands[8] = HardwareCommands /\ Structs[8] = HardwareStructs
        /\ Len(HardwareCommands) = 21
    BY DEF Commands, Structs, HardwareCommands
  <2> QED BY <2>1, HardwareCommandsFit
<1>9. Sound(9)
  <2>1. /\ Commands[9] = TestCommands /\ Structs[9] = TestStructs
        /\ Len(TestCommands) = 7
    BY DEF Commands, Structs, TestCommands
  <2> QED BY <2>1, TestCommandsFit
<1>10. Sound(10)
  <2>1. /\ Commands[10] = DfuCommands /\ Structs[10] = DfuStructs
        /\ Len(DfuCommands) = 4
    BY DEF Commands, Structs, DfuCommands
  <2> QED BY <2>1, DfuCommandsFit
<1> HIDE DEF Sound
<1>11. \A d \in 1..10 : Sound(d)
  BY <1>1, <1>2, <1>3, <1>4, <1>5, <1>6, <1>7, <1>8, <1>9, <1>10
<1> SUFFICES ASSUME NEW c \in 0..9
             PROVE  Sound(c + 1)
  BY DEF Sound
<1>12. c + 1 \in 1..10
  OBVIOUS
<1> QED BY <1>11, <1>12

-----------------------------------------------------------------------------
(* The rows of responses and events, and their handlers.                   *)

\* The structure a response is cast to has the bytes of its row, and it has
\* one handler, in main.c or empty.
LEMMA ResponsesFit ==
  \A c \in 0..9 : \A k \in 1..Len(Responses[c + 1]) :
    /\ Head(Responses[c + 1][k]) = Structs[c + 1].rsp[k]
    /\ Structs[c + 1].rsp[k] \in 0..16
    /\ Handled(Rsp(c, k - 1)) <=> ~Stub(Rsp(c, k - 1))
<1> DEFINE Sound(d) ==
      \A k \in 1..Len(Responses[d]) :
        /\ Head(Responses[d][k]) = Structs[d].rsp[k]
        /\ Structs[d].rsp[k] \in 0..16
        /\ Handled(Rsp(d - 1, k - 1)) <=> ~Stub(Rsp(d - 1, k - 1))
<1>1. Sound(1)
  <2>1. /\ Responses[1] = SystemResponses /\ Structs[1] = SystemStructs
        /\ Len(SystemResponses) = 18
    BY DEF Responses, Structs, SystemResponses
  <2>2. \A k \in 1..18 : Head(SystemResponses[k]) = SystemStructs.rsp[k]
    BY DEF SystemResponses, SystemStructs
  <2>3. \A k \in 1..18 : SystemStructs.rsp[k] \in 0..16
    BY DEF SystemStructs
  <2>4. \A k \in 1..18 : Handled(Rsp(0, k - 1)) <=> ~Stub(Rsp(0, k - 1))
    BY DEF Handled, Stub, Rsp, RspStubs, RspStubsSystemToAttributes,
           RspStubsConnectionToSm, RspStubsGapToDfu
  <2> QED BY <2>1, <2>2, <2>3, <2>4
<1>2. Sound(2)
  <2>1. /\ Responses[2] = FlashResponses /\ Structs[2] = FlashStructs
        /\ Len(FlashResponses) = 9
    BY DEF Responses, Structs, FlashResponses
  <2>2. \A k \in 1..9 : Head(FlashResponses[k]) = FlashStructs.rsp[k]
    BY DEF FlashResponses, FlashStructs
  <2>3. \A k \in 1..9 : FlashStructs.rsp[k] \in 0..16
    BY DEF FlashStructs
  <2>4. \A k \in 1..9 : Handled(Rsp(1, k - 1)) <=> ~Stub(Rsp(1, k - 1))
    BY DEF Handled, Stub, Rsp, RspStubs, RspStubsSystemToAttributes,
           RspStubsConnectionToSm, RspStubsGapToDfu
  <2> QED BY <2>1, <2>2, <2>3, <2>4
<1>3. Sound(3)
  <2>1. /\ Responses[3] = AttributesResponses /\ Structs[3] = AttributesStructs
        /\ Len(AttributesResponses) = 6
    BY DEF Responses, Structs, AttributesResponses
  <2>2. \A k \in 1..6 : Head(AttributesResponses[k]) = AttributesStructs.rsp[k]
    BY DEF AttributesResponses, AttributesStructs
  <2>3. \A k \in 1..6 : AttributesStructs.rsp[k] \in 0..16
    BY DEF AttributesStructs
  <2>4. \A k \in 1..6 : Handled(Rsp(2, k - 1)) <=> ~Stub(Rsp(2, k - 1))
    BY DEF Handled, Stub, Rsp, RspStubs, RspStubsSystemToAttributes,
           RspStubsConnectionToSm, RspStubsGapToDfu
  <2> QED BY <2>1, <2>2, <2>3, <2>4
<1>4. Sound(4)
  <2>1. /\ Responses[4] = ConnectionResponses /\ Structs[4] = ConnectionStructs
        /\ Len(ConnectionResponses) = 9
    BY DEF Responses, Structs, ConnectionResponses
  <2>2. \A k \in 1..9 : Head(ConnectionResponses[k]) = ConnectionStructs.rsp[k]
    BY DEF ConnectionResponses, ConnectionStructs
  <2>3. \A k \in 1..9 : ConnectionStructs.rsp[k] \in 0..16
    BY DEF ConnectionStructs
  <2>4. \A k \in 1..9 : Handled(Rsp(3, k - 1)) <=> ~Stub(Rsp(3, k - 1))
    BY DEF Handled, Stub, Rsp, RspStubs, RspStubsSystemToAttributes,
           RspStubsConnectionToSm, RspStubsGapToDfu
  <2> QED BY <2>1, <2>2, <2>3, <2>4
<1>5. Sound(5)
  <2>1. /\ Responses[5] = AttclientResponses /\ Structs[5] = AttclientStructs
        /\ Len(AttclientResponses) = 12
    BY DEF Responses, Structs, AttclientResponses
  <2>2. \A k \in 1..12 : Head(AttclientResponses[k]) = AttclientStructs.rsp[k]
    BY DEF AttclientResponses, AttclientStructs
  <2>3. \A k \in 1..12 : AttclientStructs.rsp[k] \in 0..16
    BY DEF AttclientStructs
  <2>4. \A k \in 1..12 : Handled(Rsp(4, k - 1)) <=> ~Stub(Rsp(4, k - 1))
    BY DEF Handled, Stub, Rsp, RspStubs, RspStubsSystemToAttributes,
           RspStubsConnectionToSm, RspStubsGapToDfu
  <2> QED BY <2>1, <2>2, <2>3, <2>4
<1>6. Sound(6)
  <2>1. /\ Responses[6] = SmResponses /\ Structs[6] = SmStructs
        /\ Len(SmResponses) = 8
    BY DEF Responses, Structs, SmResponses
  <2>2. \A k \in 1..8 : Head(SmResponses[k]) = SmStructs.rsp[k]
    BY DEF SmResponses, SmStructs
  <2>3. \A k \in 1..8 : SmStructs.rsp[k] \in 0..16
    BY DEF SmStructs
  <2>4. \A k \in 1..8 : Handled(Rsp(5, k - 1)) <=> ~Stub(Rsp(5, k - 1))
    BY DEF Handled, Stub, Rsp, RspStubs, RspStubsSystemToAttributes,
           RspStubsConnectionToSm, RspStubsGapToDfu
  <2> QED BY <2>1, <2>2, <2>3, <2>4
<1>7. Sound(7)
  <2>1. /\ Responses[7] = GapResponses /\ Structs[7] = GapStructs
        /\ Len(GapResponses) = 11
    BY DEF Responses, Structs, GapResponses
  <2>2. \A k \in 1..11 : Head(GapResponses[k]) = GapStructs.rsp[k]
    BY DEF GapResponses, GapStructs
  <2>3. \A k \in 1..11 : GapStructs.rsp[k] \in 0..16
    BY DEF GapStructs
  <2>4. \A k \in 1..11 : Handled(Rsp(6, k - 1)) <=> ~Stub(Rsp(6, k - 1))
    BY DEF Handled, Stub, Rsp, RspStubs, RspStubsSystemToAttributes,
           RspStubsConnectionToSm, RspStubsGapToDfu
  <2> QED BY <2>1, <2>2, <2>3, <2>4
<1>8. Sound(8)
  <2>1. /\ Responses[8] = HardwareResponses /\ Structs[8] = HardwareStructs
        /\ Len(HardwareResponses) = 21
    BY DEF Responses, Structs, HardwareResponses
  <2>2. \A k \in 1..21 : Head(HardwareResponses[k]) = HardwareStructs.rsp[k]
    BY DEF HardwareResponses, HardwareStructs
  <2>3. \A k \in 1..21 : HardwareStructs.rsp[k] \in 0..16
    BY DEF HardwareStructs
  <2>4. \A k \in 1..21 : Handled(Rsp(7, k - 1)) <=> ~Stub(Rsp(7, k - 1))
    BY DEF Handled, Stub, Rsp, RspStubs, RspStubsSystemToAttributes,
           RspStubsConnectionToSm, RspStubsGapToDfu
  <2> QED BY <2>1, <2>2, <2>3, <2>4
<1>9. Sound(9)
  <2>1. /\ Responses[9] = TestResponses /\ Structs[9] = TestStructs
        /\ Len(TestResponses) = 7
    BY DEF Responses, Structs, TestResponses
  <2>2. \A k \in 1..7 : Head(TestResponses[k]) = TestStructs.rsp[k]
    BY DEF TestResponses, TestStructs
  <2>3. \A k \in 1..7 : TestStructs.rsp[k] \in 0..16
    BY DEF TestStructs
  <2>4. \A k \in 1..7 : Handled(Rsp(8, k - 1)) <=> ~Stub(Rsp(8, k - 1))
    BY DEF Handled, Stub, Rsp, RspStubs, RspStubsSystemToAttributes,
           RspStubsConnectionToSm, RspStubsGapToDfu
  <2> QED BY <2>1, <2>2, <2>3, <2>4
<1>10. Sound(10)
  <2>1. /\ Responses[10] = DfuResponses /\ Structs[10] = DfuStructs
        /\ Len(DfuResponses) = 4
    BY DEF Responses, Structs, DfuResponses
  <2>2. \A k \in 1..4 : Head(DfuResponses[k]) = DfuStructs.rsp[k]
    BY DEF DfuResponses, DfuStructs
  <2>3. \A k \in 1..4 : DfuStructs.rsp[k] \in 0..16
    BY DEF DfuStructs
  <2>4. \A k \in 1..4 : Handled(Rsp(9, k - 1)) <=> ~Stub(Rsp(9, k - 1))
    BY DEF Handled, Stub, Rsp, RspStubs, RspStubsSystemToAttributes,
           RspStubsConnectionToSm, RspStubsGapToDfu
  <2> QED BY <2>1, <2>2, <2>3, <2>4
<1> HIDE DEF Sound
<1>11. \A d \in 1..10 : Sound(d)
  BY <1>1, <1>2, <1>3, <1>4, <1>5, <1>6, <1>7, <1>8, <1>9, <1>10
<1> SUFFICES ASSUME NEW c \in 0..9
             PROVE  Sound(c + 1)
  <2> SUFFICES ASSUME NEW c \in 0..9, NEW k \in 1..Len(Responses[c + 1])
               PROVE  /\ Head(Responses[c + 1][k]) = Structs[c + 1].rsp[k]
                      /\ Structs[c + 1].rsp[k] \in 0..16
                      /\ Handled(Rsp(c, k - 1)) <=> ~Stub(Rsp(c, k - 1))
    OBVIOUS
  <2>1. (c + 1) - 1 = c
    OBVIOUS
  <2> QED BY <2>1 DEF Sound
<1>12. c + 1 \in 1..10
  OBVIOUS
<1> QED BY <1>11, <1>12

\* The structure an event is cast to has the bytes of its row, and it has
\* one handler, in main.c or empty.
LEMMA EventsFit ==
  \A c \in 0..9 : \A k \in 1..Len(Events[c + 1]) :
    /\ Head(Events[c + 1][k]) = Structs[c + 1].evt[k]
    /\ Structs[c + 1].evt[k] \in 0..16
    /\ Handled(Evt(c, k - 1)) <=> ~Stub(Evt(c, k - 1))
<1> DEFINE Sound(d) ==
      \A k \in 1..Len(Events[d]) :
        /\ Head(Events[d][k]) = Structs[d].evt[k]
        /\ Structs[d].evt[k] \in 0..16
        /\ Handled(Evt(d - 1, k - 1)) <=> ~Stub(Evt(d - 1, k - 1))
<1>1. Sound(1)
  <2>1. /\ Events[1] = SystemEvents /\ Structs[1] = SystemStructs
        /\ Len(SystemEvents) = 7
    BY DEF Events, Structs, SystemEvents
  <2>2. \A k \in 1..7 : Head(SystemEvents[k]) = SystemStructs.evt[k]
    BY DEF SystemEvents, SystemStructs
  <2>3. \A k \in 1..7 : SystemStructs.evt[k] \in 0..16
    BY DEF SystemStructs
  <2>4. \A k \in 1..7 : Handled(Evt(0, k - 1)) <=> ~Stub(Evt(0, k - 1))
    BY DEF Handled, Stub, Evt, EvtStubs
  <2> QED BY <2>1, <2>2, <2>3, <2>4
<1>2. Sound(2)
  <2>1. /\ Events[2] = FlashEvents /\ Structs[2] = FlashStructs
        /\ Len(FlashEvents) = 1
    BY DEF Events, Structs, FlashEvents
  <2>2. \A k \in 1..1 : Head(FlashEvents[k]) = FlashStructs.evt[k]
    BY DEF FlashEvents, FlashStructs
  <2>3. \A k \in 1..1 : FlashStructs.evt[k] \in 0..16
    BY DEF FlashStructs
  <2>4. \A k \in 1..1 : Handled(Evt(1, k - 1)) <=> ~Stub(Evt(1, k - 1))
    BY DEF Handled, Stub, Evt, EvtStubs
  <2> QED BY <2>1, <2>2, <2>3, <2>4
<1>3. Sound(3)
  <2>1. /\ Events[3] = AttributesEvents /\ Structs[3] = AttributesStructs
        /\ Len(AttributesEvents) = 3
    BY DEF Events, Structs, AttributesEvents
  <2>2. \A k \in 1..3 : Head(AttributesEvents[k]) = AttributesStructs.evt[k]
    BY DEF AttributesEvents, AttributesStructs
  <2>3. \A k \in 1..3 : AttributesStructs.evt[k] \in 0..16
    BY DEF AttributesStructs
  <2>4. \A k \in 1..3 : Handled(Evt(2, k - 1)) <=> ~Stub(Evt(2, k - 1))
    BY DEF Handled, Stub, Evt, EvtStubs
  <2> QED BY <2>1, <2>2, <2>3, <2>4
<1>4. Sound(4)
  <2>1. /\ Events[4] = ConnectionEvents /\ Structs[4] = ConnectionStructs
        /\ Len(ConnectionEvents) = 5
    BY DEF Events, Structs, ConnectionEvents
  <2>2. \A k \in 1..5 : Head(ConnectionEvents[k]) = ConnectionStructs.evt[k]
    BY DEF ConnectionEvents, ConnectionStructs
  <2>3. \A k \in 1..5 : ConnectionStructs.evt[k] \in 0..16
    BY DEF ConnectionStructs
  <2>4. \A k \in 1..5 : Handled(Evt(3, k - 1)) <=> ~Stub(Evt(3, k - 1))
    BY DEF Handled, Stub, Evt, EvtStubs
  <2> QED BY <2>1, <2>2, <2>3, <2>4
<1>5. Sound(5)
  <2>1. /\ Events[5] = AttclientEvents /\ Structs[5] = AttclientStructs
        /\ Len(AttclientEvents) = 7
    BY DEF Events, Structs, AttclientEvents
  <2>2. \A k \in 1..7 : Head(AttclientEvents[k]) = AttclientStructs.evt[k]
    BY DEF AttclientEvents, AttclientStructs
  <2>3. \A k \in 1..7 : AttclientStructs.evt[k] \in 0..16
    BY DEF AttclientStructs
  <2>4. \A k \in 1..7 : Handled(Evt(4, k - 1)) <=> ~Stub(Evt(4, k - 1))
    BY DEF Handled, Stub, Evt, EvtStubs
  <2> QED BY <2>1, <2>2, <2>3, <2>4
<1>6. Sound(6)
  <2>1. /\ Events[6] = SmEvents /\ Structs[6] = SmStructs
        /\ Len(SmEvents) = 5
    BY DEF Events, Structs, SmEvents
  <2>2. \A k \in 1..5 : Head(SmEvents[k]) = SmStructs.evt[k]
    BY DEF SmEvents, SmStructs
  <2>3. \A k \in 1..5 : SmStructs.evt[k] \in 0..16
    BY DEF SmStructs
  <2>4. \A k \in 1..5 : Handled(Evt(5, k - 1)) <=> ~Stub(Evt(5, k - 1))
    BY DEF Handled, Stub, Evt, EvtStubs
  <2> QED BY <2>1, <2>2, <2>3, <2>4
<1>7. Sound(7)
  <2>1. /\ Events[7] = GapEvents /\ Structs[7] = GapStructs
        /\ Len(GapEvents) = 2
    BY DEF Events, Structs, GapEvents
  <2>2. \A k \in 1..2 : Head(GapEvents[k]) = GapStructs.evt[k]
    BY DEF GapEvents, GapStructs
  <2>3. \A k \in 1..2 : GapStructs.evt[k] \in 0..16
    BY DEF GapStructs
  <2>4. \A k \in 1..2 : Handled(Evt(6, k - 1)) <=> ~Stub(Evt(6, k - 1))
    BY DEF Handled, Stub, Evt, EvtStubs
  <2> QED BY <2>1, <2>2, <2>3, <2>4
<1>8. Sound(8)
  <2>1. /\ Events[8] = HardwareEvents /\ Structs[8] = HardwareStructs
        /\ Len(HardwareEvents) = 4
    BY DEF Events, Structs, HardwareEvents
  <2>2. \A k \in 1..4 : Head(HardwareEvents[k]) = HardwareStructs.evt[k]
    BY DEF HardwareEvents, HardwareStructs
  <2>3. \A k \in 1..4 : HardwareStructs.evt[k] \in 0..16
    BY DEF HardwareStructs
  <2>4. \A k \in 1..4 : Handled(Evt(7, k - 1)) <=> ~Stub(Evt(7, k - 1))
    BY DEF Handled, Stub, Evt, EvtStubs
  <2> QED BY <2>1, <2>2, <2>3, <2>4
<1>9. Sound(9)
  <2>1. Len(Events[9]) = 0
    BY DEF Events
  <2> QED BY <2>1
<1>10. Sound(10)
  <2>1. /\ Events[10] = DfuEvents /\ Structs[10] = DfuStructs
        /\ Len(DfuEvents) = 1
    BY DEF Events, Structs, DfuEvents
  <2>2. \A k \in 1..1 : Head(DfuEvents[k]) = DfuStructs.evt[k]
    BY DEF DfuEvents, DfuStructs
  <2>3. \A k \in 1..1 : DfuStructs.evt[k] \in 0..16
    BY DEF DfuStructs
  <2>4. \A k \in 1..1 : Handled(Evt(9, k - 1)) <=> ~Stub(Evt(9, k - 1))
    BY DEF Handled, Stub, Evt, EvtStubs
  <2> QED BY <2>1, <2>2, <2>3, <2>4
<1> HIDE DEF Sound
<1>11. \A d \in 1..10 : Sound(d)
  BY <1>1, <1>2, <1>3, <1>4, <1>5, <1>6, <1>7, <1>8, <1>9, <1>10
<1> SUFFICES ASSUME NEW c \in 0..9
             PROVE  Sound(c + 1)
  <2> SUFFICES ASSUME NEW c \in 0..9, NEW k \in 1..Len(Events[c + 1])
               PROVE  /\ Head(Events[c + 1][k]) = Structs[c + 1].evt[k]
                      /\ Structs[c + 1].evt[k] \in 0..16
                      /\ Handled(Evt(c, k - 1)) <=> ~Stub(Evt(c, k - 1))
    OBVIOUS
  <2>1. (c + 1) - 1 = c
    OBVIOUS
  <2> QED BY <2>1 DEF Sound
<1>12. c + 1 \in 1..10
  OBVIOUS
<1> QED BY <1>11, <1>12

-----------------------------------------------------------------------------
(* apis, row by row.                                                       *)

Types == {"cmd", "rsp", "evt"}
TableOf(x) == IF x = "cmd" THEN Commands ELSE IF x = "rsp" THEN Responses ELSE Events
Row(x, c, k) == ClassRows(x, c, TableOf(x)[c + 1])[k]
AnyRow == {Row(x, c, k) : x \in Types, c \in 0..9, k \in Nat}
Count(x, c) == Len(TableOf(x)[c + 1])

\* How many rows the classes before n have.
Before(x, n) ==
  LET part(c) == IF c < n THEN Count(x, c) ELSE 0
  IN part(0) + part(1) + part(2) + part(3) + part(4)
     + part(5) + part(6) + part(7) + part(8) + part(9)

\* The length of each table.
LEMMA Counts ==
  /\ \A x \in Types : \A c \in 0..9 : Count(x, c) \in Nat
  /\ Count("cmd", 0) = 18 /\ Count("cmd", 1) = 9 /\ Count("cmd", 2) = 6 /\ Count("cmd", 3) = 9
     /\ Count("cmd", 4) = 12 /\ Count("cmd", 5) = 8 /\ Count("cmd", 6) = 11
     /\ Count("cmd", 7) = 21 /\ Count("cmd", 8) = 7 /\ Count("cmd", 9) = 4
  /\ Count("rsp", 0) = 18 /\ Count("rsp", 1) = 9 /\ Count("rsp", 2) = 6 /\ Count("rsp", 3) = 9
     /\ Count("rsp", 4) = 12 /\ Count("rsp", 5) = 8 /\ Count("rsp", 6) = 11
     /\ Count("rsp", 7) = 21 /\ Count("rsp", 8) = 7 /\ Count("rsp", 9) = 4
  /\ Count("evt", 0) = 7 /\ Count("evt", 1) = 1 /\ Count("evt", 2) = 3 /\ Count("evt", 3) = 5
     /\ Count("evt", 4) = 7 /\ Count("evt", 5) = 5 /\ Count("evt", 6) = 2
     /\ Count("evt", 7) = 4 /\ Count("evt", 8) = 0 /\ Count("evt", 9) = 1
<1>1. /\ Count("cmd", 0) = 18 /\ Count("cmd", 1) = 9 /\ Count("cmd", 2) = 6 /\ Count("cmd", 3) = 9
      /\ Count("cmd", 4) = 12 /\ Count("cmd", 5) = 8 /\ Count("cmd", 6) = 11
      /\ Count("cmd", 7) = 21 /\ Count("cmd", 8) = 7 /\ Count("cmd", 9) = 4
  BY DEF Count, TableOf, Commands,
         SystemCommands, FlashCommands, AttributesCommands, ConnectionCommands, AttclientCommands,
         SmCommands, GapCommands, HardwareCommands, TestCommands, DfuCommands
<1>2. /\ Count("rsp", 0) = 18 /\ Count("rsp", 1) = 9 /\ Count("rsp", 2) = 6 /\ Count("rsp", 3) = 9
      /\ Count("rsp", 4) = 12 /\ Count("rsp", 5) = 8 /\ Count("rsp", 6) = 11
      /\ Count("rsp", 7) = 21 /\ Count("rsp", 8) = 7 /\ Count("rsp", 9) = 4
  BY DEF Count, TableOf, Responses,
         SystemResponses, FlashResponses, AttributesResponses, ConnectionResponses, AttclientResponses,
         SmResponses, GapResponses, HardwareResponses, TestResponses, DfuResponses
<1>3. /\ Count("evt", 0) = 7 /\ Count("evt", 1) = 1 /\ Count("evt", 2) = 3 /\ Count("evt", 3) = 5
      /\ Count("evt", 4) = 7 /\ Count("evt", 5) = 5 /\ Count("evt", 6) = 2
      /\ Count("evt", 7) = 4 /\ Count("evt", 8) = 0 /\ Count("evt", 9) = 1
  BY DEF Count, TableOf, Events,
         SystemEvents, FlashEvents, AttributesEvents, ConnectionEvents, AttclientEvents,
         SmEvents, GapEvents, HardwareEvents, DfuEvents
<1>4. ASSUME NEW x \in Types, NEW c \in 0..9
      PROVE  Count(x, c) \in Nat
  <2>1. c = 0 \/ c = 1 \/ c = 2 \/ c = 3 \/ c = 4 \/ c = 5 \/ c = 6 \/ c = 7 \/ c = 8 \/ c = 9
    OBVIOUS
  <2> QED BY <2>1, <1>1, <1>2, <1>3 DEF Types
<1> QED BY <1>1, <1>2, <1>3, <1>4

\* Where each class begins among the rows of its type.
LEMMA Begins ==
  /\ Before("cmd", 0) = 0 /\ Before("cmd", 1) = 18 /\ Before("cmd", 2) = 27 /\ Before("cmd", 3) = 33
  /\ Before("cmd", 4) = 42 /\ Before("cmd", 5) = 54 /\ Before("cmd", 6) = 62 /\ Before("cmd", 7) = 73
  /\ Before("cmd", 8) = 94 /\ Before("cmd", 9) = 101 /\ Before("cmd", 10) = 105
  /\ Before("rsp", 0) = 0 /\ Before("rsp", 1) = 18 /\ Before("rsp", 2) = 27 /\ Before("rsp", 3) = 33
  /\ Before("rsp", 4) = 42 /\ Before("rsp", 5) = 54 /\ Before("rsp", 6) = 62 /\ Before("rsp", 7) = 73
  /\ Before("rsp", 8) = 94 /\ Before("rsp", 9) = 101 /\ Before("rsp", 10) = 105
  /\ Before("evt", 0) = 0 /\ Before("evt", 1) = 7 /\ Before("evt", 2) = 8 /\ Before("evt", 3) = 11
  /\ Before("evt", 4) = 16 /\ Before("evt", 5) = 23 /\ Before("evt", 6) = 28 /\ Before("evt", 7) = 30
  /\ Before("evt", 8) = 34 /\ Before("evt", 9) = 34 /\ Before("evt", 10) = 35
  BY Counts DEF Before

\* A class ends where the next one begins.
LEMMA BeginsNext ==
  ASSUME NEW x \in Types
  PROVE  /\ Before(x, 0) = 0
         /\ \A n \in 0..9 : Before(x, n + 1) = Before(x, n) + Count(x, n)
<1>1. /\ Count(x, 0) \in Nat /\ Count(x, 1) \in Nat /\ Count(x, 2) \in Nat
      /\ Count(x, 3) \in Nat /\ Count(x, 4) \in Nat /\ Count(x, 5) \in Nat
      /\ Count(x, 6) \in Nat /\ Count(x, 7) \in Nat /\ Count(x, 8) \in Nat
      /\ Count(x, 9) \in Nat
  BY Counts
<1>2. Before(x, 0) = 0
  BY <1>1 DEF Before
<1>3. ASSUME NEW n \in 0..9
      PROVE  Before(x, n + 1) = Before(x, n) + Count(x, n)
  <2>0. CASE n = 0
    BY <1>1, <2>0 DEF Before
  <2>1. CASE n = 1
    BY <1>1, <2>1 DEF Before
  <2>2. CASE n = 2
    BY <1>1, <2>2 DEF Before
  <2>3. CASE n = 3
    BY <1>1, <2>3 DEF Before
  <2>4. CASE n = 4
    BY <1>1, <2>4 DEF Before
  <2>5. CASE n = 5
    BY <1>1, <2>5 DEF Before
  <2>6. CASE n = 6
    BY <1>1, <2>6 DEF Before
  <2>7. CASE n = 7
    BY <1>1, <2>7 DEF Before
  <2>8. CASE n = 8
    BY <1>1, <2>8 DEF Before
  <2>9. CASE n = 9
    BY <1>1, <2>9 DEF Before
  <2> QED BY <2>0, <2>1, <2>2, <2>3, <2>4, <2>5, <2>6, <2>7, <2>8, <2>9
<1> QED BY <1>2, <1>3

\* st is s, of length m, followed by t, of length n.
Joined(st, s, t, m, n) ==
  /\ Len(st) = m + n
  /\ \A i \in 1..m : i \in 1..(m + n) /\ st[i] = s[i]
  /\ \A k \in 1..n : m + k \in 1..(m + n) /\ st[m + k] = t[k]
  /\ \A i \in 1..(m + n) : i \notin 1..m => \E k \in 1..n : i = m + k

\* Both parts of a concatenation are in their place, and nothing else is in it.
LEMMA Appended ==
  ASSUME NEW S, NEW s \in Seq(S), NEW t \in Seq(S)
  PROVE  s \o t \in Seq(S) /\ Joined(s \o t, s, t, Len(s), Len(t))
<1> DEFINE m == Len(s)
           n == Len(t)
           st == s \o t
<1>1. m \in Nat /\ n \in Nat
  BY LenProperties
<1>2. st \in Seq(S) /\ Len(st) = m + n
  BY ConcatProperties
<1>3. \A i \in 1..(m + n) : st[i] = IF i <= m THEN s[i] ELSE t[i - m]
  BY ConcatProperties
<1> HIDE DEF m, n, st
<1>4. \A i \in 1..m : i \in 1..(m + n) /\ st[i] = s[i]
  BY <1>1, <1>2, <1>3
<1>5. ASSUME NEW k \in 1..n
      PROVE  m + k \in 1..(m + n) /\ st[m + k] = t[k]
  <2>1. m + k \in 1..(m + n) /\ ~(m + k <= m) /\ (m + k) - m = k
    BY <1>1
  <2> QED BY <2>1, <1>2, <1>3
<1>6. ASSUME NEW i \in 1..(m + n), i \notin 1..m
      PROVE  \E k \in 1..n : i = m + k
  <2>1. i - m \in 1..n /\ i = m + (i - m)
    BY <1>1, <1>2, <1>6
  <2> QED BY <2>1
<1> QED BY <1>2, <1>4, <1>5, <1>6 DEF m, n, st, Joined

\* The rows of a class.
LEMMA ClassIsSeq ==
  ASSUME NEW x \in Types, NEW c \in 0..9
  PROVE  /\ ClassRows(x, c, TableOf(x)[c + 1]) \in Seq(AnyRow)
         /\ Len(ClassRows(x, c, TableOf(x)[c + 1])) = Count(x, c)
         /\ \A k \in 1..Count(x, c) : ClassRows(x, c, TableOf(x)[c + 1])[k] = Row(x, c, k)
<1> DEFINE f == ClassRows(x, c, TableOf(x)[c + 1])
           n == Count(x, c)
<1>1. n \in Nat
  BY Counts
<1>2. f = [i \in 1..n |-> f[i]]
  BY DEF ClassRows, Count
<1>3. \A k \in 1..n : f[k] = Row(x, c, k)
  BY DEF Row
<1> HIDE DEF f, n
<1>4. \A k \in 1..n : f[k] \in AnyRow
  BY <1>3 DEF AnyRow
<1>5. f \in [1..n -> AnyRow]
  BY <1>2, <1>4
<1>6. f \in Seq(AnyRow) /\ Len(f) = n
  BY <1>1, <1>5
<1> QED BY <1>3, <1>6 DEF f, n

\* s holds the rows of the first n classes, each at its place.
Holds(s, x, n) ==
  /\ s \in Seq(AnyRow) /\ Len(s) = Before(x, n)
  /\ \A c \in 0..(n - 1) : \A k \in 1..Count(x, c) :
       Before(x, c) + k \in 1..Len(s) /\ s[Before(x, c) + k] = Row(x, c, k)
  /\ \A i \in 1..Len(s) : \E c \in 0..(n - 1) : \E k \in 1..Count(x, c) : i = Before(x, c) + k

\* One class more.
LEMMA HoldsNext ==
  ASSUME NEW x \in Types, NEW n \in 0..9, NEW s, Holds(s, x, n)
  PROVE  Holds(s \o ClassRows(x, n, TableOf(x)[n + 1]), x, n + 1)
<1> DEFINE t == ClassRows(x, n, TableOf(x)[n + 1])
           st == s \o t
<1>1. /\ t \in Seq(AnyRow) /\ Len(t) = Count(x, n)
      /\ \A k \in 1..Count(x, n) : t[k] = Row(x, n, k)
  BY ClassIsSeq
<1> HIDE DEF t
<1>2. /\ s \in Seq(AnyRow) /\ Len(s) = Before(x, n)
      /\ Before(x, n + 1) = Before(x, n) + Count(x, n)
  BY BeginsNext DEF Holds
<1>3. st \in Seq(AnyRow) /\ Joined(st, s, t, Len(s), Len(t))
  BY <1>1, <1>2, Appended
<1> HIDE DEF st
<1>4. /\ Len(st) = Len(s) + Len(t)
      /\ \A i \in 1..Len(s) : i \in 1..Len(st) /\ st[i] = s[i]
      /\ \A k \in 1..Len(t) : Len(s) + k \in 1..Len(st) /\ st[Len(s) + k] = t[k]
      /\ \A i \in 1..Len(st) : i \notin 1..Len(s) => \E k \in 1..Len(t) : i = Len(s) + k
  BY <1>3 DEF Joined
<1>5. ASSUME NEW c \in 0..n, NEW k \in 1..Count(x, c)
      PROVE  Before(x, c) + k \in 1..Len(st) /\ st[Before(x, c) + k] = Row(x, c, k)
  <2>1. CASE c = n
    <3>1. k \in 1..Len(t)
      BY <2>1, <1>1
    <3> QED BY <3>1, <2>1, <1>1, <1>2, <1>4
  <2>2. CASE c # n
    <3>1. c \in 0..(n - 1)
      BY <2>2
    <3>2. Before(x, c) + k \in 1..Len(s) /\ s[Before(x, c) + k] = Row(x, c, k)
      BY <3>1 DEF Holds
    <3> QED BY <3>2, <1>4
  <2> QED BY <2>1, <2>2
<1>6. ASSUME NEW i \in 1..Len(st)
      PROVE  \E c \in 0..n : \E k \in 1..Count(x, c) : i = Before(x, c) + k
  <2>1. CASE i \in 1..Len(s)
    <3>1. PICK c \in 0..(n - 1) : \E k \in 1..Count(x, c) : i = Before(x, c) + k
      BY <2>1 DEF Holds
    <3>2. c \in 0..n
      OBVIOUS
    <3> QED BY <3>1, <3>2
  <2>2. CASE \E k \in 1..Len(t) : i = Len(s) + k
    <3>1. \E k \in 1..Count(x, n) : i = Before(x, n) + k
      BY <2>2, <1>1, <1>2
    <3>2. n \in 0..n
      OBVIOUS
    <3> QED BY <3>1, <3>2
  <2> QED BY <2>1, <2>2, <1>4
<1>7. (n + 1) - 1 = n /\ Len(st) = Before(x, n + 1)
  BY <1>1, <1>2, <1>4
<1>8. Holds(st, x, n + 1)
  BY <1>3, <1>5, <1>6, <1>7 DEF Holds
<1> QED BY <1>8 DEF st, t

\* The rows of one type.
LEMMA RowsHold ==
  ASSUME NEW x \in Types
  PROVE  Holds(Rows(x, TableOf(x)), x, 10)
<1> DEFINE class(c) == ClassRows(x, c, TableOf(x)[c + 1])
           s1 == class(0)
           s2 == s1 \o class(1)
           s3 == s2 \o class(2)
           s4 == s3 \o class(3)
           s5 == s4 \o class(4)
           s6 == s5 \o class(5)
           s7 == s6 \o class(6)
           s8 == s7 \o class(7)
           s9 == s8 \o class(8)
           s10 == s9 \o class(9)
<1>0. Holds(<<>>, x, 0)
  <2>1. <<>> \in Seq(AnyRow) /\ Len(<<>>) = 0
    BY EmptySeq
  <2>2. 1..0 = {} /\ 0..(0 - 1) = {}
    OBVIOUS
  <2> QED BY <2>1, <2>2, BeginsNext DEF Holds
<1>1. Holds(s1, x, 1)
  <2>1. Holds(<<>> \o class(0), x, 0 + 1)
    <3> 0 \in 0..9
      OBVIOUS
    <3> QED BY <1>0, HoldsNext
  <2>2. <<>> \o class(0) = class(0)
    BY ClassIsSeq, ConcatEmptySeq
  <2> QED BY <2>1, <2>2
<1>2. Holds(s2, x, 2)
  <2>1. 1 \in 0..9
    OBVIOUS
  <2> HIDE DEF s1
  <2>2. Holds(s1 \o class(1), x, 1 + 1)
    BY <1>1, <2>1, HoldsNext
  <2> QED BY <2>2
<1>3. Holds(s3, x, 3)
  <2>1. 2 \in 0..9
    OBVIOUS
  <2> HIDE DEF s2
  <2>2. Holds(s2 \o class(2), x, 2 + 1)
    BY <1>2, <2>1, HoldsNext
  <2> QED BY <2>2
<1>4. Holds(s4, x, 4)
  <2>1. 3 \in 0..9
    OBVIOUS
  <2> HIDE DEF s3
  <2>2. Holds(s3 \o class(3), x, 3 + 1)
    BY <1>3, <2>1, HoldsNext
  <2> QED BY <2>2
<1>5. Holds(s5, x, 5)
  <2>1. 4 \in 0..9
    OBVIOUS
  <2> HIDE DEF s4
  <2>2. Holds(s4 \o class(4), x, 4 + 1)
    BY <1>4, <2>1, HoldsNext
  <2> QED BY <2>2
<1>6. Holds(s6, x, 6)
  <2>1. 5 \in 0..9
    OBVIOUS
  <2> HIDE DEF s5
  <2>2. Holds(s5 \o class(5), x, 5 + 1)
    BY <1>5, <2>1, HoldsNext
  <2> QED BY <2>2
<1>7. Holds(s7, x, 7)
  <2>1. 6 \in 0..9
    OBVIOUS
  <2> HIDE DEF s6
  <2>2. Holds(s6 \o class(6), x, 6 + 1)
    BY <1>6, <2>1, HoldsNext
  <2> QED BY <2>2
<1>8. Holds(s8, x, 8)
  <2>1. 7 \in 0..9
    OBVIOUS
  <2> HIDE DEF s7
  <2>2. Holds(s7 \o class(7), x, 7 + 1)
    BY <1>7, <2>1, HoldsNext
  <2> QED BY <2>2
<1>9. Holds(s9, x, 9)
  <2>1. 8 \in 0..9
    OBVIOUS
  <2> HIDE DEF s8
  <2>2. Holds(s8 \o class(8), x, 8 + 1)
    BY <1>8, <2>1, HoldsNext
  <2> QED BY <2>2
<1>10. Holds(s10, x, 10)
  <2>1. 9 \in 0..9
    OBVIOUS
  <2> HIDE DEF s9
  <2>2. Holds(s9 \o class(9), x, 9 + 1)
    BY <1>9, <2>1, HoldsNext
  <2> QED BY <2>2
<1>11. Rows(x, TableOf(x)) = s10
  BY DEF Rows
<1> QED BY <1>10, <1>11

\* The index in apis of the first row of a class.
Index(x, c) ==
  (IF x = "cmd" THEN 0 ELSE IF x = "rsp" THEN 105 ELSE 210) + Before(x, c)

\* Both are numbers.
LEMMA IndexInt ==
  ASSUME NEW x \in Types, NEW c \in 0..9
  PROVE  Before(x, c) \in Nat /\ Index(x, c) \in Nat
<1>1. c = 0 \/ c = 1 \/ c = 2 \/ c = 3 \/ c = 4 \/ c = 5 \/ c = 6 \/ c = 7 \/ c = 8 \/ c = 9
  OBVIOUS
<1>2. Before(x, c) \in Nat
  BY <1>1, Begins DEF Types
<1> QED BY <1>2 DEF Index

\* Where an element of the rows of one type stands.
LEMMA PlaceOf ==
  ASSUME NEW x \in Types, NEW s, Holds(s, x, 10), NEW j \in 1..Len(s)
  PROVE  \E c \in 0..9 : \E k \in 1..Count(x, c) :
           j = Before(x, c) + k /\ Before(x, c) \in Nat /\ k \in Nat
<1>1. PICK c \in 0..(10 - 1) : \E k \in 1..Count(x, c) : j = Before(x, c) + k
  BY DEF Holds
<1>2. PICK k \in 1..Count(x, c) : j = Before(x, c) + k
  BY <1>1
<1>3. c \in 0..9
  OBVIOUS
<1>4. Before(x, c) \in Nat
  BY <1>3, IndexInt
<1>5. k \in Nat
  <2>1. Count(x, c) \in Nat
    BY <1>3, Counts
  <2> QED BY <2>1
<1> QED BY <1>2, <1>3, <1>4, <1>5

\* apis has the rows of all classes, each at its place, and nothing else.
LEMMA ApisHold ==
  /\ \A x \in Types : \A c \in 0..9 : \A k \in 1..Count(x, c) :
       Index(x, c) + k \in DOMAIN apis /\ apis[Index(x, c) + k] = Row(x, c, k)
  /\ \A i \in DOMAIN apis : \E x \in Types : \E c \in 0..9 : \E k \in 1..Count(x, c) :
       i = Index(x, c) + k
<1> DEFINE a == Rows("cmd", Commands)
           b == Rows("rsp", Responses)
           e == Rows("evt", Events)
           ab == a \o b
<1>1. /\ Holds(a, "cmd", 10) /\ Holds(b, "rsp", 10) /\ Holds(e, "evt", 10)
  <2>1. /\ TableOf("cmd") = Commands /\ TableOf("rsp") = Responses /\ TableOf("evt") = Events
        /\ "cmd" \in Types /\ "rsp" \in Types /\ "evt" \in Types
    BY DEF TableOf, Types
  <2> QED BY <2>1, RowsHold
<1>2. apis = ab \o e
  BY DEF apis
<1> HIDE DEF a, b, e
<1>3. /\ a \in Seq(AnyRow) /\ b \in Seq(AnyRow) /\ e \in Seq(AnyRow)
      /\ Len(a) = 105 /\ Len(b) = 105 /\ Len(e) = 35
  BY <1>1, Begins DEF Holds
<1>4. ab \in Seq(AnyRow) /\ Joined(ab, a, b, 105, 105)
  <2>1. a \in Seq(AnyRow) /\ b \in Seq(AnyRow)
    BY <1>3
  <2>2. a \o b \in Seq(AnyRow) /\ Joined(a \o b, a, b, Len(a), Len(b))
    BY ONLY <2>1, Appended, Zenon
  <2> QED BY <2>2, <1>3
<1> HIDE DEF ab
<1>5. /\ Len(ab) = 210
      /\ \A i \in 1..105 : i \in 1..210 /\ ab[i] = a[i]
      /\ \A k \in 1..105 : 105 + k \in 1..210 /\ ab[105 + k] = b[k]
      /\ \A i \in 1..210 : i \notin 1..105 => \E k \in 1..105 : i = 105 + k
  BY <1>4 DEF Joined
<1>6. apis \in Seq(AnyRow) /\ Joined(apis, ab, e, 210, 35)
  <2>1. ab \in Seq(AnyRow) /\ e \in Seq(AnyRow)
    BY <1>3, <1>4
  <2>2. ab \o e \in Seq(AnyRow) /\ Joined(ab \o e, ab, e, Len(ab), Len(e))
    BY ONLY <2>1, Appended, Zenon
  <2> QED BY <2>2, <1>2, <1>3, <1>5
<1>7. /\ Len(apis) = 245 /\ DOMAIN apis = 1..245
      /\ \A i \in 1..210 : i \in 1..245 /\ apis[i] = ab[i]
      /\ \A k \in 1..35 : 210 + k \in 1..245 /\ apis[210 + k] = e[k]
      /\ \A i \in 1..245 : i \notin 1..210 => \E k \in 1..35 : i = 210 + k
  <2>1. Len(apis) = 245
    BY <1>6 DEF Joined
  <2>2. DOMAIN apis = 1..245
    BY <1>6, <2>1, LenProperties
  <2> QED BY <1>6, <2>1, <2>2 DEF Joined
<1>8. \A x \in Types : \A c \in 0..9 : \A k \in 1..Count(x, c) : Before(x, c) \in Nat
  BY IndexInt
<1>9. ASSUME NEW x \in Types, NEW c \in 0..9, NEW k \in 1..Count(x, c)
      PROVE  Index(x, c) + k \in DOMAIN apis /\ apis[Index(x, c) + k] = Row(x, c, k)
  <2> DEFINE i == Before(x, c) + k
  <2>0. Before(x, c) \in Nat /\ k \in Nat /\ c \in 0..(10 - 1)
    BY <1>8, Counts
  <2>1. CASE x = "cmd"
    <3>1. i \in 1..105 /\ a[i] = Row(x, c, k)
      BY <2>0, <2>1, <1>1, <1>3 DEF Holds
    <3>2. Index(x, c) + k = i
      BY <2>0, <2>1 DEF Index
    <3> HIDE DEF i
    <3> QED BY <3>1, <3>2, <1>5, <1>7
  <2>2. CASE x = "rsp"
    <3>1. i \in 1..105 /\ b[i] = Row(x, c, k)
      BY <2>0, <2>2, <1>1, <1>3 DEF Holds
    <3>2. Index(x, c) + k = 105 + i
      BY <2>0, <2>2 DEF Index
    <3> HIDE DEF i
    <3> QED BY <3>1, <3>2, <1>5, <1>7
  <2>3. CASE x = "evt"
    <3>1. i \in 1..35 /\ e[i] = Row(x, c, k)
      BY <2>0, <2>3, <1>1, <1>3 DEF Holds
    <3>2. Index(x, c) + k = 210 + i
      BY <2>0, <2>3 DEF Index
    <3> HIDE DEF i
    <3> QED BY <3>1, <3>2, <1>7
  <2> QED BY <2>1, <2>2, <2>3 DEF Types
<1>11. ASSUME NEW i \in DOMAIN apis
       PROVE  \E x \in Types : \E c \in 0..9 : \E k \in 1..Count(x, c) : i = Index(x, c) + k
  <2>1. CASE i \in 1..105
    <3>1. PICK c \in 0..9 : \E k \in 1..Count("cmd", c) :
                   i = Before("cmd", c) + k /\ Before("cmd", c) \in Nat /\ k \in Nat
      <4>1. i \in 1..Len(a) /\ "cmd" \in Types
        BY <2>1, <1>3 DEF Types
      <4> QED BY <4>1, <1>1, PlaceOf
    <3>2. \E k \in 1..Count("cmd", c) : i = Index("cmd", c) + k
      BY <3>1 DEF Index
    <3> QED BY <3>2 DEF Types
  <2>2. CASE i \in 1..210 /\ i \notin 1..105
    <3>1. PICK j \in 1..105 : i = 105 + j
      BY <2>2, <1>5
    <3>2. PICK c \in 0..9 : \E k \in 1..Count("rsp", c) :
                   j = Before("rsp", c) + k /\ Before("rsp", c) \in Nat /\ k \in Nat
      <4>1. j \in 1..Len(b) /\ "rsp" \in Types
        BY <1>3 DEF Types
      <4> QED BY <4>1, <1>1, PlaceOf
    <3>3. \E k \in 1..Count("rsp", c) : i = Index("rsp", c) + k
      BY <3>1, <3>2 DEF Index
    <3> QED BY <3>3 DEF Types
  <2>3. CASE i \notin 1..210
    <3>1. PICK j \in 1..35 : i = 210 + j
      BY <2>3, <1>7
    <3>2. PICK c \in 0..9 : \E k \in 1..Count("evt", c) :
                   j = Before("evt", c) + k /\ Before("evt", c) \in Nat /\ k \in Nat
      <4>1. j \in 1..Len(e) /\ "evt" \in Types
        BY <1>3 DEF Types
      <4> QED BY <4>1, <1>1, PlaceOf
    <3>3. \E k \in 1..Count("evt", c) : i = Index("evt", c) + k
      BY <3>1, <3>2 DEF Index
    <3> QED BY <3>3 DEF Types
  <2> QED BY <2>1, <2>2, <2>3, <1>7
<1> QED BY <1>9, <1>11

\* A row says of itself what it is, and its fields are those of its table.
LEMMA RowFields ==
  ASSUME NEW x \in Types, NEW c \in 0..9, NEW k \in 1..Count(x, c)
  PROVE  /\ Row(x, c, k) = [type |-> x, cls |-> c, command |-> k - 1,
                            lolen |-> Head(TableOf(x)[c + 1][k]),
                            params |-> Tail(TableOf(x)[c + 1][k])]
         /\ Row(x, c, k).type = x /\ Row(x, c, k).cls = c /\ Row(x, c, k).command = k - 1
         /\ Row(x, c, k).lolen = Head(TableOf(x)[c + 1][k])
         /\ Row(x, c, k).params = Tail(TableOf(x)[c + 1][k])
  BY DEF Row, ClassRows, Count

\* What is in apis is a row of one of the classes, and all of these are in it.
LEMMA ApisRows ==
  /\ \A i \in DOMAIN apis : \E x \in Types : \E c \in 0..9 : \E k \in 1..Count(x, c) :
       apis[i] = Row(x, c, k)
  /\ \A x \in Types : \A c \in 0..9 : \A k \in 1..Count(x, c) :
       Row(x, c, k) \in {apis[i] : i \in DOMAIN apis}
<1>1. ASSUME NEW i \in DOMAIN apis
      PROVE  \E x \in Types : \E c \in 0..9 : \E k \in 1..Count(x, c) : apis[i] = Row(x, c, k)
  <2>1. PICK x \in Types, c \in 0..9 : \E k \in 1..Count(x, c) : i = Index(x, c) + k
    BY ApisHold
  <2>2. PICK k \in 1..Count(x, c) : i = Index(x, c) + k
    BY <2>1
  <2>3. apis[i] = Row(x, c, k)
    BY <2>2, ApisHold
  <2> QED BY <2>3
<1>2. ASSUME NEW x \in Types, NEW c \in 0..9, NEW k \in 1..Count(x, c)
      PROVE  Row(x, c, k) \in {apis[i] : i \in DOMAIN apis}
  BY ApisHold
<1> QED BY <1>1, <1>2

-----------------------------------------------------------------------------
(* The lookup.                                                             *)

\* The tables of handlers begin and end where the classes of apis do.
LEMMA HandlerTables ==
  /\ Len(RspHandlers) = 10 /\ Len(EvtHandlers) = 10
  /\ \A c \in 0..9 : /\ RspHandlers[c + 1][1] = Index("rsp", c)
                     /\ RspHandlers[c + 1][2] = Count("rsp", c)
                     /\ EvtHandlers[c + 1][1] = Index("evt", c)
                     /\ EvtHandlers[c + 1][2] = Count("evt", c)
<1>1. Len(RspHandlers) = 10 /\ Len(EvtHandlers) = 10
  BY DEF RspHandlers, EvtHandlers
<1> SUFFICES ASSUME NEW c \in 0..9
             PROVE  /\ RspHandlers[c + 1][1] = Index("rsp", c)
                    /\ RspHandlers[c + 1][2] = Count("rsp", c)
                    /\ EvtHandlers[c + 1][1] = Index("evt", c)
                    /\ EvtHandlers[c + 1][2] = Count("evt", c)
  BY <1>1
<1>2. CASE c = 0
  BY <1>2, Counts, Begins DEF RspHandlers, EvtHandlers, Index
<1>3. CASE c = 1
  BY <1>3, Counts, Begins DEF RspHandlers, EvtHandlers, Index
<1>4. CASE c = 2
  BY <1>4, Counts, Begins DEF RspHandlers, EvtHandlers, Index
<1>5. CASE c = 3
  BY <1>5, Counts, Begins DEF RspHandlers, EvtHandlers, Index
<1>6. CASE c = 4
  BY <1>6, Counts, Begins DEF RspHandlers, EvtHandlers, Index
<1>7. CASE c = 5
  BY <1>7, Counts, Begins DEF RspHandlers, EvtHandlers, Index
<1>8. CASE c = 6
  BY <1>8, Counts, Begins DEF RspHandlers, EvtHandlers, Index
<1>9. CASE c = 7
  BY <1>9, Counts, Begins DEF RspHandlers, EvtHandlers, Index
<1>10. CASE c = 8
  BY <1>10, Counts, Begins DEF RspHandlers, EvtHandlers, Index
<1>11. CASE c = 9
  BY <1>11, Counts, Begins DEF RspHandlers, EvtHandlers, Index
<1> QED BY <1>2, <1>3, <1>4, <1>5, <1>6, <1>7, <1>8, <1>9, <1>10, <1>11

\* ble_get_msg_hdr(), which indexes a table of handlers by class and number,
\* finds the one response or event of that class and number in apis, and
\* nothing where there is none, for every header of a response or an event.
THEOREM LookupByPosition ==
  \A p \in [type : {"rsp", "evt"}, cls : Nat, command : Nat] : GetMsgHdr(p) = Matching(p)
<1> SUFFICES ASSUME NEW p \in [type : {"rsp", "evt"}, cls : Nat, command : Nat]
             PROVE  GetMsgHdr(p) = Matching(p)
  OBVIOUS
<1> DEFINE handlers == IF p.type = "evt" THEN EvtHandlers ELSE RspHandlers
           x == p.type
           c == p.cls
           k == p.command + 1
<1>1. x \in Types /\ x # "cmd" /\ c \in Nat /\ p.command \in Nat
  BY DEF Types
<1>2. Len(handlers) = 10
  BY HandlerTables
<1>3. ASSUME c < 10
      PROVE  /\ c \in 0..9
             /\ handlers[c + 1][1] = Index(x, c) /\ handlers[c + 1][2] = Count(x, c)
  <2>1. c \in 0..9
    BY <1>1, <1>3
  <2> QED BY <2>1, HandlerTables
<1>4. ASSUME NEW m \in Matching(p)
      PROVE  c \in 0..9 /\ k \in 1..Count(x, c) /\ m = Row(x, c, k)
  <2>1. PICK i \in DOMAIN apis : m = apis[i]
    BY DEF Matching
  <2>2. PICK y \in Types, d \in 0..9 : \E j \in 1..Count(y, d) : m = Row(y, d, j)
    BY <2>1, ApisRows
  <2>3. PICK j \in 1..Count(y, d) : m = Row(y, d, j)
    BY <2>2
  <2>4. m.type = y /\ m.cls = d /\ m.command = j - 1
    BY <2>3, RowFields
  <2>5. m.type = x /\ m.cls = c /\ m.command = p.command
    BY DEF Matching
  <2>6. j \in Int /\ k = j
    <3>1. j \in Int
      BY Counts
    <3> QED BY <3>1, <2>4, <2>5
  <2> HIDE DEF x, c, k
  <2> QED BY <2>3, <2>4, <2>5, <2>6
<1>5. CASE c < 10 /\ p.command < Count(x, c)
  <2>1. c \in 0..9 /\ k \in 1..Count(x, c)
    <3>1. Count(x, c) \in Nat
      BY <1>1, <1>3, <1>5, Counts
    <3> QED BY <3>1, <1>1, <1>5
  <2>2. GetMsgHdr(p) = {apis[handlers[c + 1][1] + p.command + 1]}
    BY <1>2, <1>3, <1>5 DEF GetMsgHdr
  <2>3. handlers[c + 1][1] + p.command + 1 = Index(x, c) + k
    <3>1. Index(x, c) \in Int
      BY <2>1, <1>1, IndexInt
    <3> QED BY <3>1, <1>1, <1>3, <1>5
  <2>4. GetMsgHdr(p) = {Row(x, c, k)}
    BY <2>1, <2>2, <2>3, <1>1, ApisHold
  <2>5. Row(x, c, k) \in Matching(p)
    <3>1. /\ Row(x, c, k) \in {apis[i] : i \in DOMAIN apis}
          /\ Row(x, c, k).type = x /\ Row(x, c, k).cls = c /\ Row(x, c, k).command = k - 1
      BY <2>1, <1>1, ApisRows, RowFields
    <3>2. k - 1 = p.command
      BY <1>1
    <3> QED BY <3>1, <3>2 DEF Matching
  <2> HIDE DEF k, c, x
  <2> QED BY <2>4, <2>5, <1>4
<1>6. CASE ~(c < 10 /\ p.command < Count(x, c))
  <2>1. GetMsgHdr(p) = {}
    BY <1>2, <1>3, <1>6 DEF GetMsgHdr
  <2>2. Matching(p) = {}
    <3> SUFFICES ASSUME NEW m \in Matching(p)
                 PROVE  FALSE
      OBVIOUS
    <3>1. c \in 0..9 /\ k \in 1..Count(x, c)
      BY <1>4
    <3>2. Count(x, c) \in Nat
      BY <3>1, <1>1, Counts
    <3> QED BY <3>1, <3>2, <1>1, <1>6
  <2> QED BY <2>1, <2>2
<1> QED BY <1>5, <1>6

-----------------------------------------------------------------------------
\* The commands, and the messages of the module.
CommandRow(m) == \E c \in 0..9 : \E k \in 1..Count("cmd", c) : m = Row("cmd", c, k)
ModuleRow(m) ==
  \E x \in {"rsp", "evt"} : \E c \in 0..9 : \E k \in 1..Count(x, c) : m = Row(x, c, k)

-----------------------------------------------------------------------------
(* The inductive invariant.                                                *)

IdleInv == step = "idle" => filled = 0

\* What is left of the parameters fills what is left of the payload, and takes
\* what is left of the arguments; only the last parameter brings data.
FillInv ==
  step = "fill" =>
    /\ CommandRow(message)
    /\ Measured(left, message.lolen - filled, args)
    /\ left = <<>> \/ dataLen = 0
    /\ lolen = message.lolen + dataLen

SentInv ==
  step = "sent" =>
    /\ CommandRow(message)
    /\ args = 0 /\ filled = message.lolen /\ lolen = filled + dataLen

\* The module sends of a message what its row says, and what it reads fits.
ReceiveInv ==
  step \in {"payload", "find"} =>
    /\ message \in Headers /\ lolen \in 0..MAX_PAYLOAD
    /\ Matching(message) # {} => lolen \in PayloadLens(message)
    /\ step = "find" => filled = lolen

HandlerInv ==
  step = "handler" =>
    /\ ModuleRow(message) /\ Matching(message) = {message}
    /\ message.lolen <= filled

PacketInv ==
  /\ TypeOK /\ IdleInv /\ FillInv /\ SentInv /\ ReceiveInv /\ HandlerInv
  /\ OnlyUnknownResets

-----------------------------------------------------------------------------
(* The rows.                                                               *)

\* Parameters fill a number of bytes.
LEMMA BytesNat ==
  ASSUME NEW s \in Seq(Kinds)
  PROVE  Bytes(s) \in Nat /\ Arguments(s) \in Nat
<1>1. \A k \in 1..8 : Size(s, k) \in Nat /\ Taken(s, k) \in Nat
  <2> SUFFICES ASSUME NEW k \in 1..8
               PROVE  Size(s, k) \in Nat /\ Taken(s, k) \in Nat
    OBVIOUS
  <2>1. CASE k <= Len(s)
    <3>1. s[k] \in Kinds
      BY <2>1
    <3>2. ParameterSize[s[k]] \in Nat
      BY <3>1 DEF Kinds, ParameterSize
    <3> QED BY <2>1, <3>2 DEF Size, Taken
  <2>2. CASE ~(k <= Len(s))
    BY <2>2 DEF Size, Taken
  <2> QED BY <2>1, <2>2
<1>2. /\ Size(s, 1) \in Nat /\ Size(s, 2) \in Nat /\ Size(s, 3) \in Nat /\ Size(s, 4) \in Nat
      /\ Size(s, 5) \in Nat /\ Size(s, 6) \in Nat /\ Size(s, 7) \in Nat /\ Size(s, 8) \in Nat
      /\ Taken(s, 1) \in Nat /\ Taken(s, 2) \in Nat /\ Taken(s, 3) \in Nat /\ Taken(s, 4) \in Nat
      /\ Taken(s, 5) \in Nat /\ Taken(s, 6) \in Nat /\ Taken(s, 7) \in Nat /\ Taken(s, 8) \in Nat
  BY <1>1
<1>3. \A a, b, c, d \in Nat : a + b + c + d \in Nat
  OBVIOUS
<1>4. /\ Size(s, 1) + Size(s, 2) + Size(s, 3) + Size(s, 4) \in Nat
      /\ Taken(s, 1) + Taken(s, 2) + Taken(s, 3) + Taken(s, 4) \in Nat
  BY <1>2, <1>3
<1>5. \A n, a, b, c, d \in Nat : n + a + b + c + d \in Nat
  OBVIOUS
<1>6. Bytes(s) \in Nat
  BY <1>2, <1>4, <1>5 DEF Bytes
<1>7. Arguments(s) \in Nat
  BY <1>2, <1>4, <1>5 DEF Arguments
<1> QED BY <1>6, <1>7

\* A command's parameters, macro and structure count what its row does.
LEMMA CommandMeasured ==
  ASSUME NEW m, CommandRow(m)
  PROVE  /\ m \in {apis[i] : i \in DOMAIN apis}
         /\ m.lolen \in 0..15 /\ StructBytes(m) = m.lolen
         /\ Measured(m.params, m.lolen, MacroArgs[m.cls + 1][m.command + 1])
<1>1. PICK c \in 0..9 : \E k \in 1..Count("cmd", c) : m = Row("cmd", c, k)
  BY DEF CommandRow
<1>2. PICK k \in 1..Count("cmd", c) : m = Row("cmd", c, k)
  BY <1>1
<1>3. "cmd" \in Types /\ TableOf("cmd") = Commands
  BY DEF Types, TableOf
<1>4. /\ m.type = "cmd" /\ m.cls = c /\ m.command = k - 1
      /\ m.lolen = Head(Commands[c + 1][k]) /\ m.params = Tail(Commands[c + 1][k])
  BY <1>2, <1>3, RowFields
<1>5. k \in Int /\ (k - 1) + 1 = k
  <2>1. Count("cmd", c) \in Nat
    BY <1>3, Counts
  <2> QED BY <2>1
<1>6. CommandFits(Commands[c + 1][k], Structs[c + 1].cmd[k], MacroArgs[c + 1][k])
  <2>1. k \in 1..Len(Commands[c + 1])
    BY <1>3 DEF Count
  <2> QED BY <2>1, CommandsFit
<1>7. StructBytes(m) = Structs[c + 1].cmd[k]
  BY <1>4, <1>5 DEF StructBytes
<1>8. m \in {apis[i] : i \in DOMAIN apis}
  BY <1>2, <1>3, ApisRows
<1>9. MacroArgs[m.cls + 1][m.command + 1] = MacroArgs[c + 1][k]
  BY <1>4, <1>5
<1> QED BY <1>4, <1>6, <1>7, <1>8, <1>9 DEF CommandFits

\* The command rows of apis are the commands.
LEMMA IsCommand ==
  ASSUME NEW i \in DOMAIN apis, apis[i].type = "cmd"
  PROVE  CommandRow(apis[i])
<1>1. PICK x \in Types, c \in 0..9 : \E k \in 1..Count(x, c) : apis[i] = Row(x, c, k)
  BY ApisRows
<1>2. PICK k \in 1..Count(x, c) : apis[i] = Row(x, c, k)
  BY <1>1
<1>3. x = "cmd"
  BY <1>2, RowFields
<1> QED BY <1>2, <1>3 DEF CommandRow

\* The structure of a message of the module has the bytes of its row, and it
\* has one handler, in main.c or empty.
LEMMA ModuleMeasured ==
  ASSUME NEW m, ModuleRow(m)
  PROVE  /\ m \in {apis[i] : i \in DOMAIN apis}
         /\ m.lolen \in 0..16 /\ StructBytes(m) = m.lolen
         /\ Handled(m) <=> ~Stub(m)
<1>1. PICK x \in {"rsp", "evt"}, c \in 0..9 : \E k \in 1..Count(x, c) : m = Row(x, c, k)
  BY DEF ModuleRow
<1>2. PICK k \in 1..Count(x, c) : m = Row(x, c, k)
  BY <1>1
<1>3. x \in Types
  BY DEF Types
<1>4. /\ m.type = x /\ m.cls = c /\ m.command = k - 1
      /\ m.lolen = Head(TableOf(x)[c + 1][k])
  BY <1>2, <1>3, RowFields
<1>5. k \in Int /\ (k - 1) + 1 = k
  <2>1. Count(x, c) \in Nat
    BY <1>3, Counts
  <2> QED BY <2>1
<1>6. m \in {apis[i] : i \in DOMAIN apis}
  BY <1>2, <1>3, ApisRows
<1>7. StructBytes(m) = Structs[c + 1][x][k]
  BY <1>4, <1>5 DEF StructBytes
<1>8. CASE x = "rsp"
  <2>1. TableOf(x) = Responses
    BY <1>8 DEF TableOf
  <2>2. k \in 1..Len(Responses[c + 1])
    BY <2>1 DEF Count
  <2>3. /\ Head(Responses[c + 1][k]) = Structs[c + 1].rsp[k]
        /\ Structs[c + 1].rsp[k] \in 0..16
        /\ Handled(Rsp(c, k - 1)) <=> ~Stub(Rsp(c, k - 1))
    BY <2>2, ResponsesFit
  <2>4. (Handled(m) <=> Handled(Rsp(c, k - 1))) /\ (Stub(m) <=> Stub(Rsp(c, k - 1)))
    BY <1>4, <1>8 DEF Handled, Stub, Rsp
  <2> QED BY <1>4, <1>6, <1>7, <1>8, <2>1, <2>3, <2>4
<1>9. CASE x = "evt"
  <2>1. TableOf(x) = Events
    BY <1>9 DEF TableOf
  <2>2. k \in 1..Len(Events[c + 1])
    BY <2>1 DEF Count
  <2>3. /\ Head(Events[c + 1][k]) = Structs[c + 1].evt[k]
        /\ Structs[c + 1].evt[k] \in 0..16
        /\ Handled(Evt(c, k - 1)) <=> ~Stub(Evt(c, k - 1))
    BY <2>2, EventsFit
  <2>4. (Handled(m) <=> Handled(Evt(c, k - 1))) /\ (Stub(m) <=> Stub(Evt(c, k - 1)))
    BY <1>4, <1>9 DEF Handled, Stub, Evt
  <2> QED BY <1>4, <1>6, <1>7, <1>9, <2>1, <2>3, <2>4
<1> QED BY <1>8, <1>9

\* What a header matches is one message of the module.
LEMMA MatchedRow ==
  ASSUME NEW p \in Headers, NEW m \in Matching(p)
  PROVE  ModuleRow(m) /\ Matching(m) = Matching(p)
<1>1. PICK i \in DOMAIN apis : m = apis[i]
  BY DEF Matching
<1>2. PICK x \in Types, c \in 0..9 : \E k \in 1..Count(x, c) : m = Row(x, c, k)
  BY <1>1, ApisRows
<1>3. PICK k \in 1..Count(x, c) : m = Row(x, c, k)
  BY <1>2
<1>4. m.type = p.type /\ m.cls = p.cls /\ m.command = p.command
  BY DEF Matching
<1>5. x \in {"rsp", "evt"}
  <2>1. p.type \in {"rsp", "evt"}
    BY DEF Headers
  <2> QED BY <2>1, <1>3, <1>4, RowFields
<1> QED BY <1>3, <1>4, <1>5 DEF ModuleRow, Matching

\* What ble_get_msg_hdr() finds is the only message a header matches.
LEMMA FoundRow ==
  ASSUME NEW p \in Headers
  PROVE  /\ GetMsgHdr(p) = Matching(p)
         /\ \A m \in GetMsgHdr(p) :
              ModuleRow(m) /\ Matching(m) = {m} /\ Matching(p) = {m}
<1>1. p \in [type : {"rsp", "evt"}, cls : Nat, command : Nat]
  <2>1. Classes \subseteq Nat /\ Numbers \subseteq Nat
    <3>1. 0..255 \subseteq Nat
      OBVIOUS
    <3> QED BY <3>1, PacketsAssumption
  <2> QED BY <2>1 DEF Headers
<1>2. GetMsgHdr(p) = Matching(p)
  BY <1>1, LookupByPosition
<1>3. ASSUME NEW m \in GetMsgHdr(p)
      PROVE  ModuleRow(m) /\ Matching(m) = {m} /\ Matching(p) = {m}
  <2>1. GetMsgHdr(p) = {m}
    BY <1>3 DEF GetMsgHdr
  <2> QED BY <2>1, <1>2, MatchedRow
<1> QED BY <1>2, <1>3

\* A payload has at least the bytes of its row.
LEMMA PayloadLong ==
  ASSUME NEW p \in Headers, NEW n \in PayloadLens(p)
  PROVE  n \in Nat /\ \E m \in Matching(p) : m.lolen <= n
<1>1. PICK m \in Matching(p) :
        n \in {d + m.lolen : d \in IF Arr \in {m.params[k] : k \in DOMAIN m.params}
                                   THEN DataLens ELSE {0}}
  BY DEF PayloadLens
<1>2. m.lolen \in Nat
  BY MatchedRow, ModuleMeasured
<1>3. PICK d \in DataLens \cup {0} : n = d + m.lolen
  BY <1>1
<1>4. d \in Nat
  BY <1>3, PacketsAssumption
<1> QED BY <1>2, <1>3, <1>4

-----------------------------------------------------------------------------
(* The steps.                                                              *)

\* Back to idle, from anywhere.
LEMMA RestKeeps ==
  ASSUME Rest
  PROVE  PacketInv'
<1>1. TypeOK'
  <2>1. <<>> \in Seq(DOMAIN ParameterSize)
    OBVIOUS
  <2>2. 0 \in 0..MAX_PAYLOAD
    BY PacketsAssumption
  <2> QED BY <2>1, <2>2 DEF Rest, TypeOK
<1> QED
  BY <1>1 DEF Rest, PacketInv, IdleInv, FillInv, SentInv, ReceiveInv, HandlerInv,
              OnlyUnknownResets

\* A macro starts with its row, all parameters and all arguments.
LEMMA CallKeeps ==
  ASSUME PacketInv, Call
  PROVE  PacketInv'
<1>1. PICK i \in DOMAIN apis :
        /\ apis[i].type = "cmd"
        /\ message' = apis[i] /\ left' = apis[i].params /\ lolen' = apis[i].lolen
        /\ args' = MacroArgs[apis[i].cls + 1][apis[i].command + 1]
  BY DEF Call
<1> DEFINE m == apis[i]
<1>2. CommandRow(m)
  BY <1>1, IsCommand
<1>3. m.lolen \in 0..15 /\ Measured(m.params, m.lolen, MacroArgs[m.cls + 1][m.command + 1])
  BY <1>2, CommandMeasured
<1>4. step' = "fill" /\ filled' = 0 /\ dataLen' = 0
  BY DEF Call
<1>5. FillInv'
  <2>1. message'.lolen - filled' = m.lolen /\ m.lolen + dataLen' = m.lolen
    BY <1>1, <1>3, <1>4
  <2> QED BY <2>1, <1>1, <1>2, <1>3, <1>4 DEF FillInv
<1>6. TypeOK'
  <2>1. left' \in Seq(DOMAIN ParameterSize) /\ args' \in Nat
    BY <1>1, <1>3, BytesNat DEF Measured, Kinds
  <2>2. 0 \in 0..MAX_PAYLOAD /\ m.lolen \in 0..255
    BY <1>3, PacketsAssumption
  <2> QED BY <2>1, <2>2, <1>1, <1>4 DEF TypeOK
<1> QED
  BY <1>4, <1>5, <1>6 DEF PacketInv, IdleInv, SentInv, ReceiveInv, HandlerInv, OnlyUnknownResets

\* A parameter takes its arguments and fills its bytes; the rest is measured
\* as before.
LEMMA FillMeasured ==
  ASSUME PacketInv, step = "fill", left # <<>>
  PROVE  /\ CommandRow(message) /\ message.lolen \in 0..15 /\ dataLen = 0
         /\ lolen = message.lolen
         /\ Head(left) \in Kinds /\ ParameterSize[Head(left)] \in Nat
         /\ Head(left) = Arr => Tail(left) = <<>>
         /\ Measured(Tail(left), message.lolen - (filled + ParameterSize[Head(left)]),
                     args - (IF Head(left) = Arr THEN 2 ELSE 1))
         /\ args - (IF Head(left) = Arr THEN 2 ELSE 1) \in Nat
         /\ filled + ParameterSize[Head(left)] \in 0..MAX_PAYLOAD
<1> DEFINE size == ParameterSize[Head(left)]
           taken == IF Head(left) = Arr THEN 2 ELSE 1
           t == Tail(left)
<1>1. /\ CommandRow(message) /\ Measured(left, message.lolen - filled, args)
      /\ dataLen = 0 /\ lolen = message.lolen + dataLen
      /\ filled \in Nat /\ args \in Nat
  BY DEF PacketInv, FillInv, TypeOK
<1>2. message.lolen \in 0..15
  BY <1>1, CommandMeasured
<1>3. /\ t \in Seq(Kinds) /\ Len(t) <= 8 /\ ArrayLast(t)
      /\ Head(left) \in Kinds
      /\ Head(left) = Arr => t = <<>>
      /\ Bytes(left) = size + Bytes(t)
      /\ Arguments(left) = taken + Arguments(t)
  BY <1>1, FirstAndRest DEF Measured
<1>4. size \in Nat /\ taken \in Nat
  BY <1>3 DEF Kinds, ParameterSize
<1>5. Bytes(left) = message.lolen - filled /\ Arguments(left) = args
  BY <1>1 DEF Measured
<1>6. Bytes(t) \in Nat /\ Arguments(t) \in Nat
  BY <1>3, BytesNat
<1>7. lolen = message.lolen
  BY <1>1, <1>2
<1> HIDE DEF size, taken, t
<1>8. Bytes(t) = message.lolen - (filled + size) /\ Arguments(t) = args - taken
  <2> DEFINE whole == message.lolen
             rest == Bytes(t)
             more == Arguments(t)
  <2>1. /\ whole \in Nat /\ rest \in Nat /\ more \in Nat
        /\ filled \in Nat /\ args \in Nat /\ size \in Nat /\ taken \in Nat
    BY <1>1, <1>2, <1>4, <1>6
  <2>2. size + rest = whole - filled /\ taken + more = args
    BY <1>3, <1>5
  <2> HIDE DEF whole, rest, more
  <2>3. rest = whole - (filled + size)
    BY <2>1, <2>2
  <2>4. more = args - taken
    BY <2>1, <2>2
  <2> QED BY <2>3, <2>4 DEF whole, rest, more
<1>9. filled + size \in 0..MAX_PAYLOAD
  <2>1. \A l \in 0..15, f, z, b \in Nat, max \in 16..236 :
          b = l - (f + z) => f + z \in 0..max
    OBVIOUS
  <2> QED BY <2>1, <1>1, <1>2, <1>4, <1>6, <1>8, PacketsAssumption
<1>10. args - taken \in Nat
  BY <1>6, <1>8
<1>11. Measured(t, message.lolen - (filled + size), args - taken)
  BY <1>3, <1>8 DEF Measured
<1> QED BY <1>1, <1>2, <1>3, <1>4, <1>7, <1>9, <1>10, <1>11 DEF size, taken, t

\* A fixed parameter is one argument less and its bytes more.
LEMMA FillFixedKeeps ==
  ASSUME PacketInv, FillFixed
  PROVE  PacketInv'
<1>1. /\ step = "fill" /\ left # <<>> /\ Head(left) # Arr
      /\ left' = Tail(left) /\ args' = args - 1
      /\ filled' = filled + ParameterSize[Head(left)]
      /\ step' = "fill" /\ message' = message /\ lolen' = lolen /\ dataLen' = dataLen
  BY DEF FillFixed
<1>2. /\ CommandRow(message) /\ message.lolen \in 0..15 /\ dataLen = 0
      /\ lolen = message.lolen
      /\ Measured(left', message.lolen - filled', args')
      /\ args' \in Nat /\ filled' \in 0..MAX_PAYLOAD
  BY <1>1, FillMeasured
<1>3. TypeOK'
  <2>1. left' \in Seq(DOMAIN ParameterSize)
    BY <1>2 DEF Measured, Kinds
  <2> QED BY <2>1, <1>1, <1>2 DEF TypeOK, PacketInv
<1>4. FillInv'
  <2>1. lolen' = message'.lolen + dataLen'
    BY <1>1, <1>2
  <2> QED BY <2>1, <1>1, <1>2 DEF FillInv
<1> QED
  BY <1>1, <1>3, <1>4 DEF PacketInv, IdleInv, SentInv, ReceiveInv, HandlerInv, OnlyUnknownResets

\* The data is counted in the header without a wrap.
LEMMA FillArrayKeeps ==
  ASSUME PacketInv, FillArray
  PROVE  PacketInv'
<1>1. /\ step = "fill" /\ left # <<>> /\ Head(left) = Arr
      /\ left' = Tail(left) /\ args' = args - 2
      /\ filled' = filled + ParameterSize[Head(left)]
      /\ step' = "fill" /\ message' = message
  BY DEF FillArray
<1>2. PICK n \in DataLens : dataLen' = n /\ lolen' = (lolen + n) % 256
  BY DEF FillArray
<1>3. /\ CommandRow(message) /\ message.lolen \in 0..15
      /\ lolen = message.lolen /\ left' = <<>>
      /\ Measured(left', message.lolen - filled', args')
      /\ args' \in Nat /\ filled' \in 0..MAX_PAYLOAD
  BY <1>1, FillMeasured
<1>4. lolen' = message.lolen + n /\ lolen' \in 0..255
  <2>1. n \in 0..236
    BY PacketsAssumption
  <2>2. message.lolen + n \in 0..251
    <3>1. \A f \in 0..15, d \in 0..236 : f + d \in 0..251
      OBVIOUS
    <3> QED BY <3>1, <2>1, <1>3
  <2>3. \A k \in 0..251 : k % 256 = k /\ k \in 0..255
    OBVIOUS
  <2>4. lolen' = (message.lolen + n) % 256
    BY <1>2, <1>3
  <2> QED BY <2>2, <2>3, <2>4
<1>5. TypeOK'
  <2>1. left' \in Seq(DOMAIN ParameterSize)
    BY <1>3 DEF Measured, Kinds
  <2> QED BY <2>1, <1>1, <1>2, <1>3, <1>4 DEF TypeOK, PacketInv
<1>6. FillInv'
  BY <1>1, <1>2, <1>3, <1>4 DEF FillInv
<1> QED
  BY <1>1, <1>5, <1>6 DEF PacketInv, IdleInv, SentInv, ReceiveInv, HandlerInv, OnlyUnknownResets

\* With no parameter left, the payload is full and no argument is left.
LEMMA OutputKeeps ==
  ASSUME PacketInv, Output
  PROVE  PacketInv'
<1>1. /\ step = "fill" /\ left = <<>> /\ step' = "sent"
      /\ message' = message /\ left' = left /\ args' = args /\ filled' = filled
      /\ lolen' = lolen /\ dataLen' = dataLen
  BY DEF Output
<1>2. /\ CommandRow(message) /\ Measured(<<>>, message.lolen - filled, args)
      /\ lolen = message.lolen + dataLen
  BY <1>1 DEF PacketInv, FillInv
<1>3. message.lolen \in 0..15
  BY <1>2, CommandMeasured
<1>4. message.lolen - filled = 0 /\ args = 0
  BY <1>2, NoParameters DEF Measured
<1>5. filled = message.lolen
  <2>1. filled \in Nat
    BY DEF PacketInv, TypeOK
  <2> QED BY <2>1, <1>3, <1>4
<1>6. SentInv'
  BY <1>1, <1>2, <1>4, <1>5 DEF SentInv
<1>7. TypeOK'
  BY <1>1 DEF TypeOK, PacketInv
<1> QED
  BY <1>1, <1>6, <1>7 DEF PacketInv, IdleInv, FillInv, ReceiveInv, HandlerInv, OnlyUnknownResets

\* What the module announces of a message holds its fixed payload.
LEMMA ReadHeaderKeeps ==
  ASSUME PacketInv, ReadHeader
  PROVE  PacketInv'
<1>1. PICK p \in Headers :
        /\ message' = p
        /\ IF Matching(p) = {} THEN lolen' \in 0..MAX_PAYLOAD
           ELSE lolen' \in {n \in PayloadLens(p) : n <= MAX_PAYLOAD}
        /\ step' = IF lolen' = 0 THEN "find" ELSE "payload"
  BY DEF ReadHeader
<1>2. /\ step = "idle" /\ filled = 0
      /\ left' = left /\ args' = args /\ filled' = filled /\ dataLen' = dataLen
  BY DEF ReadHeader, PacketInv, IdleInv
<1>3. lolen' \in 0..MAX_PAYLOAD /\ lolen' \in 0..255
  <2>1. MAX_PAYLOAD \in 16..236
    BY PacketsAssumption
  <2>2. CASE Matching(p) = {}
    BY <2>1, <2>2, <1>1
  <2>3. CASE Matching(p) # {}
    <3>1. lolen' \in PayloadLens(p) /\ lolen' <= MAX_PAYLOAD
      BY <2>3, <1>1
    <3>2. lolen' \in Nat
      BY <3>1, PayloadLong
    <3> QED BY <2>1, <3>1, <3>2
  <2> QED BY <2>2, <2>3
<1>4. TypeOK'
  BY <1>1, <1>2, <1>3 DEF TypeOK, PacketInv
<1>5. Matching(message') # {} => lolen' \in PayloadLens(message')
  BY <1>1
<1>6. ReceiveInv'
  BY <1>1, <1>2, <1>3, <1>5 DEF ReceiveInv, PayloadLens, Matching
<1>7. step' \in {"find", "payload"}
  BY <1>1
<1> QED
  BY <1>4, <1>6, <1>7 DEF PacketInv, IdleInv, FillInv, SentInv, HandlerInv, OnlyUnknownResets

\* The payload is read whole.
LEMMA ReadPayloadKeeps ==
  ASSUME PacketInv, ReadPayload
  PROVE  PacketInv'
<1>1. /\ step = "payload" /\ step' = "find" /\ filled' = lolen
      /\ message' = message /\ left' = left /\ args' = args
      /\ lolen' = lolen /\ dataLen' = dataLen
  BY DEF ReadPayload
<1>2. /\ message \in Headers /\ lolen \in 0..MAX_PAYLOAD
      /\ Matching(message) # {} => lolen \in PayloadLens(message)
  BY <1>1 DEF PacketInv, ReceiveInv
<1>3. TypeOK'
  BY <1>1, <1>2 DEF TypeOK, PacketInv
<1>4. ReceiveInv'
  BY <1>1, <1>2 DEF ReceiveInv, PayloadLens, Matching
<1> QED
  BY <1>1, <1>3, <1>4 DEF PacketInv, IdleInv, FillInv, SentInv, HandlerInv, OnlyUnknownResets

\* The handler that is found by position is the message's, and was sent enough.
LEMMA FindKeeps ==
  ASSUME PacketInv, Find
  PROVE  PacketInv'
<1>1. /\ step = "find" /\ step' = "handler"
      /\ left' = left /\ args' = args /\ filled' = filled
      /\ lolen' = lolen /\ dataLen' = dataLen
  BY DEF Find
<1>2. PICK m \in GetMsgHdr(message) : message' = m
  BY DEF Find
<1>3. /\ message \in Headers /\ filled = lolen
      /\ Matching(message) # {} => lolen \in PayloadLens(message)
  BY <1>1 DEF PacketInv, ReceiveInv
<1>4. ModuleRow(m) /\ Matching(m) = {m} /\ Matching(message) = {m}
  BY <1>2, <1>3, FoundRow
<1>5. m.lolen <= filled
  <2>1. lolen \in PayloadLens(message)
    BY <1>3, <1>4
  <2>2. \E k \in Matching(message) : k.lolen <= lolen
    BY <2>1, <1>3, PayloadLong
  <2> QED BY <2>2, <1>3, <1>4
<1>6. m \in {apis[i] : i \in DOMAIN apis}
  BY <1>4, ModuleMeasured
<1>7. TypeOK'
  BY <1>1, <1>2, <1>6 DEF TypeOK, PacketInv
<1>8. HandlerInv'
  <2>1. Matching(message') = {message'}
    BY <1>2, <1>4
  <2> QED BY <2>1, <1>1, <1>2, <1>4, <1>5 DEF HandlerInv, Matching, ModuleRow
<1> QED
  BY <1>1, <1>7, <1>8 DEF PacketInv, IdleInv, FillInv, SentInv, ReceiveInv, OnlyUnknownResets

\* What is not found by position matches no row.
LEMMA NotFoundKeeps ==
  ASSUME PacketInv, NotFound
  PROVE  PacketInv'
<1>1. /\ step = "find" /\ GetMsgHdr(message) = {} /\ step' = "unknown"
      /\ message' = message /\ left' = left /\ args' = args /\ filled' = filled
      /\ lolen' = lolen /\ dataLen' = dataLen
  BY DEF NotFound
<1>2. message \in Headers
  BY <1>1 DEF PacketInv, ReceiveInv
<1>3. Matching(message) = {}
  BY <1>1, <1>2, FoundRow
<1>4. TypeOK'
  BY <1>1 DEF TypeOK, PacketInv
<1>5. OnlyUnknownResets'
  BY <1>1, <1>3 DEF OnlyUnknownResets, Matching
<1> QED
  BY <1>1, <1>4, <1>5 DEF PacketInv, IdleInv, FillInv, SentInv, ReceiveInv, HandlerInv

-----------------------------------------------------------------------------
(* The theorems.                                                           *)

\* The invariant holds at first, and every step keeps it.
LEMMA PacketInvHolds == Spec => []PacketInv
<1>1. Init => PacketInv
  <2> SUFFICES ASSUME Init
               PROVE  PacketInv
    OBVIOUS
  <2>1. TypeOK
    <3>1. <<>> \in Seq(DOMAIN ParameterSize)
      OBVIOUS
    <3>2. 0 \in 0..MAX_PAYLOAD
      BY PacketsAssumption
    <3> QED BY <3>1, <3>2 DEF Init, TypeOK
  <2> QED
    BY <2>1 DEF Init, PacketInv, IdleInv, FillInv, SentInv, ReceiveInv, HandlerInv,
                OnlyUnknownResets
<1>2. PacketInv /\ [Next]_vars => PacketInv'
  <2> SUFFICES ASSUME PacketInv, [Next]_vars
               PROVE  PacketInv'
    OBVIOUS
  <2>1. CASE Call
    BY <2>1, CallKeeps
  <2>2. CASE FillFixed
    BY <2>2, FillFixedKeeps
  <2>3. CASE FillArray
    BY <2>3, FillArrayKeeps
  <2>4. CASE Output
    BY <2>4, OutputKeeps
  <2>5. CASE Sent \/ PayloadTimeout \/ Return
    BY <2>5, RestKeeps DEF Sent, PayloadTimeout, Return
  <2>6. CASE ReadHeader
    BY <2>6, ReadHeaderKeeps
  <2>7. CASE ReadPayload
    BY <2>7, ReadPayloadKeeps
  <2>8. CASE Find
    BY <2>8, FindKeeps
  <2>9. CASE NotFound
    BY <2>9, NotFoundKeeps
  <2>10. CASE UNCHANGED vars
    BY <2>10 DEF vars, PacketInv, TypeOK, IdleInv, FillInv, SentInv, ReceiveInv, HandlerInv,
                 OnlyUnknownResets, Matching, PayloadLens, CommandRow, ModuleRow, Measured
  <2> QED
    BY <2>1, <2>2, <2>3, <2>4, <2>5, <2>6, <2>7, <2>8, <2>9, <2>10 DEF Next
<1> QED BY <1>1, <1>2, PTL DEF Spec

\* The types; an argument the macro did not pass is never taken, and nothing is
\* filled beyond the payload (ble_send_message(), ble_process_packet()).
THEOREM PacketTypes == Spec => []TypeOK
<1>1. PacketInv => TypeOK
  BY DEF PacketInv
<1> QED BY <1>1, PacketInvHolds, PTL

\* Every command goes out whole: what uart_tx() announces is what was filled,
\* and what the header says (ble_send_message()).
THEOREM CommandsGoWhole == Spec => []CommandWhole
<1>1. PacketInv => CommandWhole
  <2> SUFFICES ASSUME PacketInv, step = "sent"
               PROVE  /\ args = 0
                      /\ filled = StructBytes(message)
                      /\ Announced = HEADER_LEN + filled + dataLen
                      /\ lolen = filled + dataLen
    BY DEF CommandWhole
  <2>1. /\ CommandRow(message) /\ args = 0 /\ filled = message.lolen
        /\ lolen = filled + dataLen
    BY DEF PacketInv, SentInv
  <2>2. message.lolen \in 0..15 /\ StructBytes(message) = message.lolen
    BY <2>1, CommandMeasured
  <2>3. Announced = HEADER_LEN + filled + dataLen
    <3>1. dataLen \in 0..236
      BY PacketsAssumption DEF PacketInv, TypeOK
    <3>2. 4 + filled + dataLen \in 0..255
      <4>1. \A f \in 0..15, d \in 0..236 : 4 + f + d \in 0..255
        OBVIOUS
      <4> QED BY <4>1, <3>1, <2>1, <2>2
    <3>3. \A k \in 0..255 : k % 256 = k
      OBVIOUS
    <3> QED BY <3>2, <3>3, <2>1 DEF Announced, HEADER_LEN
  <2> QED BY <2>1, <2>2, <2>3
<1> QED BY <1>1, PacketInvHolds, PTL

\* Every message that is read reaches its own handler, with at least the bytes
\* the handler takes it to have (ble_process_packet(), ble_get_msg_hdr()).
THEOREM HandlersFit == Spec => []HandlerFits
<1>1. PacketInv => HandlerFits
  <2> SUFFICES ASSUME PacketInv, step = "handler"
               PROVE  /\ {message} = Matching(message)
                      /\ Handled(message) <=> ~Stub(message)
                      /\ StructBytes(message) <= filled
    BY DEF HandlerFits
  <2>1. ModuleRow(message) /\ Matching(message) = {message} /\ message.lolen <= filled
    BY DEF PacketInv, HandlerInv
  <2> QED BY <2>1, ModuleMeasured
<1> QED BY <1>1, PacketInvHolds, PTL

\* Only a header that no message of the module has resets the MCU
\* (ble_get_msg_hdr(), main()).
THEOREM OnlyUnknownReset == Spec => []OnlyUnknownResets
<1>1. PacketInv => OnlyUnknownResets
  BY DEF PacketInv
<1> QED BY <1>1, PacketInvHolds, PTL
=============================================================================
