--------------------------- MODULE PayloadProofs ---------------------------
(***************************************************************************)
(* Theorems about the payload codec and the polled machine.  A field is    *)
(* followed bit by bit from its weight to its position and back; the       *)
(* checksum is the last of 23 registers, and the registers of a disturbed  *)
(* payload differ from the undisturbed ones by registers that only the     *)
(* noise determines; a number is recovered from its weights one at a time. *)
(* Recursive functions are reasoned about by climbing an interval, which   *)
(* well-founded induction on the numbers gives.                            *)
(***************************************************************************)
EXTENDS Sensor, WellFoundedInduction, TLAPS

-----------------------------------------------------------------------------
(* Where the bits of a field are.                                          *)

\* The position of weight 0 of a field, and its width.
First(f) == Layout[f][1]
Width(f) == Layout[f][2]
Last(f) == First(f) + Width(f) - 1

\* The fields by name.
LEMMA Fields ==
    Field = {"state", "pallet_id", "wrap_time", "wrap_transit", "rotations", "program",
             "perimeter", "running", "alarm", "timestamp", "seq_number", "device_id"}
BY DEF Field, CType

\* Every field lies within the 184 data bits.
LEMMA LayoutInside ==
    ASSUME NEW f \in Field
    PROVE  /\ First(f) \in Nat /\ Width(f) \in Nat /\ Last(f) \in Nat /\ Width(f) > 0
           /\ Last(f) < 184 /\ Offset(f) = 183 - Last(f)
BY Fields DEF Layout, First, Last, Width, Offset, PAYLOAD_DATA

\* No two fields share a bit.
LEMMA FieldsApart ==
    ASSUME NEW f \in Field, NEW g \in Field, f # g
    PROVE  Last(f) < First(g) \/ Last(g) < First(f)
BY Fields DEF Layout, First, Last, Width

\* A set of terms <<byte, right, width, left>> of the packer that takes each
\* weight of a field once to its place.
Places(terms, f) ==
    /\ \A t \in terms :
          /\ t[1] \in Int /\ t[2] \in Int /\ t[3] \in Int /\ t[4] \in Int
          /\ 8 * t[1] + 7 + t[2] - t[4] = Last(f)
    /\ \A w \in Int : w \in 0 .. Width(f) - 1 <=> \E t \in terms : w \in t[2] .. t[2] + t[3] - 1

\* Each row of the C packer's table takes the weights of its field to where Layout
\* puts them.
LEMMA PackTermsPlace ==
    ASSUME NEW f \in Field
    PROVE  Places(PackTerms[f], f)
<1>1. CASE f = "state"
  <2>1. PackTerms[f] = {<<0, 0, 7, 1>>}
    BY <1>1 DEF PackTerms
  <2>2. First(f) = 0 /\ Width(f) = 7 /\ Last(f) = 6
    BY <1>1 DEF First, Width, Last, Layout
  <2>3. QED
    BY <2>1, <2>2 DEF Places
<1>2. CASE f = "pallet_id"
  <2>1. PackTerms[f] = {<<0, 17, 1, 0>>, <<1, 9, 8, 0>>, <<2, 1, 8, 0>>, <<3, 0, 1, 7>>}
    BY <1>2 DEF PackTerms
  <2>2. First(f) = 7 /\ Width(f) = 18 /\ Last(f) = 24
    BY <1>2 DEF First, Width, Last, Layout
  <2>3. QED
    BY <2>1, <2>2 DEF Places
<1>3. CASE f = "wrap_time"
  <2>1. PackTerms[f] = {<<3, 9, 7, 0>>, <<4, 1, 8, 0>>, <<5, 0, 1, 7>>}
    BY <1>3 DEF PackTerms
  <2>2. First(f) = 25 /\ Width(f) = 16 /\ Last(f) = 40
    BY <1>3 DEF First, Width, Last, Layout
  <2>3. QED
    BY <2>1, <2>2 DEF Places
<1>4. CASE f = "wrap_transit"
  <2>1. PackTerms[f] = {<<5, 9, 7, 0>>, <<6, 1, 8, 0>>, <<7, 0, 1, 7>>}
    BY <1>4 DEF PackTerms
  <2>2. First(f) = 41 /\ Width(f) = 16 /\ Last(f) = 56
    BY <1>4 DEF First, Width, Last, Layout
  <2>3. QED
    BY <2>1, <2>2 DEF Places
<1>5. CASE f = "rotations"
  <2>1. PackTerms[f] = {<<7, 5, 7, 0>>, <<8, 0, 5, 3>>}
    BY <1>5 DEF PackTerms
  <2>2. First(f) = 57 /\ Width(f) = 12 /\ Last(f) = 68
    BY <1>5 DEF First, Width, Last, Layout
  <2>3. QED
    BY <2>1, <2>2 DEF Places
<1>6. CASE f = "program"
  <2>1. PackTerms[f] = {<<8, 5, 3, 0>>, <<9, 0, 5, 3>>}
    BY <1>6 DEF PackTerms
  <2>2. First(f) = 69 /\ Width(f) = 8 /\ Last(f) = 76
    BY <1>6 DEF First, Width, Last, Layout
  <2>3. QED
    BY <2>1, <2>2 DEF Places
<1>7. CASE f = "perimeter"
  <2>1. PackTerms[f] = {<<9, 13, 3, 0>>, <<10, 5, 8, 0>>, <<11, 0, 5, 3>>}
    BY <1>7 DEF PackTerms
  <2>2. First(f) = 77 /\ Width(f) = 16 /\ Last(f) = 92
    BY <1>7 DEF First, Width, Last, Layout
  <2>3. QED
    BY <2>1, <2>2 DEF Places
<1>8. CASE f = "running"
  <2>1. PackTerms[f] = {<<11, 14, 3, 0>>, <<12, 6, 8, 0>>, <<13, 0, 6, 2>>}
    BY <1>8 DEF PackTerms
  <2>2. First(f) = 93 /\ Width(f) = 17 /\ Last(f) = 109
    BY <1>8 DEF First, Width, Last, Layout
  <2>3. QED
    BY <2>1, <2>2 DEF Places
<1>9. CASE f = "alarm"
  <2>1. PackTerms[f] = {<<13, 15, 2, 0>>, <<14, 7, 8, 0>>, <<15, 0, 7, 1>>}
    BY <1>9 DEF PackTerms
  <2>2. First(f) = 110 /\ Width(f) = 17 /\ Last(f) = 126
    BY <1>9 DEF First, Width, Last, Layout
  <2>3. QED
    BY <2>1, <2>2 DEF Places
<1>10. CASE f = "timestamp"
  <2>1. PackTerms[f] = {<<15, 31, 1, 0>>, <<16, 23, 8, 0>>, <<17, 15, 8, 0>>, <<18, 7, 8, 0>>,
                        <<19, 0, 7, 1>>}
    BY <1>10 DEF PackTerms
  <2>2. First(f) = 127 /\ Width(f) = 32 /\ Last(f) = 158
    BY <1>10 DEF First, Width, Last, Layout
  <2>3. QED
    BY <2>1, <2>2 DEF Places
<1>11. CASE f = "seq_number"
  <2>1. PackTerms[f] = {<<19, 15, 1, 0>>, <<20, 7, 8, 0>>, <<21, 0, 7, 1>>}
    BY <1>11 DEF PackTerms
  <2>2. First(f) = 159 /\ Width(f) = 16 /\ Last(f) = 174
    BY <1>11 DEF First, Width, Last, Layout
  <2>3. QED
    BY <2>1, <2>2 DEF Places
<1>12. CASE f = "device_id"
  <2>1. PackTerms[f] = {<<21, 7, 1, 0>>, <<22, 0, 7, 1>>}
    BY <1>12 DEF PackTerms
  <2>2. First(f) = 175 /\ Width(f) = 8 /\ Last(f) = 182
    BY <1>12 DEF First, Width, Last, Layout
  <2>3. QED
    BY <2>1, <2>2 DEF Places
<1> QED
    BY <1>1, <1>2, <1>3, <1>4, <1>5, <1>6, <1>7, <1>8, <1>9, <1>10, <1>11, <1>12, Fields

\* The same of the terms of the unpacker, which start from the bits of a byte.
Takes(terms, f) ==
    /\ \A t \in terms :
          /\ t[1] \in Int /\ t[2] \in 0 .. 7 /\ t[3] \in 1 .. 8 /\ t[4] \in Int
          /\ t[2] + t[3] <= 8
          /\ 8 * t[1] + 7 - t[2] + t[4] = Last(f)
    /\ \A p \in Int : p \in First(f) .. Last(f) <=>
          \E t \in terms : p \in 8 * t[1] + 8 - t[2] - t[3] .. 8 * t[1] + 7 - t[2]

\* Each row of the unpacker's table takes the bits of its field and no others.
LEMMA UnpackTermsTake ==
    ASSUME NEW f \in Field
    PROVE  Takes(UnpackTerms[f], f)
<1>1. CASE f = "state"
  <2>1. UnpackTerms[f] = {<<0, 1, 7, 0>>}
    BY <1>1 DEF UnpackTerms
  <2>2. First(f) = 0 /\ Width(f) = 7 /\ Last(f) = 6
    BY <1>1 DEF First, Width, Last, Layout
  <2>3. QED
    BY <2>1, <2>2 DEF Takes
<1>2. CASE f = "pallet_id"
  <2>1. UnpackTerms[f] = {<<0, 0, 1, 17>>, <<1, 0, 8, 9>>, <<2, 0, 8, 1>>, <<3, 7, 1, 0>>}
    BY <1>2 DEF UnpackTerms
  <2>2. First(f) = 7 /\ Width(f) = 18 /\ Last(f) = 24
    BY <1>2 DEF First, Width, Last, Layout
  <2>3. QED
    BY <2>1, <2>2 DEF Takes
<1>3. CASE f = "wrap_time"
  <2>1. UnpackTerms[f] = {<<3, 0, 7, 9>>, <<4, 0, 8, 1>>, <<5, 7, 1, 0>>}
    BY <1>3 DEF UnpackTerms
  <2>2. First(f) = 25 /\ Width(f) = 16 /\ Last(f) = 40
    BY <1>3 DEF First, Width, Last, Layout
  <2>3. QED
    BY <2>1, <2>2 DEF Takes
<1>4. CASE f = "wrap_transit"
  <2>1. UnpackTerms[f] = {<<5, 0, 7, 9>>, <<6, 0, 8, 1>>, <<7, 7, 1, 0>>}
    BY <1>4 DEF UnpackTerms
  <2>2. First(f) = 41 /\ Width(f) = 16 /\ Last(f) = 56
    BY <1>4 DEF First, Width, Last, Layout
  <2>3. QED
    BY <2>1, <2>2 DEF Takes
<1>5. CASE f = "rotations"
  <2>1. UnpackTerms[f] = {<<7, 0, 7, 5>>, <<8, 3, 5, 0>>}
    BY <1>5 DEF UnpackTerms
  <2>2. First(f) = 57 /\ Width(f) = 12 /\ Last(f) = 68
    BY <1>5 DEF First, Width, Last, Layout
  <2>3. QED
    BY <2>1, <2>2 DEF Takes
<1>6. CASE f = "program"
  <2>1. UnpackTerms[f] = {<<8, 0, 3, 5>>, <<9, 3, 5, 0>>}
    BY <1>6 DEF UnpackTerms
  <2>2. First(f) = 69 /\ Width(f) = 8 /\ Last(f) = 76
    BY <1>6 DEF First, Width, Last, Layout
  <2>3. QED
    BY <2>1, <2>2 DEF Takes
<1>7. CASE f = "perimeter"
  <2>1. UnpackTerms[f] = {<<9, 0, 3, 13>>, <<10, 0, 8, 5>>, <<11, 3, 5, 0>>}
    BY <1>7 DEF UnpackTerms
  <2>2. First(f) = 77 /\ Width(f) = 16 /\ Last(f) = 92
    BY <1>7 DEF First, Width, Last, Layout
  <2>3. QED
    BY <2>1, <2>2 DEF Takes
<1>8. CASE f = "running"
  <2>1. UnpackTerms[f] = {<<11, 0, 3, 14>>, <<12, 0, 8, 6>>, <<13, 2, 6, 0>>}
    BY <1>8 DEF UnpackTerms
  <2>2. First(f) = 93 /\ Width(f) = 17 /\ Last(f) = 109
    BY <1>8 DEF First, Width, Last, Layout
  <2>3. QED
    BY <2>1, <2>2 DEF Takes
<1>9. CASE f = "alarm"
  <2>1. UnpackTerms[f] = {<<13, 0, 2, 15>>, <<14, 0, 8, 7>>, <<15, 1, 7, 0>>}
    BY <1>9 DEF UnpackTerms
  <2>2. First(f) = 110 /\ Width(f) = 17 /\ Last(f) = 126
    BY <1>9 DEF First, Width, Last, Layout
  <2>3. QED
    BY <2>1, <2>2 DEF Takes
<1>10. CASE f = "timestamp"
  <2>1. UnpackTerms[f] = {<<15, 0, 1, 31>>, <<16, 0, 8, 23>>, <<17, 0, 8, 15>>, <<18, 0, 8, 7>>,
                          <<19, 1, 7, 0>>}
    BY <1>10 DEF UnpackTerms
  <2>2. First(f) = 127 /\ Width(f) = 32 /\ Last(f) = 158
    BY <1>10 DEF First, Width, Last, Layout
  <2>3. QED
    BY <2>1, <2>2 DEF Takes
<1>11. CASE f = "seq_number"
  <2>1. UnpackTerms[f] = {<<19, 0, 1, 15>>, <<20, 0, 8, 7>>, <<21, 1, 7, 0>>}
    BY <1>11 DEF UnpackTerms
  <2>2. First(f) = 159 /\ Width(f) = 16 /\ Last(f) = 174
    BY <1>11 DEF First, Width, Last, Layout
  <2>3. QED
    BY <2>1, <2>2 DEF Takes
<1>12. CASE f = "device_id"
  <2>1. UnpackTerms[f] = {<<21, 0, 1, 7>>, <<22, 1, 7, 0>>}
    BY <1>12 DEF UnpackTerms
  <2>2. First(f) = 175 /\ Width(f) = 8 /\ Last(f) = 182
    BY <1>12 DEF First, Width, Last, Layout
  <2>3. QED
    BY <2>1, <2>2 DEF Takes
<1> QED
    BY <1>1, <1>2, <1>3, <1>4, <1>5, <1>6, <1>7, <1>8, <1>9, <1>10, <1>11, <1>12, Fields

-----------------------------------------------------------------------------
(* Both packers put every weight of a field at the same place.             *)

\* The positions of the bits of a field that holds bits.
FieldBits(bits, f) == {Last(f) - w : w \in bits \cap (0 .. Width(f) - 1)}

\* The data bits of a reading.
Data(r) == UNION {FieldBits(r[f], f) : f \in Field}

\* One term of the packer reverses and moves the weights it takes.
LEMMA TermPlaces ==
    ASSUME NEW bits, NEW byte \in Int, NEW right \in Int, NEW width \in Int, NEW left \in Int
    PROVE  \A p : p \in PlacedAt(Moved(bits, right, width, left), byte) <=>
               \E w \in bits \cap (right .. right + width - 1) :
                   p = 8 * byte + 7 + right - left - w
<1>1. \A w \in right .. right + width - 1 :
          8 * byte + 7 - (w - right + left) = 8 * byte + 7 + right - left - w
    OBVIOUS
<1>2. QED
    BY <1>1 DEF PlacedAt, Moved

\* The terms of a field together place its bits.
LEMMA TermsPlace ==
    ASSUME NEW bits, NEW f \in Field, NEW terms, Places(terms, f)
    PROVE  UNION {PlacedAt(Moved(bits, t[2], t[3], t[4]), t[1]) : t \in terms}
               = FieldBits(bits, f)
<1> DEFINE part(t) == PlacedAt(Moved(bits, t[2], t[3], t[4]), t[1])
<1>1. \A t \in terms : \A p : p \in part(t) <=>
          \E w \in bits \cap (t[2] .. t[2] + t[3] - 1) : p = Last(f) - w
  <2>1. TAKE t \in terms
  <2>2. /\ t[1] \in Int /\ t[2] \in Int /\ t[3] \in Int /\ t[4] \in Int
        /\ 8 * t[1] + 7 + t[2] - t[4] = Last(f)
    BY DEF Places
  <2>3. \A p : p \in part(t) <=>
            \E w \in bits \cap (t[2] .. t[2] + t[3] - 1) : p = 8 * t[1] + 7 + t[2] - t[4] - w
    BY <2>2, TermPlaces
  <2>4. QED
    BY <2>2, <2>3
<1>2. \A w \in Int : w \in 0 .. Width(f) - 1 <=> \E t \in terms : w \in t[2] .. t[2] + t[3] - 1
    BY DEF Places
<1>3. \A p : p \in FieldBits(bits, f) <=>
          \E w \in bits \cap (0 .. Width(f) - 1) : p = Last(f) - w
    BY DEF FieldBits
<1>4. \A t \in terms : t[2] \in Int /\ t[3] \in Int
    BY DEF Places
<1>5. \A t \in terms : \A w \in t[2] .. t[2] + t[3] - 1 : w \in 0 .. Width(f) - 1
    BY <1>2, <1>4
<1>6. \A w \in 0 .. Width(f) - 1 : \E t \in terms : w \in t[2] .. t[2] + t[3] - 1
    BY <1>2, LayoutInside
<1> HIDE DEF part
<1>7. \A p : p \in UNION {part(t) : t \in terms} <=> p \in FieldBits(bits, f)
  <2>1. TAKE p
  <2>2. ASSUME p \in UNION {part(t) : t \in terms} PROVE p \in FieldBits(bits, f)
    <3>1. PICK t \in terms : p \in part(t)
      BY <2>2
    <3>2. PICK w \in bits \cap (t[2] .. t[2] + t[3] - 1) : p = Last(f) - w
      BY <1>1, <3>1
    <3>3. w \in bits \cap (0 .. Width(f) - 1)
      BY <1>5, <3>2
    <3>4. QED
      BY <1>3, <3>2, <3>3
  <2>3. ASSUME p \in FieldBits(bits, f) PROVE p \in UNION {part(t) : t \in terms}
    <3>1. PICK w \in bits \cap (0 .. Width(f) - 1) : p = Last(f) - w
      BY <1>3, <2>3
    <3>2. PICK t \in terms : w \in t[2] .. t[2] + t[3] - 1
      BY <1>6, <3>1
    <3>3. p \in part(t)
      BY <1>1, <3>1, <3>2
    <3>4. QED
      BY <3>3
  <2>4. QED
    BY <2>2, <2>3
<1>8. QED
    BY <1>7 DEF part

\* The data bits of the C packer are the fields laid out one after the other.
LEMMA PackedData ==
    ASSUME NEW r
    PROVE  PackPayload(r) = Sealed(Data(r), crc16(Data(r)))
<1> DEFINE part(f) ==
               UNION {PlacedAt(Moved(r[f], t[2], t[3], t[4]), t[1]) : t \in PackTerms[f]}
<1>1. \A f \in Field : part(f) = FieldBits(r[f], f)
    BY PackTermsPlace, TermsPlace
<1>2. {part(f) : f \in Field} = {FieldBits(r[f], f) : f \in Field}
  <2> HIDE DEF part
  <2>1. QED
    BY <1>1
<1>3. PackPayload(r) = LET data == UNION {part(f) : f \in Field} IN Sealed(data, crc16(data))
    BY DEF PackPayload, Packed
<1>4. QED
  <2> HIDE DEF part
  <2>1. QED
    BY <1>2, <1>3 DEF Data

\* The 184-bit integer of the cloud's packer, read from its other end.
LEMMA PackedPyData ==
    ASSUME NEW r
    PROVE  PackPy(r) = Sealed(Data(r), Crc16Py(Data(r)))
<1> DEFINE moved(f) == Moved(r[f], 0, Layout[f][2], Offset(f))
           bits == UNION {moved(f) : f \in Field}
           data == {8 * PAYLOAD_DATA - 1 - w : w \in bits}
<1>1. \A f \in Field : \A p : p \in FieldBits(r[f], f) <=> \E v \in moved(f) : p = 183 - v
  <2>1. TAKE f \in Field
  <2>2. /\ Width(f) \in Nat /\ Last(f) \in Nat /\ Offset(f) = 183 - Last(f)
    BY LayoutInside
  <2>3. \A w \in 0 .. Width(f) - 1 : 183 - (w - 0 + Offset(f)) = Last(f) - w
    BY <2>2
  <2>4. \A v : v \in moved(f) <=>
            \E w \in r[f] \cap (0 .. Width(f) - 1) : v = w - 0 + Offset(f)
    BY <2>2 DEF Moved, Width
  <2>5. QED
    BY <2>3, <2>4 DEF FieldBits
<1>2. \A p : p \in data <=> \E f \in Field : \E v \in moved(f) : p = 183 - v
  <2>1. 8 * PAYLOAD_DATA - 1 = 183
    BY DEF PAYLOAD_DATA
  <2> HIDE DEF moved
  <2>2. QED
    BY <2>1
<1>3. \A p : p \in Data(r) <=> \E f \in Field : p \in FieldBits(r[f], f)
    BY DEF Data
<1>4. data = Data(r)
  <2> HIDE DEF data, moved
  <2>1. \A p : p \in data <=> p \in Data(r)
    BY <1>1, <1>2, <1>3
  <2>2. QED
    BY <2>1
<1>5. QED
    BY <1>4 DEF PackPy

-----------------------------------------------------------------------------
(* Both unpackers read a field from where the packers put it.              *)

\* The bits that stand at the place of a field.
Window(bits, f) == {Last(f) - p : p \in bits \cap (First(f) .. Last(f))}

\* What parse extracts of a field is its window of the bits.
LEMMA ExtractsWindow ==
    ASSUME NEW bits, NEW f \in Field
    PROVE  Extract(bits, f) = Window(bits, f)
<1> DEFINE ints == {183 - p : p \in bits \cap DataBits}
<1>1. /\ First(f) \in Nat /\ Last(f) \in Nat /\ Last(f) < 184 /\ Width(f) \in Nat
      /\ Offset(f) = 183 - Last(f) /\ Last(f) = First(f) + Width(f) - 1
    BY LayoutInside DEF Last
<1>2. 8 * PAYLOAD_DATA - 1 = 183
    BY DEF PAYLOAD_DATA
<1>3. DataBits = 0 .. 183
  <2>1. DataBits = 0 .. 8 * PAYLOAD_DATA - 1
    BY DEF DataBits
  <2>2. QED
    BY <1>2, <2>1
<1>4. Extract(bits, f) = Moved(ints, Offset(f), Width(f), 0)
    BY <1>2 DEF Extract, Width
<1>5. \A v : v \in Extract(bits, f) <=>
          \E w \in ints \cap (Offset(f) .. Offset(f) + Width(f) - 1) : v = w - Offset(f) + 0
    BY <1>4 DEF Moved
<1>6. \A w : w \in ints <=> \E p \in bits \cap (0 .. 183) : w = 183 - p
    BY <1>3
<1> HIDE DEF ints
<1>7. \A v : v \in Extract(bits, f) <=> v \in Window(bits, f)
  <2>1. TAKE v
  <2>2. ASSUME v \in Extract(bits, f) PROVE v \in Window(bits, f)
    <3>1. PICK w \in ints \cap (Offset(f) .. Offset(f) + Width(f) - 1) : v = w - Offset(f) + 0
      BY <1>5, <2>2
    <3>2. PICK p \in bits \cap (0 .. 183) : w = 183 - p
      BY <1>6, <3>1
    <3>3. p \in First(f) .. Last(f) /\ v = Last(f) - p
      BY <1>1, <3>1, <3>2
    <3>4. QED
      BY <3>2, <3>3 DEF Window
  <2>3. ASSUME v \in Window(bits, f) PROVE v \in Extract(bits, f)
    <3>1. PICK p \in bits \cap (First(f) .. Last(f)) : v = Last(f) - p
      BY <2>3 DEF Window
    <3>2. p \in bits \cap (0 .. 183)
      <4>1. p \in bits /\ p \in Int /\ First(f) <= p /\ p <= Last(f)
        BY <1>1
      <4>2. p \in 0 .. 183
        BY <1>1, <4>1
      <4>3. QED
        BY <4>1, <4>2
    <3>3. 183 - p \in ints
      BY <1>6, <3>2
    <3>4. 183 - p \in Offset(f) .. Offset(f) + Width(f) - 1 /\ v = 183 - p - Offset(f) + 0
      BY <1>1, <3>1
    <3>5. QED
      BY <1>5, <3>3, <3>4
  <2>4. QED
    BY <2>2, <2>3
<1>8. QED
    BY <1>7 DEF Extract, Moved, Window

\* One term of the unpacker reverses and moves the bits of its part of a byte.
LEMMA TermTakes ==
    ASSUME NEW bits, NEW byte \in Int, NEW right \in 0 .. 7, NEW width \in 1 .. 8,
           NEW left \in Int, right + width <= 8
    PROVE  \A v : v \in Moved(ByteAt(bits, byte), right, width, left) <=>
               \E p \in bits \cap (8 * byte + 8 - right - width .. 8 * byte + 7 - right) :
                   v = 8 * byte + 7 - right + left - p
<1>1. \A p \in (8 * byte) .. (8 * byte) + 7 : p % 8 = p - 8 * byte
  <2>1. TAKE p \in (8 * byte) .. (8 * byte) + 7
  <2>2. p \in Int /\ p - 8 * byte \in 0 .. 7 /\ p = 8 * byte + (p - 8 * byte)
    OBVIOUS
  <2>3. QED
    BY <2>2
<1>2. \A w : w \in ByteAt(bits, byte) <=>
          \E p \in bits \cap ((8 * byte) .. (8 * byte) + 7) : w = 7 - (p - 8 * byte)
    BY <1>1 DEF ByteAt
<1>3. \A v : v \in Moved(ByteAt(bits, byte), right, width, left) <=>
          \E w \in ByteAt(bits, byte) \cap (right .. right + width - 1) : v = w - right + left
    BY DEF Moved
<1>4. TAKE v
<1>5. ASSUME v \in Moved(ByteAt(bits, byte), right, width, left)
      PROVE  \E p \in bits \cap (8 * byte + 8 - right - width .. 8 * byte + 7 - right) :
                   v = 8 * byte + 7 - right + left - p
  <2>1. PICK w \in ByteAt(bits, byte) \cap (right .. right + width - 1) : v = w - right + left
    BY <1>3, <1>5
  <2>2. PICK p \in bits \cap ((8 * byte) .. (8 * byte) + 7) : w = 7 - (p - 8 * byte)
    BY <1>2, <2>1
  <2>3. QED
    BY <2>1, <2>2
<1>6. ASSUME NEW p \in bits \cap (8 * byte + 8 - right - width .. 8 * byte + 7 - right),
             v = 8 * byte + 7 - right + left - p
      PROVE  v \in Moved(ByteAt(bits, byte), right, width, left)
  <2>1. p \in bits \cap ((8 * byte) .. (8 * byte) + 7)
    OBVIOUS
  <2>2. 7 - (p - 8 * byte) \in ByteAt(bits, byte) \cap (right .. right + width - 1)
    BY <1>2, <2>1
  <2>3. v = 7 - (p - 8 * byte) - right + left
    BY <1>6
  <2>4. QED
    BY <1>3, <2>2, <2>3
<1>7. QED
    BY <1>5, <1>6

\* What unpack_payload reads of a field is the same window.
LEMMA UnpacksWindow ==
    ASSUME NEW bits, NEW f \in Field
    PROVE  UnpackPayload(bits)[f] = Window(bits, f)
<1> DEFINE terms == UnpackTerms[f]
           part(t) == Moved(ByteAt(bits, t[1]), t[2], t[3], t[4])
           from(t) == 8 * t[1] + 8 - t[2] - t[3]
           to(t) == 8 * t[1] + 7 - t[2]
<1>1. Takes(terms, f)
    BY UnpackTermsTake
<1>2. UnpackPayload(bits)[f] = UNION {part(t) : t \in terms}
    BY DEF UnpackPayload, Unpacked
<1> HIDE DEF terms
<1>3. \A t \in terms : \A v : v \in part(t) <=>
          \E p \in bits \cap (from(t) .. to(t)) : v = Last(f) - p
  <2>1. TAKE t \in terms
  <2>2. /\ t[1] \in Int /\ t[2] \in 0 .. 7 /\ t[3] \in 1 .. 8 /\ t[4] \in Int
        /\ t[2] + t[3] <= 8
        /\ 8 * t[1] + 7 - t[2] + t[4] = Last(f)
    BY <1>1 DEF Takes
  <2>3. \A v : v \in part(t) <=>
            \E p \in bits \cap (from(t) .. to(t)) : v = 8 * t[1] + 7 - t[2] + t[4] - p
    BY <2>2, TermTakes
  <2>4. QED
    BY <2>2, <2>3
<1>4. /\ \A t \in terms : from(t) \in Int /\ to(t) \in Int
      /\ \A p \in Int : p \in First(f) .. Last(f) <=> \E t \in terms : p \in from(t) .. to(t)
    BY <1>1 DEF Takes
<1>5. First(f) \in Nat /\ Last(f) \in Nat
    BY LayoutInside
<1>6. \A t \in terms : \A p \in from(t) .. to(t) : p \in First(f) .. Last(f)
    BY <1>4
<1>7. \A p \in First(f) .. Last(f) : \E t \in terms : p \in from(t) .. to(t)
    BY <1>4, <1>5
<1>8. \A v : v \in Window(bits, f) <=> \E p \in bits \cap (First(f) .. Last(f)) : v = Last(f) - p
    BY DEF Window
<1> HIDE DEF part, from, to
<1>9. \A v : v \in UNION {part(t) : t \in terms} <=> v \in Window(bits, f)
  <2>1. TAKE v
  <2>2. ASSUME v \in UNION {part(t) : t \in terms} PROVE v \in Window(bits, f)
    <3>1. PICK t \in terms : v \in part(t)
      BY <2>2
    <3>2. PICK p \in bits \cap (from(t) .. to(t)) : v = Last(f) - p
      BY <1>3, <3>1
    <3>3. QED
      BY <1>6, <1>8, <3>2
  <2>3. ASSUME v \in Window(bits, f) PROVE v \in UNION {part(t) : t \in terms}
    <3>1. PICK p \in bits \cap (First(f) .. Last(f)) : v = Last(f) - p
      BY <1>8, <2>3
    <3>2. PICK t \in terms : p \in from(t) .. to(t)
      BY <1>7, <3>1
    <3>3. v \in part(t)
      BY <1>3, <3>1, <3>2
    <3>4. QED
      BY <3>3
  <2>4. QED
    BY <2>2, <2>3
<1>10. UNION {part(t) : t \in terms} = Window(bits, f)
    BY <1>9
<1>11. QED
    BY <1>2, <1>10 DEF part

\* Nothing else is where a field is.
LEMMA WindowOfData ==
    ASSUME NEW r, NEW rest, rest \cap DataBits = {}, NEW f \in Field
    PROVE  Window(Data(r) \cup rest, f) = r[f] \cap (0 .. Width(f) - 1)
<1>1. /\ First(f) \in Nat /\ Last(f) \in Nat /\ Last(f) < 184 /\ Width(f) \in Nat
      /\ Last(f) = First(f) + Width(f) - 1
    BY LayoutInside DEF Last
<1>2. \A p \in First(f) .. Last(f) : p \notin rest
  <2>1. DataBits = 0 .. 183
    BY DEF DataBits, PAYLOAD_DATA
  <2>2. QED
    BY <1>1, <2>1
<1>3. \A p \in First(f) .. Last(f) :
          p \in Data(r) <=> \E w \in r[f] \cap (0 .. Width(f) - 1) : p = Last(f) - w
  <2>1. TAKE p \in First(f) .. Last(f)
  <2>2. p \in FieldBits(r[f], f) <=> \E w \in r[f] \cap (0 .. Width(f) - 1) : p = Last(f) - w
    BY DEF FieldBits
  <2>3. \A g \in Field : p \in FieldBits(r[g], g) => g = f
    <3>1. SUFFICES ASSUME NEW g \in Field, p \in FieldBits(r[g], g), g # f PROVE FALSE
      OBVIOUS
    <3>2. PICK w \in r[g] \cap (0 .. Width(g) - 1) : p = Last(g) - w
      BY <3>1 DEF FieldBits
    <3>3. /\ First(g) \in Nat /\ Last(g) \in Nat /\ Width(g) \in Nat
          /\ Last(g) = First(g) + Width(g) - 1
      BY <3>1, LayoutInside DEF Last
    <3>4. Last(f) < First(g) \/ Last(g) < First(f)
      BY <3>1, FieldsApart
    <3>5. QED
      BY <1>1, <3>2, <3>3, <3>4
  <2>4. p \in Data(r) <=> \E g \in Field : p \in FieldBits(r[g], g)
    BY DEF Data
  <2>5. QED
    BY <2>2, <2>3, <2>4
<1>4. \A w \in 0 .. Width(f) - 1 : Last(f) - w \in First(f) .. Last(f)
    BY <1>1
<1>5. \A v : v \in Window(Data(r) \cup rest, f) <=>
          \E p \in First(f) .. Last(f) : p \in Data(r) /\ v = Last(f) - p
    BY <1>2 DEF Window
<1>6. \A v : v \in Window(Data(r) \cup rest, f) <=> v \in r[f] \cap (0 .. Width(f) - 1)
  <2>1. TAKE v
  <2>2. ASSUME v \in Window(Data(r) \cup rest, f) PROVE v \in r[f] \cap (0 .. Width(f) - 1)
    <3>1. PICK p \in First(f) .. Last(f) : p \in Data(r) /\ v = Last(f) - p
      BY <1>5, <2>2
    <3>2. PICK w \in r[f] \cap (0 .. Width(f) - 1) : p = Last(f) - w
      BY <1>3, <3>1
    <3>3. v = w
      BY <1>1, <3>1, <3>2
    <3>4. QED
      BY <3>2, <3>3
  <2>3. ASSUME v \in r[f] \cap (0 .. Width(f) - 1) PROVE v \in Window(Data(r) \cup rest, f)
    <3>1. Last(f) - v \in First(f) .. Last(f) /\ Last(f) - v \in Data(r)
      BY <1>3, <1>4, <2>3
    <3>2. v = Last(f) - (Last(f) - v)
      BY <1>1, <2>3
    <3>3. QED
      BY <1>5, <3>1, <3>2
  <2>4. QED
    BY <2>2, <2>3
<1>7. QED
    BY <1>6

-----------------------------------------------------------------------------
(* Counting up to a number, and functions defined by doing so.             *)

\* A non-empty set of naturals has a least element.
LEMMA LeastElement ==
    ASSUME NEW T, T \subseteq Nat, T # {}
    PROVE  \E x \in T : \A y \in T : x <= y
<1> DEFINE less == OpToRel(<, Nat)
<1>1. IsWellFoundedOn(less, Nat)
    BY NatLessThanWellFounded
<1>2. PICK x \in T : \A y \in T : ~(<<y, x>> \in less)
  <2> HIDE DEF less
  <2>1. QED
    BY <1>1, WFMin
<1>3. \A y \in T : y \in Nat /\ x \in Nat /\ ~(y < x)
    BY <1>2 DEF OpToRel
<1>4. QED
    BY <1>3

\* What holds of 0, and of k + 1 whenever of k, holds up to n.
LEMMA Climb ==
    ASSUME NEW n \in Nat, NEW S, 0 \in S, \A k \in 0 .. n - 1 : k \in S => k + 1 \in S
    PROVE  \A k \in 0 .. n : k \in S
<1> DEFINE T == {k \in 0 .. n : k \notin S}
<1>1. SUFFICES ASSUME T # {} PROVE FALSE
    OBVIOUS
<1>2. PICK x \in T : \A y \in T : x <= y
  <2>1. T \subseteq Nat
    OBVIOUS
  <2> HIDE DEF T
  <2>2. QED
    BY <1>1, <2>1, LeastElement
<1>3. x \in 0 .. n /\ x \notin S /\ x # 0
    BY <1>2
<1>4. x - 1 \in 0 .. n - 1 /\ (x - 1) + 1 = x /\ x - 1 < x
    BY <1>3
<1>5. x - 1 \in S
    BY <1>2, <1>4
<1>6. QED
    BY <1>3, <1>4, <1>5

\* A function whose value at k is made from the one at k - 1 exists.
Steps(step, n, V) == step \in [1 .. n -> [V -> V]]

Iterates(a, n, V, base, step) ==
    /\ a \in [0 .. n -> V]
    /\ a[0] = base
    /\ \A k \in 1 .. n : a[k] = step[k][a[k - 1]]

\* A function that applies a step for each number up to n exists.
LEMMA StepByStep ==
    ASSUME NEW n \in Nat, NEW V, NEW base \in V, NEW step, Steps(step, n, V)
    PROVE  \E a : Iterates(a, n, V, base, step)
<1> DEFINE Upto(m, a) == a[0] = base /\ \A k \in 1 .. m : a[k] = step[k][a[k - 1]]
           S == {m \in 0 .. n : \E a \in [0 .. n -> V] : Upto(m, a)}
<1>0. step \in [1 .. n -> [V -> V]]
    BY DEF Steps
<1>1. 0 \in S
  <2>1. [k \in 0 .. n |-> base] \in [0 .. n -> V] /\ Upto(0, [k \in 0 .. n |-> base])
    OBVIOUS
  <2> HIDE DEF Upto
  <2>2. QED
    BY <2>1
<1>2. ASSUME NEW m \in 0 .. n - 1, m \in S PROVE m + 1 \in S
  <2>1. PICK a \in [0 .. n -> V] : Upto(m, a)
    BY <1>2
  <2> DEFINE b == [a EXCEPT ![m + 1] = step[m + 1][a[m]]]
  <2>2. m \in 0 .. n /\ m + 1 \in 1 .. n /\ m + 1 \in 0 .. n
    OBVIOUS
  <2>3. a[m] \in V /\ step[m + 1][a[m]] \in V
    BY <1>0, <2>2
  <2>4. b \in [0 .. n -> V]
    BY <2>2, <2>3
  <2>5. b[m + 1] = step[m + 1][a[m]] /\ \A k \in 0 .. m : b[k] = a[k]
    BY <2>2
  <2>6. \A k \in 1 .. m + 1 : k = m + 1 \/ (k \in 1 .. m /\ k \in 0 .. m /\ k - 1 \in 0 .. m)
    OBVIOUS
  <2> HIDE DEF b
  <2>7. Upto(m + 1, b)
    <3>1. b[0] = base
      BY <2>1, <2>5
    <3>2. ASSUME NEW k \in 1 .. m + 1 PROVE b[k] = step[k][b[k - 1]]
      <4>1. CASE k = m + 1
        <5>1. k - 1 = m /\ m \in 0 .. m
          BY <4>1
        <5>2. QED
          BY <2>5, <4>1, <5>1
      <4>2. CASE k \in 1 .. m /\ k \in 0 .. m /\ k - 1 \in 0 .. m
        BY <2>1, <2>5, <4>2
      <4>3. QED
        BY <2>6, <4>1, <4>2
    <3>3. QED
      BY <3>1, <3>2
  <2> HIDE DEF Upto
  <2>8. QED
    BY <2>2, <2>4, <2>7
<1>3. \A m \in 0 .. n : m \in S
  <2> HIDE DEF S
  <2>1. \A m \in 0 .. n - 1 : m \in S => m + 1 \in S
    BY <1>2
  <2>2. QED
    BY <1>1, <2>1, Climb
<1>4. n \in S
    BY <1>3
<1>5. QED
    BY <1>4 DEF Iterates

-----------------------------------------------------------------------------
(* The register of the checksum.                                           *)

Register == SUBSET (0 .. 15)

\* The register, of the weights in reg, through the eight turns of a byte.
Turns(a, start, reg) ==
    /\ a \in [0 .. 8 -> SUBSET reg]
    /\ a[0] = start
    /\ \A j \in 1 .. 8 : a[j] = Shift(a[j - 1]) \cap reg

\* The inner loop is a chain of eight turns.
LEMMA EightTurns ==
    ASSUME NEW reg, NEW start \in SUBSET reg
    PROVE  \E a : Turns(a, start, reg) /\ Eight(start, reg) = a[8]
<1> DEFINE V == SUBSET reg
           step == [j \in 1 .. 8 |-> [x \in V |-> Shift(x) \cap reg]]
           Is(a) == a = [j \in 0 .. 8 |-> IF j = 0 THEN start ELSE Shift(a[j - 1]) \cap reg]
           after == CHOOSE a : Is(a)
<1>1. Eight(start, reg) = after[8]
    BY DEF Eight
<1>2. step \in [1 .. 8 -> [V -> V]] /\ start \in V
    OBVIOUS
<1>3. PICK a : Iterates(a, 8, V, start, step)
  <2> HIDE DEF step, V
  <2>1. Steps(step, 8, V)
    BY <1>2 DEF Steps
  <2>2. QED
    BY <1>2, <2>1, StepByStep
<1>4. \A j \in 1 .. 8 : j - 1 \in 0 .. 8 /\ a[j - 1] \in V /\ a[j] = Shift(a[j - 1]) \cap reg
    BY <1>3 DEF Iterates
<1>5. Is(a)
  <2> DEFINE b == [j \in 0 .. 8 |-> IF j = 0 THEN start ELSE Shift(a[j - 1]) \cap reg]
  <2>1. \A j \in 0 .. 8 : j = 0 \/ j \in 1 .. 8
    OBVIOUS
  <2>2. \A j \in 0 .. 8 : a[j] = b[j]
    BY <1>3, <1>4, <2>1 DEF Iterates
  <2>3. QED
    BY <1>3, <2>2 DEF Iterates
<1> HIDE DEF Is
<1>6. Is(after)
    BY <1>5
<1>7. Turns(after, start, reg)
  <2> USE DEF Is
  <2>1. after = [j \in 0 .. 8 |-> IF j = 0 THEN start ELSE Shift(after[j - 1]) \cap reg]
    BY <1>6
  <2> HIDE DEF after, Is
  <2>2. \A j \in 0 .. 8 : after[j] = IF j = 0 THEN start ELSE Shift(after[j - 1]) \cap reg
    BY <2>1
  <2>3. after[0] = start /\ \A j \in 1 .. 8 : after[j] = Shift(after[j - 1]) \cap reg
    BY <2>2
  <2>4. \A j \in 0 .. 8 : after[j] \in SUBSET reg
    BY <2>2
  <2>5. after \in [0 .. 8 -> SUBSET reg]
    BY <2>1, <2>4
  <2>6. QED
    BY <2>3, <2>5 DEF Turns
<1> HIDE DEF after
<1>8. QED
    BY <1>1, <1>7

\* Turns that start alike are alike.
LEMMA TurnsUnique ==
    ASSUME NEW reg, NEW start, NEW a, NEW b, Turns(a, start, reg), Turns(b, start, reg)
    PROVE  \A j \in 0 .. 8 : a[j] = b[j]
<1> DEFINE S == {j \in 0 .. 8 : a[j] = b[j]}
<1>1. 0 \in S
    BY DEF Turns
<1>2. \A j \in 0 .. 8 - 1 : j \in S => j + 1 \in S
  <2>1. TAKE j \in 0 .. 8 - 1
  <2>2. HAVE j \in S
  <2>3. j + 1 \in 1 .. 8 /\ j + 1 \in 0 .. 8 /\ (j + 1) - 1 = j /\ a[j] = b[j]
    BY <2>2
  <2>4. a[j + 1] = Shift(a[j]) \cap reg /\ b[j + 1] = Shift(b[j]) \cap reg
    BY <2>3 DEF Turns
  <2>5. QED
    BY <2>3, <2>4
<1> HIDE DEF S
<1>3. \A j \in 0 .. 8 : j \in S
    BY <1>1, <1>2, Climb
<1>4. QED
    BY <1>3 DEF S

\* The low 16 weights of a shifted register depend on the low 16 weights only.
LEMMA ShiftIsLocal ==
    ASSUME NEW x \in SUBSET Nat
    PROVE  Shift(x) \cap (0 .. 15) = Shift(x \cap (0 .. 15)) \cap (0 .. 15)
<1> DEFINE y == x \cap (0 .. 15)
<1>1. 15 \in x <=> 15 \in y
    OBVIOUS
<1>2. \A v \in 0 .. 15 : (\E w \in x : v = w + 1) <=> (\E w \in y : v = w + 1)
    OBVIOUS
<1> HIDE DEF y
<1>3. \A v \in 0 .. 15 : v \in Shift(x) <=> v \in Shift(y)
    BY <1>1, <1>2 DEF Shift, SymDiff
<1>4. QED
    BY <1>3 DEF y

\* Masking every turn or only the last: the same register.
LEMMA MaskAnyTurn ==
    ASSUME NEW start \in Register
    PROVE  Eight(start, Unbounded) \cap Uint16 = Eight(start, Uint16)
<1>1. Uint16 = 0 .. 15 /\ Unbounded \subseteq Nat /\ Uint16 \subseteq Unbounded
    BY DEF Uint16, Unbounded, PAYLOAD_DATA
<1>2. PICK a : Turns(a, start, Uint16) /\ Eight(start, Uint16) = a[8]
    BY <1>1, EightTurns DEF Register
<1>3. PICK b : Turns(b, start, Unbounded) /\ Eight(start, Unbounded) = b[8]
  <2>1. start \in SUBSET Unbounded
    BY <1>1 DEF Register
  <2>2. QED
    BY <2>1, EightTurns
<1> DEFINE S == {j \in 0 .. 8 : a[j] = b[j] \cap (0 .. 15)}
<1>4. 0 \in S
  <2>1. a[0] = start /\ b[0] = start
    BY <1>2, <1>3 DEF Turns
  <2>2. start = start \cap (0 .. 15)
    BY DEF Register
  <2>3. QED
    BY <2>1, <2>2
<1>5. ASSUME NEW j \in 0 .. 8 - 1, j \in S PROVE j + 1 \in S
  <2>1. j + 1 \in 1 .. 8 /\ (j + 1) - 1 = j /\ j \in 0 .. 8
    OBVIOUS
  <2>2. a[j + 1] = Shift(a[j]) \cap (0 .. 15)
    BY <1>1, <1>2, <2>1 DEF Turns
  <2>3. b[j + 1] = Shift(b[j]) \cap Unbounded /\ b[j] \in SUBSET Nat
    BY <1>1, <1>3, <2>1 DEF Turns
  <2>4. b[j + 1] \cap (0 .. 15) = Shift(b[j]) \cap (0 .. 15)
    BY <1>1, <2>3
  <2>5. Shift(b[j]) \cap (0 .. 15) = Shift(b[j] \cap (0 .. 15)) \cap (0 .. 15)
    BY <2>3, ShiftIsLocal
  <2>6. a[j] = b[j] \cap (0 .. 15)
    BY <1>5
  <2>7. a[j + 1] = b[j + 1] \cap (0 .. 15)
    BY <2>2, <2>4, <2>5, <2>6
  <2>8. QED
    BY <2>1, <2>7
<1>6. \A j \in 0 .. 8 : j \in S
  <2> HIDE DEF S
  <2>1. \A j \in 0 .. 8 - 1 : j \in S => j + 1 \in S
    BY <1>5
  <2>2. QED
    BY <1>4, <2>1, Climb
<1>7. a[8] = b[8] \cap (0 .. 15)
    BY <1>6
<1>8. QED
    BY <1>1, <1>2, <1>3, <1>7

LEMMA EightIsRegister ==
    ASSUME NEW start \in Register
    PROVE  Eight(start, Uint16) \in Register
<1>1. PICK a : Turns(a, start, 0 .. 15) /\ Eight(start, 0 .. 15) = a[8]
    BY EightTurns DEF Register
<1>2. QED
    BY <1>1 DEF Turns, Register, Uint16

\* A byte mixed into the register.
Mixed(crc, sent, k) == SymDiff(crc, {w + 8 : w \in ByteAt(sent, k)})

LEMMA MixedIsRegister ==
    ASSUME NEW crc \in Register, NEW sent, NEW k \in Nat
    PROVE  Mixed(crc, sent, k) \in Register
<1>1. \A p \in Int : 7 - (p % 8) \in 0 .. 7
    OBVIOUS
<1>2. \A w \in ByteAt(sent, k) : w \in 0 .. 7
    BY <1>1 DEF ByteAt
<1>3. \A w \in 0 .. 7 : w + 8 \in 0 .. 15
    OBVIOUS
<1>4. QED
    BY <1>2, <1>3 DEF Mixed, SymDiff, Register

\* The register after each byte of a payload.
Registered(a, sent) ==
    /\ a \in [0 .. 23 -> Register]
    /\ a[0] = 0 .. 15
    /\ \A k \in 1 .. 23 : a[k] = Eight(Mixed(a[k - 1], sent, k - 1), Uint16)

\* What both implementations keep of a byte.
KeepsByte(reg) == \A start \in Register : Eight(start, reg) \cap Uint16 = Eight(start, Uint16)

\* Masking once after eight turns (Python) keeps what masking each turn (C) keeps.
LEMMA BothKeepByte == KeepsByte(Uint16) /\ KeepsByte(Unbounded)
<1>1. \A start \in Register : Eight(start, Uint16) \cap Uint16 = Eight(start, Uint16)
  <2>1. TAKE start \in Register
  <2>2. Eight(start, Uint16) \in Register
    BY EightIsRegister
  <2>3. QED
    BY <2>2 DEF Register, Uint16
<1>2. QED
    BY <1>1, MaskAnyTurn DEF KeepsByte

\* The checksum is the last of 23 registers, one for each byte, and they are the
\* same for the C loop and the Python loop.
LEMMA CrcRegisters ==
    ASSUME NEW sent, NEW reg, KeepsByte(reg)
    PROVE  \E a : Registered(a, sent) /\ Crc(sent, reg, Uint16) = a[23]
<1> DEFINE V == Register
           full == 0 .. 15
           step == [k \in 1 .. 23 |-> [x \in V |-> Eight(Mixed(x, sent, k - 1), Uint16)]]
           Next1(x, k) == UNION {Eight(mixed, reg) \cap Uint16 : mixed \in {Mixed(x, sent, k - 1)}}
           Is(a) == a = [k \in 0 .. 23 |-> IF k = 0 THEN full ELSE Next1(a[k - 1], k)]
           after == CHOOSE a : Is(a)
<1>1. Crc(sent, reg, Uint16) = after[23]
    BY DEF Crc, Mixed, PAYLOAD_DATA
<1>2. \A x \in V : \A k \in 1 .. 23 : Eight(Mixed(x, sent, k - 1), Uint16) \in V
  <2>1. TAKE x \in V
  <2>2. TAKE k \in 1 .. 23
  <2>3. k - 1 \in Nat
    OBVIOUS
  <2>4. Mixed(x, sent, k - 1) \in Register
    BY <2>3, MixedIsRegister
  <2>5. QED
    BY <2>4, EightIsRegister
<1>3. \A x \in V : \A k \in 1 .. 23 : Next1(x, k) = Eight(Mixed(x, sent, k - 1), Uint16)
  <2>1. TAKE x \in V
  <2>2. TAKE k \in 1 .. 23
  <2>3. k - 1 \in Nat
    OBVIOUS
  <2>4. Mixed(x, sent, k - 1) \in Register
    BY <2>3, MixedIsRegister
  <2>5. Eight(Mixed(x, sent, k - 1), reg) \cap Uint16 = Eight(Mixed(x, sent, k - 1), Uint16)
    BY <2>4 DEF KeepsByte
  <2>6. QED
    BY <2>5
<1> HIDE DEF Next1
<1>4. PICK a : Iterates(a, 23, V, full, step)
  <2>1. Steps(step, 23, V)
    BY <1>2 DEF Steps
  <2>2. full \in V
    BY DEF Register
  <2> HIDE DEF step, V, full
  <2>3. QED
    BY <2>1, <2>2, StepByStep
<1>5. /\ a \in [0 .. 23 -> V] /\ a[0] = full
      /\ \A k \in 1 .. 23 : k - 1 \in 0 .. 23 /\ a[k - 1] \in V /\ a[k] = Next1(a[k - 1], k)
  <2>1. a \in [0 .. 23 -> V] /\ a[0] = full
    BY <1>4 DEF Iterates
  <2>2. \A k \in 1 .. 23 : k - 1 \in 0 .. 23 /\ a[k - 1] \in V
    BY <2>1
  <2>3. \A k \in 1 .. 23 : a[k] = Eight(Mixed(a[k - 1], sent, k - 1), Uint16)
    BY <1>4, <2>2 DEF Iterates
  <2>4. QED
    BY <1>3, <2>1, <2>2, <2>3
<1>6. Is(a)
  <2> DEFINE b == [k \in 0 .. 23 |-> IF k = 0 THEN full ELSE Next1(a[k - 1], k)]
  <2>1. \A k \in 0 .. 23 : k = 0 \/ k \in 1 .. 23
    OBVIOUS
  <2> HIDE DEF V, full
  <2>2. \A k \in 0 .. 23 : a[k] = b[k]
    BY <1>5, <2>1
  <2>3. QED
    BY <1>5, <2>2
<1> HIDE DEF Is
<1>7. Is(after)
    BY <1>6
<1>8. after = [k \in 0 .. 23 |-> IF k = 0 THEN full ELSE Next1(after[k - 1], k)]
    BY <1>7 DEF Is
<1> HIDE DEF after
<1>9. after[0] = full /\ \A k \in 1 .. 23 : after[k] = Next1(after[k - 1], k)
  <2> HIDE DEF full
  <2>1. \A k \in 0 .. 23 : after[k] = IF k = 0 THEN full ELSE Next1(after[k - 1], k)
    BY <1>8
  <2>2. QED
    BY <2>1
<1>10. \A k \in 0 .. 23 : after[k] \in V
  <2> DEFINE S == {k \in 0 .. 23 : after[k] \in V}
  <2>1. 0 \in S
    BY <1>9 DEF Register
  <2>2. \A k \in 0 .. 23 - 1 : k \in S => k + 1 \in S
    <3>1. TAKE k \in 0 .. 23 - 1
    <3>2. HAVE k \in S
    <3>3. k + 1 \in 1 .. 23 /\ k + 1 \in 0 .. 23 /\ (k + 1) - 1 = k /\ after[k] \in V
      BY <3>2
    <3> HIDE DEF V
    <3>4. after[k + 1] \in V
      <4>1. after[k + 1] = Next1(after[(k + 1) - 1], k + 1)
        BY <1>9, <3>3
      <4>2. Next1(after[k], k + 1) \in V
        BY <1>2, <1>3, <3>3
      <4>3. QED
        BY <3>3, <4>1, <4>2
    <3>5. QED
      BY <3>3, <3>4
  <2> HIDE DEF S
  <2>3. \A k \in 0 .. 23 : k \in S
    BY <2>1, <2>2, Climb
  <2>4. QED
    BY <2>3 DEF S
<1>11. Registered(after, sent)
  <2>1. after \in [0 .. 23 -> V]
    BY <1>8, <1>10
  <2>2. \A k \in 1 .. 23 : after[k - 1] \in V
    BY <2>1
  <2>3. \A k \in 1 .. 23 : after[k] = Eight(Mixed(after[k - 1], sent, k - 1), Uint16)
    BY <1>3, <1>9, <2>2
  <2>4. QED
    BY <1>9, <2>1, <2>3 DEF Registered
<1>12. QED
    BY <1>1, <1>11

\* Payloads that agree on the bytes of their data have the same registers.
SameData(x, y) == \A p \in DataBits : p \in x <=> p \in y

\* The registers depend on the data bits alone.
LEMMA RegistersUnique ==
    ASSUME NEW x, NEW y, SameData(x, y), NEW a, NEW b, Registered(a, x), Registered(b, y)
    PROVE  \A k \in 0 .. 23 : a[k] = b[k]
<1> DEFINE S == {k \in 0 .. 23 : a[k] = b[k]}
<1>1. 0 \in S
    BY DEF Registered
<1>2. \A k \in 0 .. 23 - 1 : k \in S => k + 1 \in S
  <2>1. TAKE k \in 0 .. 23 - 1
  <2>2. HAVE k \in S
  <2>3. k + 1 \in 1 .. 23 /\ k + 1 \in 0 .. 23 /\ (k + 1) - 1 = k /\ a[k] = b[k]
    BY <2>2
  <2>4. \A p \in (8 * k) .. (8 * k) + 7 : p \in DataBits
    BY DEF DataBits, PAYLOAD_DATA
  <2>5. x \cap ((8 * k) .. (8 * k) + 7) = y \cap ((8 * k) .. (8 * k) + 7)
    BY <2>4 DEF SameData
  <2>6. ByteAt(x, k) = ByteAt(y, k)
    BY <2>5 DEF ByteAt
  <2>7. a[k + 1] = Eight(Mixed(a[k], x, k), Uint16) /\ b[k + 1] = Eight(Mixed(b[k], y, k), Uint16)
    BY <2>3 DEF Registered
  <2>8. QED
    BY <2>3, <2>6, <2>7 DEF Mixed
<1> HIDE DEF S
<1>3. \A k \in 0 .. 23 : k \in S
    BY <1>1, <1>2, Climb
<1>4. QED
    BY <1>3 DEF S

\* The C checksum and Python's are the same, and of the data bits only.
LEMMA ChecksumOfData ==
    ASSUME NEW x, NEW y, SameData(x, y)
    PROVE  Crc16Py(x) = crc16(y)
<1>1. PICK a : Registered(a, x) /\ Crc(x, Unbounded, Uint16) = a[23]
    BY BothKeepByte, CrcRegisters
<1>2. PICK b : Registered(b, y) /\ Crc(y, Uint16, Uint16) = b[23]
    BY BothKeepByte, CrcRegisters
<1>3. a[23] = b[23]
    BY <1>1, <1>2, RegistersUnique
<1>4. QED
    BY <1>1, <1>2, <1>3 DEF Crc16Py, crc16

LEMMA ChecksumIsRegister ==
    ASSUME NEW x
    PROVE  crc16(x) \in Register
<1>1. PICK b : Registered(b, x) /\ Crc(x, Uint16, Uint16) = b[23]
    BY BothKeepByte, CrcRegisters
<1>2. QED
    BY <1>1 DEF crc16, Registered

-----------------------------------------------------------------------------
(* Where the checksum is, and that a packed payload has the right one.     *)

\* The number in the last two bytes.
Check(bits) == {w + 8 : w \in ByteAt(bits, PAYLOAD_DATA)} \cup ByteAt(bits, PAYLOAD_DATA + 1)

\* The checksum's bits as positions.
LEMMA CheckBits ==
    ASSUME NEW bits
    PROVE  \A w : w \in Check(bits) <=> w \in 0 .. 15 /\ 199 - w \in bits
<1>1. /\ 8 * PAYLOAD_DATA = 184 /\ 8 * (PAYLOAD_DATA + 1) = 192
      /\ \A p \in 184 .. 191 : 7 - (p % 8) = 191 - p
      /\ \A p \in 192 .. 199 : 7 - (p % 8) = 199 - p
    BY DEF PAYLOAD_DATA
<1>2. \A w : w \in ByteAt(bits, PAYLOAD_DATA) <=> \E p \in bits \cap (184 .. 191) : w = 191 - p
    BY <1>1 DEF ByteAt
<1>3. \A w : w \in ByteAt(bits, PAYLOAD_DATA + 1) <=> \E p \in bits \cap (192 .. 199) : w = 199 - p
    BY <1>1 DEF ByteAt
<1>4. \A w : w \in Check(bits) <=>
          \/ \E p \in bits \cap (184 .. 191) : w = 191 - p + 8
          \/ \E p \in bits \cap (192 .. 199) : w = 199 - p
    BY <1>2, <1>3 DEF Check
<1>5. TAKE w
<1>6. ASSUME w \in Check(bits) PROVE w \in 0 .. 15 /\ 199 - w \in bits
  <2>1. CASE \E p \in bits \cap (184 .. 191) : w = 191 - p + 8
    <3>1. PICK p \in bits \cap (184 .. 191) : w = 191 - p + 8
      BY <2>1
    <3>2. 199 - w = p /\ w \in 0 .. 15
      BY <3>1
    <3>3. QED
      BY <3>2
  <2>2. CASE \E p \in bits \cap (192 .. 199) : w = 199 - p
    <3>1. PICK p \in bits \cap (192 .. 199) : w = 199 - p
      BY <2>2
    <3>2. 199 - w = p /\ w \in 0 .. 15
      BY <3>1
    <3>3. QED
      BY <3>2
  <2>3. QED
    BY <1>4, <1>6, <2>1, <2>2
<1>7. ASSUME w \in 0 .. 15, 199 - w \in bits PROVE w \in Check(bits)
  <2>1. CASE w \in 8 .. 15
    <3>1. 199 - w \in 184 .. 191 /\ w = 191 - (199 - w) + 8
      BY <2>1
    <3>2. QED
      BY <1>4, <1>7, <3>1
  <2>2. CASE w \in 0 .. 7
    <3>1. 199 - w \in 192 .. 199 /\ w = 199 - (199 - w)
      BY <2>2
    <3>2. QED
      BY <1>4, <1>7, <3>1
  <2>3. QED
    BY <1>7, <2>1, <2>2
<1>8. QED
    BY <1>6, <1>7

\* The bits of a sealed payload: the data, and the checksum behind them.
LEMMA SealedBits ==
    ASSUME NEW data, NEW crc \in Register
    PROVE  \A p : p \in Sealed(data, crc) <=>
               p \in data \/ (p \in 184 .. 199 /\ 199 - p \in crc)
<1> DEFINE high == {w - 8 : w \in crc \cap (8 .. 15)}
           low == crc \cap (0 .. 7)
<1>1. /\ 8 * PAYLOAD_DATA = 184 /\ 8 * (PAYLOAD_DATA + 1) = 192
    BY DEF PAYLOAD_DATA
<1>2. \A p : p \in PlacedAt(high, PAYLOAD_DATA) <=> p \in 184 .. 191 /\ 199 - p \in crc
  <2>1. \A p : p \in PlacedAt(high, PAYLOAD_DATA) <=>
                \E w \in crc \cap (8 .. 15) : p = 184 + 7 - (w - 8)
    BY <1>1 DEF PlacedAt
  <2>2. \A w \in 8 .. 15 : 199 - (184 + 7 - (w - 8)) = w /\ 184 + 7 - (w - 8) \in 184 .. 191
    OBVIOUS
  <2>3. \A p \in 184 .. 191 : 199 - p \in 8 .. 15 /\ p = 184 + 7 - ((199 - p) - 8)
    OBVIOUS
  <2>4. QED
    BY <2>1, <2>2, <2>3
<1>3. \A p : p \in PlacedAt(low, PAYLOAD_DATA + 1) <=> p \in 192 .. 199 /\ 199 - p \in crc
  <2>1. \A p : p \in PlacedAt(low, PAYLOAD_DATA + 1) <=>
                \E w \in crc \cap (0 .. 7) : p = 192 + 7 - w
    BY <1>1 DEF PlacedAt
  <2>2. \A w \in 0 .. 7 : 199 - (192 + 7 - w) = w /\ 192 + 7 - w \in 192 .. 199
    OBVIOUS
  <2>3. \A p \in 192 .. 199 : 199 - p \in 0 .. 7 /\ p = 192 + 7 - (199 - p)
    OBVIOUS
  <2>4. QED
    BY <2>1, <2>2, <2>3
<1>4. Sealed(data, crc) =
          data \cup PlacedAt(high, PAYLOAD_DATA) \cup PlacedAt(low, PAYLOAD_DATA + 1)
    BY DEF Sealed
<1>5. \A p : p \in 184 .. 199 <=> p \in 184 .. 191 \/ p \in 192 .. 199
    OBVIOUS
<1> HIDE DEF high, low
<1>6. QED
    BY <1>2, <1>3, <1>4, <1>5

\* The data stay in front of the checksum.
LEMMA DataInside ==
    ASSUME NEW r
    PROVE  \A p \in Data(r) : p \in 0 .. 183
<1>1. TAKE p \in Data(r)
<1>2. PICK f \in Field : p \in FieldBits(r[f], f)
    BY DEF Data
<1>3. PICK w \in r[f] \cap (0 .. Width(f) - 1) : p = Last(f) - w
    BY <1>2 DEF FieldBits
<1>4. /\ First(f) \in Nat /\ Width(f) \in Nat /\ Last(f) \in Nat /\ Last(f) < 184
      /\ Last(f) = First(f) + Width(f) - 1
    BY LayoutInside DEF Last
<1>5. \A a, b, c \in Nat : \A x \in 0 .. b - 1 : c < 184 /\ c = a + b - 1 => c - x \in 0 .. 183
    OBVIOUS
<1>6. Last(f) - w \in 0 .. 183
    BY <1>3, <1>4, <1>5
<1>7. QED
    BY <1>3, <1>6

\* The bits of a packed payload.
LEMMA PackedBits ==
    ASSUME NEW r
    PROVE  /\ \A p : p \in PackPayload(r) <=>
                  p \in Data(r) \/ (p \in 184 .. 199 /\ 199 - p \in crc16(Data(r)))
           /\ SameData(PackPayload(r), Data(r))
           /\ PackPayload(r) \subseteq PayloadBits
<1>1. \A p : p \in PackPayload(r) <=>
          p \in Data(r) \/ (p \in 184 .. 199 /\ 199 - p \in crc16(Data(r)))
    BY PackedData, SealedBits, ChecksumIsRegister
<1>2. DataBits = 0 .. 183 /\ PayloadBits = 0 .. 199
    BY DEF DataBits, PayloadBits, PAYLOAD_DATA, PAYLOAD_SIZE
<1>3. SameData(PackPayload(r), Data(r))
    BY <1>1, <1>2 DEF SameData
<1>4. PackPayload(r) \subseteq PayloadBits
    BY <1>1, <1>2, DataInside
<1>5. QED
    BY <1>1, <1>3, <1>4

\* pack_payload and Python's pack build the same bits, whatever the arguments.
LEMMA SamePayload ==
    ASSUME NEW r
    PROVE  PackPayload(r) = PackPy(r)
<1>1. SameData(Data(r), Data(r))
    BY DEF SameData
<1>2. QED
    BY <1>1, PackedData, PackedPyData, ChecksumOfData

\* The cloud accepts what the node packed.
LEMMA PackedIsAccepted ==
    ASSUME NEW r
    PROVE  Crc16Py(PackPayload(r)) = Check(PackPayload(r)) /\ Accepted(PackPayload(r))
<1> DEFINE sent == PackPayload(r)
           crc == crc16(Data(r))
<1>1. Crc16Py(sent) = crc
    BY PackedBits, ChecksumOfData
<1>2. \A w : w \in Check(sent) <=> w \in crc
  <2>1. TAKE w
  <2>2. w \in Check(sent) <=> w \in 0 .. 15 /\ 199 - w \in sent
    BY CheckBits
  <2>3. crc \subseteq 0 .. 15
    BY ChecksumIsRegister DEF Register
  <2>4. \A v \in 0 .. 15 : 199 - v \in sent <=> v \in crc
    <3>1. TAKE v \in 0 .. 15
    <3>2. 199 - v \in 184 .. 199 /\ 199 - (199 - v) = v
      OBVIOUS
    <3>3. 199 - v \notin Data(r)
      BY DataInside
    <3>4. QED
      BY <3>2, <3>3, PackedBits
  <2>5. QED
    BY <2>2, <2>3, <2>4
<1>3. Check(sent) = crc
  <2> HIDE DEF sent, crc
  <2>1. QED
    BY <1>2
<1>4. QED
    BY <1>1, <1>3 DEF Accepted, Check

\* What the cloud and unpack_payload read from a packed payload.
LEMMA PackedIsRead ==
    ASSUME NEW r, NEW f \in Field
    PROVE  /\ Extract(PackPayload(r), f) = r[f] \cap (0 .. Width(f) - 1)
           /\ UnpackPayload(PackPayload(r))[f] = r[f] \cap (0 .. Width(f) - 1)
<1> DEFINE rest == {p \in 184 .. 199 : 199 - p \in crc16(Data(r))}
<1>1. PackPayload(r) = Data(r) \cup rest
  <2>1. \A p : p \in PackPayload(r) <=> p \in Data(r) \cup rest
    BY PackedBits
  <2> HIDE DEF rest
  <2>2. QED
    BY <2>1
<1>2. rest \cap DataBits = {}
  <2>1. DataBits = 0 .. 183
    BY DEF DataBits, PAYLOAD_DATA
  <2>2. \A p \in rest : p \notin 0 .. 183
    OBVIOUS
  <2> HIDE DEF rest
  <2>3. QED
    BY <2>1, <2>2
<1> HIDE DEF rest
<1>3. Window(PackPayload(r), f) = r[f] \cap (0 .. Width(f) - 1)
    BY <1>1, <1>2, WindowOfData
<1>4. QED
    BY <1>3, ExtractsWindow, UnpacksWindow

-----------------------------------------------------------------------------
(* What flipped bits do to the register: the difference of two registers,  *)
(* with the noise and without, is itself a register, fed with the noise.   *)

LEMMA ShiftBits ==
    ASSUME NEW x \in Register
    PROVE  \A v \in 0 .. 15 :
               v \in Shift(x) <=> ~ (v - 1 \in x <=> (15 \in x /\ v \in Polynomial))
<1>1. \A v \in 0 .. 15 : (\E w \in x : v = w + 1) <=> v - 1 \in x
  <2>1. TAKE v \in 0 .. 15
  <2>2. \A w \in x : w \in 0 .. 15
    BY DEF Register
  <2>3. \A w \in x : v = w + 1 => w = v - 1
    BY <2>2
  <2>4. v = (v - 1) + 1
    OBVIOUS
  <2>5. QED
    BY <2>3, <2>4
<1> DEFINE out == {w + 1 : w \in x}
<1>2. \A v \in 0 .. 15 : v \in out <=> v - 1 \in x
    BY <1>1
<1>3. Shift(x) = IF 15 \in x THEN SymDiff(out, Polynomial) ELSE out
    BY DEF Shift
<1> HIDE DEF out
<1>4. QED
    BY <1>2, <1>3 DEF SymDiff

LEMMA MixedBits ==
    ASSUME NEW crc \in Register, NEW bits, NEW k \in Nat
    PROVE  \A v \in 0 .. 15 : v \in Mixed(crc, bits, k) <=>
               ~ (v \in crc <=> (v >= 8 /\ 8 * k + 15 - v \in bits))
<1>1. \A p \in (8 * k) .. (8 * k) + 7 : p % 8 = p - 8 * k
  <2>1. TAKE p \in (8 * k) .. (8 * k) + 7
  <2>2. p \in Int /\ p - 8 * k \in 0 .. 7 /\ p = 8 * k + (p - 8 * k)
    OBVIOUS
  <2>3. QED
    BY <2>2
<1> DEFINE high == {w + 8 : w \in ByteAt(bits, k)}
<1>2. \A w : w \in ByteAt(bits, k) <=>
          \E p \in bits \cap ((8 * k) .. (8 * k) + 7) : w = 7 - (p - 8 * k)
    BY <1>1 DEF ByteAt
<1>3. \A v \in 0 .. 15 : v \in high <=> v >= 8 /\ 8 * k + 15 - v \in bits
  <2>1. TAKE v \in 0 .. 15
  <2>2. ASSUME v \in high PROVE v >= 8 /\ 8 * k + 15 - v \in bits
    <3>1. PICK w \in ByteAt(bits, k) : v = w + 8
      BY <2>2
    <3>2. PICK p \in bits \cap ((8 * k) .. (8 * k) + 7) : w = 7 - (p - 8 * k)
      BY <1>2, <3>1
    <3>3. p \in Int /\ 8 * k + 15 - v = p /\ v >= 8
      BY <3>1, <3>2
    <3>4. QED
      BY <3>2, <3>3
  <2>3. ASSUME v >= 8, 8 * k + 15 - v \in bits PROVE v \in high
    <3>1. 8 * k + 15 - v \in (8 * k) .. (8 * k) + 7 /\ v - 8 = 7 - ((8 * k + 15 - v) - 8 * k)
      BY <2>3
    <3>2. v - 8 \in ByteAt(bits, k)
      BY <1>2, <2>3, <3>1
    <3>3. v = (v - 8) + 8
      OBVIOUS
    <3>4. QED
      BY <3>2, <3>3
  <2>4. QED
    BY <2>2, <2>3
<1> HIDE DEF high
<1>4. Mixed(crc, bits, k) = SymDiff(crc, high)
    BY DEF Mixed, high
<1>5. QED
    BY <1>3, <1>4 DEF SymDiff

\* Registers are the same if they have the same weights below 16.
LEMMA SameRegister ==
    ASSUME NEW x \in Register, NEW y \in Register, \A v \in 0 .. 15 : v \in x <=> v \in y
    PROVE  x = y
BY DEF Register

LEMMA DifferenceIsRegister ==
    ASSUME NEW x \in Register, NEW y \in Register
    PROVE  SymDiff(x, y) \in Register
BY DEF Register, SymDiff

\* A turn of a difference is the difference of the turns.
LEMMA ShiftIsLinear ==
    ASSUME NEW x \in Register, NEW y \in Register
    PROVE  SymDiff(Shift(x) \cap (0 .. 15), Shift(y) \cap (0 .. 15))
               = Shift(SymDiff(x, y)) \cap (0 .. 15)
<1> DEFINE z == SymDiff(x, y)
<1>1. z \in Register
    BY DifferenceIsRegister
<1>2. \A v : v \in z <=> ~ (v \in x <=> v \in y)
    BY DEF SymDiff
<1> HIDE DEF z
<1>3. \A v \in 0 .. 15 : v \in Shift(z) <=> ~ (v \in Shift(x) <=> v \in Shift(y))
    BY <1>1, <1>2, ShiftBits
<1>4. \A v : v \in SymDiff(Shift(x) \cap (0 .. 15), Shift(y) \cap (0 .. 15))
          <=> v \in Shift(z) \cap (0 .. 15)
    BY <1>3 DEF SymDiff
<1>5. SymDiff(Shift(x) \cap (0 .. 15), Shift(y) \cap (0 .. 15)) = Shift(z) \cap (0 .. 15)
    BY <1>4
<1>6. QED
    BY <1>5 DEF z

LEMMA TurnsAreLinear ==
    ASSUME NEW x \in Register, NEW y \in Register, NEW a, NEW b,
           Turns(a, x, 0 .. 15), Turns(b, y, 0 .. 15)
    PROVE  Turns([j \in 0 .. 8 |-> SymDiff(a[j], b[j])], SymDiff(x, y), 0 .. 15)
<1> DEFINE d == [j \in 0 .. 8 |-> SymDiff(a[j], b[j])]
<1>1. \A j \in 0 .. 8 : a[j] \in Register /\ b[j] \in Register /\ d[j] = SymDiff(a[j], b[j])
    BY DEF Turns, Register
<1>2. d \in [0 .. 8 -> Register]
    BY <1>1, DifferenceIsRegister
<1>3. d[0] = SymDiff(x, y)
    BY <1>1 DEF Turns
<1>4. ASSUME NEW j \in 1 .. 8 PROVE d[j] = Shift(d[j - 1]) \cap (0 .. 15)
  <2>1. j \in 0 .. 8 /\ j - 1 \in 0 .. 8
    OBVIOUS
  <2>2. a[j] = Shift(a[j - 1]) \cap (0 .. 15) /\ b[j] = Shift(b[j - 1]) \cap (0 .. 15)
    BY DEF Turns
  <2>3. d[j] = SymDiff(a[j], b[j]) /\ d[j - 1] = SymDiff(a[j - 1], b[j - 1])
        /\ a[j - 1] \in Register /\ b[j - 1] \in Register
    BY <1>1, <2>1
  <2> HIDE DEF d
  <2>4. SymDiff(Shift(a[j - 1]) \cap (0 .. 15), Shift(b[j - 1]) \cap (0 .. 15))
            = Shift(SymDiff(a[j - 1], b[j - 1])) \cap (0 .. 15)
    BY <2>3, ShiftIsLinear
  <2>5. QED
    BY <2>2, <2>3, <2>4
<1> HIDE DEF d
<1>5. Turns(d, SymDiff(x, y), 0 .. 15)
    BY <1>2, <1>3, <1>4 DEF Turns, Register
<1>6. QED
    BY <1>5 DEF d

\* The difference after each byte, from none, under the flips.
Differs(d, flips) ==
    /\ d \in [0 .. 23 -> Register]
    /\ d[0] = {}
    /\ \A k \in 0 .. 22 : \E t : Turns(t, Mixed(d[k], flips, k), 0 .. 15) /\ d[k + 1] = t[8]

\* So it is of a byte mixed in,
LEMMA MixedIsLinear ==
    ASSUME NEW x \in Register, NEW y \in Register, NEW bits, NEW flips, NEW k \in Nat
    PROVE  SymDiff(Mixed(x, bits, k), Mixed(y, SymDiff(bits, flips), k))
               = Mixed(SymDiff(x, y), flips, k)
<1> DEFINE l == SymDiff(Mixed(x, bits, k), Mixed(y, SymDiff(bits, flips), k))
           z == SymDiff(x, y)
           noisy == SymDiff(bits, flips)
<1>1. z \in Register /\ Mixed(x, bits, k) \in Register /\ Mixed(y, noisy, k) \in Register
    BY DifferenceIsRegister, MixedIsRegister
<1>2. l \in Register /\ Mixed(z, flips, k) \in Register
  <2> HIDE DEF z, noisy
  <2>1. Mixed(z, flips, k) \in Register
    BY <1>1, MixedIsRegister
  <2>2. SymDiff(Mixed(x, bits, k), Mixed(y, noisy, k)) \in Register
    BY <1>1, DifferenceIsRegister
  <2>3. QED
    BY <2>1, <2>2 DEF noisy
<1>3. /\ \A v : v \in z <=> ~ (v \in x <=> v \in y)
      /\ \A p : p \in noisy <=> ~ (p \in bits <=> p \in flips)
      /\ \A v : v \in l <=> ~ (v \in Mixed(x, bits, k) <=> v \in Mixed(y, noisy, k))
    BY DEF SymDiff
<1> HIDE DEF l, z, noisy
<1>4. ASSUME NEW v \in 0 .. 15 PROVE v \in l <=> v \in Mixed(z, flips, k)
  <2>1. v \in Mixed(x, bits, k) <=> ~ (v \in x <=> (v >= 8 /\ 8 * k + 15 - v \in bits))
    BY MixedBits
  <2>2. v \in Mixed(y, noisy, k) <=> ~ (v \in y <=> (v >= 8 /\ 8 * k + 15 - v \in noisy))
    BY MixedBits
  <2>3. v \in Mixed(z, flips, k) <=> ~ (v \in z <=> (v >= 8 /\ 8 * k + 15 - v \in flips))
    BY <1>1, MixedBits
  <2>4. QED
    BY <1>3, <2>1, <2>2, <2>3
<1>5. l = Mixed(z, flips, k)
    BY <1>2, <1>4, SameRegister
<1>6. QED
    BY <1>5 DEF l, z

\* and of all the registers: they differ by what the noise alone makes.
LEMMA NoiseDiffers ==
    ASSUME NEW bits, NEW flips, NEW a, NEW b,
           Registered(a, bits), Registered(b, SymDiff(bits, flips))
    PROVE  Differs([k \in 0 .. 23 |-> SymDiff(a[k], b[k])], flips)
<1> DEFINE d == [k \in 0 .. 23 |-> SymDiff(a[k], b[k])]
           noisy == SymDiff(bits, flips)
<1>1. \A k \in 0 .. 23 : a[k] \in Register /\ b[k] \in Register /\ d[k] = SymDiff(a[k], b[k])
    BY DEF Registered
<1>2. d \in [0 .. 23 -> Register]
    BY <1>1, DifferenceIsRegister
<1>3. d[0] = {}
    BY <1>1 DEF Registered, SymDiff
<1>4. ASSUME NEW k \in 0 .. 22
      PROVE  \E t : Turns(t, Mixed(d[k], flips, k), 0 .. 15) /\ d[k + 1] = t[8]
  <2>1. k \in Nat /\ k \in 0 .. 23 /\ k + 1 \in 0 .. 23 /\ k + 1 \in 1 .. 23 /\ (k + 1) - 1 = k
    OBVIOUS
  <2>2. /\ a[k] \in Register /\ b[k] \in Register
        /\ d[k] = SymDiff(a[k], b[k]) /\ d[k + 1] = SymDiff(a[k + 1], b[k + 1])
    BY <1>1, <2>1
  <2> DEFINE x == Mixed(a[k], bits, k)
             y == Mixed(b[k], noisy, k)
  <2>3. a[k + 1] = Eight(x, 0 .. 15) /\ b[k + 1] = Eight(y, 0 .. 15)
    BY <2>1 DEF Registered, Uint16
  <2>4. x \in Register /\ y \in Register
    BY <2>1, <2>2, MixedIsRegister
  <2>5. SymDiff(x, y) = Mixed(d[k], flips, k)
    BY <2>1, <2>2, MixedIsLinear
  <2> HIDE DEF x, y, d
  <2>6. PICK s : Turns(s, x, 0 .. 15) /\ Eight(x, 0 .. 15) = s[8]
    BY <2>4, EightTurns DEF Register
  <2>7. PICK t : Turns(t, y, 0 .. 15) /\ Eight(y, 0 .. 15) = t[8]
    BY <2>4, EightTurns DEF Register
  <2> DEFINE u == [j \in 0 .. 8 |-> SymDiff(s[j], t[j])]
  <2>8. Turns(u, SymDiff(x, y), 0 .. 15)
    BY <2>4, <2>6, <2>7, TurnsAreLinear
  <2>9. u[8] = d[k + 1]
    BY <2>2, <2>3, <2>6, <2>7
  <2> HIDE DEF u
  <2>10. QED
    BY <2>5, <2>8, <2>9
<1> HIDE DEF d
<1>5. Differs(d, flips)
    BY <1>2, <1>3, <1>4 DEF Differs
<1>6. QED
    BY <1>5 DEF d

-----------------------------------------------------------------------------
(* A burst leaves a difference: the register before a turn can be told from *)
(* the one after it, back to the burst's first bit.                        *)

\* A turn that leaves weight 0 out only moved the weights up, and can be undone.
LEMMA TurnBack ==
    ASSUME NEW x \in Register, NEW y, y = Shift(x) \cap (0 .. 15), 0 \notin y
    PROVE  15 \notin x /\ \A v \in 0 .. 14 : v \in x <=> v + 1 \in y
<1>1. \A v \in 0 .. 15 : v \in y <=> ~ (v - 1 \in x <=> (15 \in x /\ v \in Polynomial))
    BY ShiftBits
<1>2. 0 - 1 \notin x /\ 0 \in Polynomial
    BY DEF Register, Polynomial
<1>3. 15 \notin x
    BY <1>1, <1>2
<1>4. \A v \in 0 .. 14 : v + 1 \in 0 .. 15 /\ (v + 1) - 1 = v
    OBVIOUS
<1>5. QED
    BY <1>1, <1>3, <1>4

\* As long as the turns after it lost no weight, an earlier register is the
\* last one moved down.
LEMMA TurnsBack ==
    ASSUME NEW start, NEW t, Turns(t, start, 0 .. 15), NEW from \in 0 .. 8,
           \A w \in t[8] : w >= 8 - from
    PROVE  \A v \in 0 .. 15 : v \in t[from] <=> v + (8 - from) \in t[8]
<1> DEFINE Same(j) == \A v \in 0 .. 15 : v \in t[j] <=> v + (8 - j) \in t[8]
           T == {j \in from .. 8 : Same(j)}
<1>1. \A j \in 0 .. 8 : t[j] \in Register
    BY DEF Turns, Register
<1>2. Same(8)
    OBVIOUS
<1>3. 8 \in T /\ T \subseteq Nat
    BY <1>2
<1>4. PICK x \in T : \A y \in T : x <= y
  <2> HIDE DEF T
  <2>1. QED
    BY <1>3, LeastElement
<1>5. x \in from .. 8 /\ Same(x)
    BY <1>4
<1>6. ASSUME x # from PROVE FALSE
  <2> DEFINE j == x - 1
  <2>1. j \in from .. 8 /\ j \in 0 .. 8 /\ x \in 1 .. 8 /\ x - 1 = j /\ j < x
    BY <1>5, <1>6
  <2>2. t[j] \in Register /\ t[x] = Shift(t[j]) \cap (0 .. 15)
    BY <1>1, <2>1 DEF Turns
  <2>3. 0 \notin t[x]
    <3>1. 0 + (8 - x) < 8 - from
      BY <1>5, <1>6
    <3>2. 0 + (8 - x) \notin t[8]
      BY <3>1, <2>1
    <3>3. QED
      BY <1>5, <3>2
  <2>4. 15 \notin t[j] /\ \A v \in 0 .. 14 : v \in t[j] <=> v + 1 \in t[x]
    BY <2>2, <2>3, TurnBack
  <2>5. ASSUME NEW v \in 0 .. 15 PROVE v \in t[j] <=> v + (8 - j) \in t[8]
    <3>1. CASE v = 15
      <4>1. v + (8 - j) \notin 0 .. 15
        BY <2>1, <3>1
      <4>2. t[8] \subseteq 0 .. 15
        BY <1>1 DEF Register
      <4>3. QED
        BY <2>4, <3>1, <4>1, <4>2
    <3>2. CASE v \in 0 .. 14
      <4>1. v + 1 \in 0 .. 15 /\ (v + 1) + (8 - x) = v + (8 - j)
        BY <2>1, <3>2
      <4>2. v + 1 \in t[x] <=> (v + 1) + (8 - x) \in t[8]
        BY <1>5, <4>1
      <4>3. QED
        BY <2>4, <3>2, <4>1, <4>2
    <3>3. QED
      BY <3>1, <3>2
  <2>6. j \in T
    BY <2>1, <2>5
  <2>7. QED
    BY <1>4, <2>1, <2>6
<1>7. QED
    BY <1>5, <1>6

\* As long as the turns before it lost no weight, a later register is the
\* first one moved up.
LEMMA TurnsAhead ==
    ASSUME NEW start \in Register, NEW t, Turns(t, start, 0 .. 15), NEW n \in 0 .. 8,
           \A w \in start : w + n <= 15
    PROVE  \A v \in 0 .. 15 : v \in t[n] <=> v - n \in start
<1> DEFINE Same(j) == \A v \in 0 .. 15 : v \in t[j] <=> v - j \in start
           S == {j \in 0 .. 8 : j > n \/ Same(j)}
<1>1. 0 \in S
    BY DEF Turns
<1>2. ASSUME NEW j \in 0 .. 8 - 1, j \in S PROVE j + 1 \in S
  <2>1. j + 1 \in 1 .. 8 /\ j + 1 \in 0 .. 8 /\ j \in 0 .. 8 /\ (j + 1) - 1 = j
    OBVIOUS
  <2>2. SUFFICES ASSUME j + 1 <= n PROVE Same(j + 1)
    BY <2>1
  <2>3. Same(j)
    BY <1>2, <2>2
  <2>4. t[j] \in Register /\ t[j + 1] = Shift(t[j]) \cap (0 .. 15)
    BY <2>1 DEF Turns, Register
  <2>5. 15 \notin t[j]
    <3>1. 15 - j \notin start
      BY <2>2
    <3>2. QED
      BY <2>3, <3>1
  <2>6. \A v \in 0 .. 15 : v \in t[j + 1] <=> v - 1 \in t[j]
    BY <2>4, <2>5, ShiftBits
  <2>7. ASSUME NEW v \in 0 .. 15 PROVE v \in t[j + 1] <=> v - (j + 1) \in start
    <3>1. CASE v = 0
      <4>1. v - 1 \notin 0 .. 15 /\ v - (j + 1) \notin 0 .. 15
        BY <3>1
      <4>2. QED
        BY <2>4, <2>6, <4>1 DEF Register
    <3>2. CASE v \in 1 .. 15
      <4>1. v - 1 \in 0 .. 15 /\ (v - 1) - j = v - (j + 1)
        BY <3>2
      <4>2. QED
        BY <2>3, <2>6, <4>1
    <3>3. QED
      BY <3>1, <3>2
  <2>8. QED
    BY <2>7
<1>3. \A j \in 0 .. 8 : j \in S
  <2>1. \A j \in 0 .. 8 - 1 : j \in S => j + 1 \in S
    BY <1>2
  <2> HIDE DEF S
  <2>2. QED
    BY <1>1, <2>1, Climb
<1>4. n \in S /\ ~ (n > n)
    BY <1>3
<1>5. QED
    BY <1>4

\* No difference before the first flip.
LEMMA QuietBefore ==
    ASSUME NEW d, NEW flips, Differs(d, flips), NEW p \in Nat,
           \A q \in flips : q \in Nat /\ p <= q
    PROVE  \A k \in 0 .. 23 : 8 * k <= p => d[k] = {}
<1> DEFINE S == {k \in 0 .. 23 : 8 * k > p \/ d[k] = {}}
<1>1. 0 \in S
    BY DEF Differs
<1>2. ASSUME NEW k \in 0 .. 23 - 1, k \in S PROVE k + 1 \in S
  <2>1. k \in 0 .. 22 /\ k + 1 \in 0 .. 23 /\ k \in Nat
    OBVIOUS
  <2>2. SUFFICES ASSUME 8 * (k + 1) <= p PROVE d[k + 1] = {}
    BY <2>1
  <2>3. d[k] = {} /\ {} \in Register
    BY <1>2, <2>2 DEF Register
  <2>4. PICK t : Turns(t, Mixed({}, flips, k), 0 .. 15) /\ d[k + 1] = t[8]
    BY <2>1, <2>3 DEF Differs
  <2>5. \A v \in 0 .. 15 : v \notin Mixed({}, flips, k)
    <3>1. TAKE v \in 0 .. 15
    <3>2. v \in Mixed({}, flips, k) <=> ~ (v \in {} <=> (v >= 8 /\ 8 * k + 15 - v \in flips))
      BY <2>1, <2>3, MixedBits
    <3>3. v >= 8 => ~ (p <= 8 * k + 15 - v)
      BY <2>1, <2>2
    <3>4. QED
      BY <3>2, <3>3
  <2>6. Mixed({}, flips, k) \in Register
    BY <2>1, <2>3, MixedIsRegister
  <2>7. \A v \in 0 .. 15 : v \in t[8] <=> v - 8 \in Mixed({}, flips, k)
    <3>1. \A w \in Mixed({}, flips, k) : w + 8 <= 15
      BY <2>5, <2>6 DEF Register
    <3>2. QED
      BY <2>4, <2>6, <3>1, TurnsAhead
  <2>8. \A v \in 0 .. 15 : v - 8 \notin Mixed({}, flips, k)
    BY <2>5, <2>6 DEF Register
  <2>9. t[8] \in Register
    BY <2>4 DEF Turns, Register
  <2>10. t[8] = {}
    BY <2>7, <2>8, <2>9 DEF Register
  <2>11. QED
    BY <2>4, <2>10
<1>3. \A k \in 0 .. 23 : k \in S
  <2>1. \A k \in 0 .. 23 - 1 : k \in S => k + 1 \in S
    BY <1>2
  <2> HIDE DEF S
  <2>2. QED
    BY <1>1, <2>1, Climb
<1>4. QED
    BY <1>3

\* The difference that would make the checksum right: that of the flips to come.
FlipsAhead(d, flips, k) == \A v \in 0 .. 15 : v \in d[k] <=> 8 * k + 15 - v \in flips

\* A burst of noise: its first bit, and no other after the 15 next.
IsBurst(flips, p) == p \in flips /\ \A q \in flips : q \in p .. p + 15

\* When the difference after a byte is what the burst still flips ahead, so it was
\* before that byte, and the burst does not start in it.
LEMMA BurstBack ==
    ASSUME NEW p \in Nat, NEW flips, IsBurst(flips, p), NEW d, Differs(d, flips),
           NEW k \in 0 .. 22, p < 8 * (k + 1), FlipsAhead(d, flips, k + 1)
    PROVE  p <= 8 * k /\ FlipsAhead(d, flips, k)
<1>1. /\ k \in Nat /\ k \in 0 .. 23 /\ k + 1 \in 0 .. 23
      /\ d[k] \in Register /\ d[k + 1] \in Register
    BY DEF Differs
<1> DEFINE start == Mixed(d[k], flips, k)
<1>2. PICK t : Turns(t, start, 0 .. 15) /\ d[k + 1] = t[8]
    BY DEF Differs
<1>3. start \in Register /\ t[0] = start
    BY <1>1, <1>2, MixedIsRegister DEF Turns
<1>4. \A v \in 0 .. 15 : v \in start <=> ~ (v \in d[k] <=> (v >= 8 /\ 8 * k + 15 - v \in flips))
    BY <1>1, MixedBits
<1> HIDE DEF start
<1>5. \A v \in 0 .. 15 : v \in t[8] <=> 8 * (k + 1) + 15 - v \in flips
    BY <1>2 DEF FlipsAhead
<1>6. \A w \in t[8] : w \in 0 .. 15 /\ w >= 8 * (k + 1) - p
  <2>1. TAKE w \in t[8]
  <2>2. w \in 0 .. 15
    BY <1>1, <1>2 DEF Register
  <2>3. 8 * (k + 1) + 15 - w <= p + 15
    BY <1>5, <2>2 DEF IsBurst
  <2>4. QED
    BY <1>1, <2>2, <2>3
<1>7. ASSUME 8 * k < p PROVE FALSE
  <2> DEFINE n == p - 8 * k
  <2>1. n \in 1 .. 7 /\ n \in 0 .. 8 /\ 8 - n = 8 * (k + 1) - p
    BY <1>1, <1>7
  <2>2. d[k] = {}
    <3>1. \A q \in flips : q \in Nat /\ p <= q
      BY DEF IsBurst
    <3>2. QED
      BY <1>1, <1>7, <3>1, QuietBefore
  <2>3. \A v \in 0 .. 15 : v \in start <=> v >= 8 /\ 8 * k + 15 - v \in flips
    BY <1>4, <2>2
  <2>4. \A w \in start : w + n <= 15
    <3>1. TAKE w \in start
    <3>2. w \in 0 .. 15
      BY <1>3 DEF Register
    <3>3. p <= 8 * k + 15 - w
      BY <2>3, <3>2 DEF IsBurst
    <3>4. QED
      BY <1>1, <3>2, <3>3
  <2>5. 15 - n \in start
    <3>1. 15 - n \in 0 .. 15 /\ 15 - n >= 8 /\ 8 * k + 15 - (15 - n) = p
      BY <1>1, <2>1
    <3>2. QED
      BY <2>3, <3>1 DEF IsBurst
  <2> HIDE DEF n
  <2>6. 15 \in t[n]
    <3>1. \A v \in 0 .. 15 : v \in t[n] <=> v - n \in start
      BY <1>2, <1>3, <2>1, <2>4, TurnsAhead
    <3>2. QED
      BY <2>5, <3>1
  <2>7. 15 \notin t[n]
    <3>1. \A w \in t[8] : w >= 8 - n
      BY <1>6, <2>1
    <3>2. \A v \in 0 .. 15 : v \in t[n] <=> v + (8 - n) \in t[8]
      BY <1>2, <2>1, <3>1, TurnsBack
    <3>3. 15 + (8 - n) \notin 0 .. 15
      BY <2>1
    <3>4. QED
      BY <1>6, <3>2, <3>3
  <2>8. QED
    BY <2>6, <2>7
<1>8. p <= 8 * k
    BY <1>1, <1>7
<1>9. \A v \in 0 .. 15 : v \in start <=> v + 8 \in t[8]
  <2>1. \A w \in t[8] : w >= 8 - 0
    BY <1>1, <1>6, <1>8
  <2>2. \A v \in 0 .. 15 : v \in t[0] <=> v + (8 - 0) \in t[8]
    BY <1>2, <2>1, TurnsBack
  <2>3. QED
    BY <1>3, <2>2
<1>10. ASSUME NEW v \in 0 .. 15 PROVE v \in d[k] <=> 8 * k + 15 - v \in flips
  <2>1. CASE v \in 8 .. 15
    <3>1. v + 8 \notin t[8]
      BY <1>6, <2>1
    <3>2. QED
      BY <1>4, <1>9, <2>1, <3>1
  <2>2. CASE v \in 0 .. 7
    <3>1. v + 8 \in 0 .. 15 /\ 8 * (k + 1) + 15 - (v + 8) = 8 * k + 15 - v
      BY <1>1, <2>2
    <3>2. v + 8 \in t[8] <=> 8 * k + 15 - v \in flips
      BY <1>5, <3>1
    <3>3. QED
      BY <1>4, <1>9, <2>2, <3>2
  <2>3. QED
    BY <2>1, <2>2
<1>11. QED
    BY <1>8, <1>10 DEF FlipsAhead

\* The last difference is never what the burst does to the checksum.
LEMMA BurstSeen ==
    ASSUME NEW p \in 0 .. 199, NEW flips, IsBurst(flips, p), NEW d, Differs(d, flips)
    PROVE  ~ FlipsAhead(d, flips, 23)
<1> SUFFICES ASSUME FlipsAhead(d, flips, 23) PROVE FALSE
    OBVIOUS
<1> DEFINE T == {k \in 0 .. 23 : FlipsAhead(d, flips, k) /\ p <= 8 * k + 15}
<1>1. 23 \in T /\ T \subseteq Nat
    OBVIOUS
<1>2. PICK x \in T : \A y \in T : x <= y
  <2> HIDE DEF T
  <2>1. QED
    BY <1>1, LeastElement
<1>3. x \in 0 .. 23 /\ FlipsAhead(d, flips, x) /\ p <= 8 * x + 15
    BY <1>2
<1>4. 8 * x <= p
  <2>1. SUFFICES ASSUME p < 8 * x PROVE FALSE
    BY <1>3
  <2> DEFINE k == x - 1
  <2>2. k \in 0 .. 22 /\ k \in 0 .. 23 /\ k + 1 = x /\ k < x
    BY <1>3, <2>1
  <2>3. p <= 8 * k /\ FlipsAhead(d, flips, k)
    <3>1. p < 8 * (k + 1) /\ FlipsAhead(d, flips, k + 1)
      BY <1>3, <2>1, <2>2
    <3> HIDE DEF k
    <3>2. QED
      BY <2>2, <3>1, BurstBack
  <2>4. k \in T
    BY <2>2, <2>3
  <2>5. QED
    BY <1>2, <2>2, <2>4
<1>5. d[x] = {}
  <2>1. \A q \in flips : q \in Nat /\ p <= q
    BY DEF IsBurst
  <2>2. QED
    BY <1>3, <1>4, <2>1, QuietBefore
<1>6. 8 * x + 15 - p \in 0 .. 15 /\ 8 * x + 15 - (8 * x + 15 - p) = p
    BY <1>3, <1>4
<1>7. 8 * x + 15 - p \in d[x]
    BY <1>3, <1>6 DEF FlipsAhead, IsBurst
<1>8. QED
    BY <1>5, <1>7

\* The cloud does not accept a packed payload with a burst of noise.
LEMMA BurstIsRejected ==
    ASSUME NEW r, NEW p \in PayloadBits, NEW flips, IsBurst(flips, p)
    PROVE  ~ Accepted(SymDiff(PackPayload(r), flips))
<1> DEFINE sent == PackPayload(r)
           noisy == SymDiff(sent, flips)
<1>1. SUFFICES ASSUME Accepted(noisy) PROVE FALSE
    OBVIOUS
<1>2. Crc16Py(sent) = Check(sent) /\ Crc16Py(noisy) = Check(noisy)
    BY <1>1, PackedIsAccepted DEF Accepted, Check
<1>3. \A p1 : p1 \in noisy <=> ~ (p1 \in sent <=> p1 \in flips)
    BY DEF SymDiff
<1> HIDE DEF sent, noisy
<1>4. PICK a : Registered(a, sent) /\ Crc(sent, Unbounded, Uint16) = a[23]
    BY BothKeepByte, CrcRegisters
<1>5. PICK b : Registered(b, noisy) /\ Crc(noisy, Unbounded, Uint16) = b[23]
    BY BothKeepByte, CrcRegisters
<1>6. a[23] = Check(sent) /\ b[23] = Check(noisy)
    BY <1>2, <1>4, <1>5 DEF Crc16Py
<1> DEFINE d == [k \in 0 .. 23 |-> SymDiff(a[k], b[k])]
<1>7. Differs(d, flips)
    BY <1>4, <1>5, NoiseDiffers DEF noisy
<1>8. d[23] = SymDiff(Check(sent), Check(noisy))
    BY <1>6
<1> HIDE DEF d
<1>9. ASSUME NEW v \in 0 .. 15 PROVE v \in d[23] <=> 8 * 23 + 15 - v \in flips
  <2>1. v \in d[23] <=> ~ (v \in Check(sent) <=> v \in Check(noisy))
    BY <1>8 DEF SymDiff
  <2>2. v \in Check(sent) <=> 199 - v \in sent
    BY CheckBits
  <2>3. v \in Check(noisy) <=> 199 - v \in noisy
    BY CheckBits
  <2>4. 8 * 23 + 15 - v = 199 - v
    OBVIOUS
  <2>5. QED
    BY <1>3, <2>1, <2>2, <2>3, <2>4
<1>10. FlipsAhead(d, flips, 23)
    BY <1>9 DEF FlipsAhead
<1>11. p \in 0 .. 199
    BY DEF PayloadBits, PAYLOAD_SIZE
<1>12. QED
    BY <1>7, <1>10, <1>11, BurstSeen

-----------------------------------------------------------------------------
(* Powers of two, and the bits of a number.                                *)

\* A power of two doubles the last one.
LEMMA Doubling ==
    \A w \in 0 .. 30 : 2^w \in Nat /\ 2^w > 0 /\ 2^(w + 1) = 2 * 2^w
<1>1. SUFFICES ASSUME NEW w \in 0 .. 30
               PROVE  2^w \in Nat /\ 2^w > 0 /\ 2^(w + 1) = 2 * 2^w
    OBVIOUS
<1>2. CASE w = 0 BY <1>2
<1>3. CASE w = 1 BY <1>3
<1>4. CASE w = 2 BY <1>4
<1>5. CASE w = 3 BY <1>5
<1>6. CASE w = 4 BY <1>6
<1>7. CASE w = 5 BY <1>7
<1>8. CASE w = 6 BY <1>8
<1>9. CASE w = 7 BY <1>9
<1>10. CASE w = 8 BY <1>10
<1>11. CASE w = 9 BY <1>11
<1>12. CASE w = 10 BY <1>12
<1>13. CASE w = 11 BY <1>13
<1>14. CASE w = 12 BY <1>14
<1>15. CASE w = 13 BY <1>15
<1>16. CASE w = 14 BY <1>16
<1>17. CASE w = 15 BY <1>17
<1>18. CASE w = 16 BY <1>18
<1>19. CASE w = 17 BY <1>19
<1>20. CASE w = 18 BY <1>20
<1>21. CASE w = 19 BY <1>21
<1>22. CASE w = 20 BY <1>22
<1>23. CASE w = 21 BY <1>23
<1>24. CASE w = 22 BY <1>24
<1>25. CASE w = 23 BY <1>25
<1>26. CASE w = 24 BY <1>26
<1>27. CASE w = 25 BY <1>27
<1>28. CASE w = 26 BY <1>28
<1>29. CASE w = 27 BY <1>29
<1>30. CASE w = 28 BY <1>30
<1>31. CASE w = 29 BY <1>31
<1>32. CASE w = 30 BY <1>32
<1>33. QED
    BY <1>2, <1>3, <1>4, <1>5, <1>6, <1>7, <1>8, <1>9, <1>10, <1>11, <1>12, <1>13, <1>14,
       <1>15, <1>16, <1>17, <1>18, <1>19, <1>20, <1>21, <1>22, <1>23, <1>24, <1>25, <1>26, <1>27,
       <1>28, <1>29, <1>30, <1>31, <1>32

\* The power as a number of its own.
TwoTo(w) == 2^w

LEMMA TwoToGrows ==
    ASSUME NEW n \in 0 .. 31
    PROVE  /\ TwoTo(n) \in Nat /\ TwoTo(n) > 0
           /\ \A w \in n .. 31 : TwoTo(w) \in Nat /\ TwoTo(n) <= TwoTo(w)
<1>1. \A w \in 0 .. 30 : TwoTo(w) \in Nat /\ TwoTo(w) > 0 /\ TwoTo(w + 1) = 2 * TwoTo(w)
    BY Doubling DEF TwoTo
<1>2. TwoTo(31) \in Nat /\ TwoTo(31) > 0
    BY DEF TwoTo
<1>3. \A m \in 0 .. 31 : TwoTo(m) \in Nat /\ TwoTo(m) > 0
  <2>1. \A m \in 0 .. 31 : m = 31 \/ m \in 0 .. 30
    OBVIOUS
  <2>2. QED
    BY <1>1, <1>2, <2>1
<1> DEFINE S == {k \in 0 .. 31 : n + k <= 31 => TwoTo(n) <= TwoTo(n + k)}
<1>4. 0 \in S
    BY <1>3
<1>5. ASSUME NEW k \in 0 .. 31 - 1, k \in S PROVE k + 1 \in S
  <2>1. SUFFICES ASSUME n + (k + 1) <= 31 PROVE TwoTo(n) <= TwoTo(n + (k + 1))
    OBVIOUS
  <2>2. n + k \in 0 .. 30 /\ n + k \in 0 .. 31 /\ n + k <= 31 /\ (n + k) + 1 = n + (k + 1)
    BY <2>1
  <2>3. TwoTo(n) <= TwoTo(n + k) /\ TwoTo(n) \in Nat /\ TwoTo(n + k) \in Nat
    BY <1>3, <1>5, <2>2
  <2>4. TwoTo((n + k) + 1) = 2 * TwoTo(n + k)
    BY <1>1, <2>2
  <2>5. QED
    BY <2>2, <2>3, <2>4
<1>6. \A k \in 0 .. 31 : k \in S
  <2>1. \A k \in 0 .. 31 - 1 : k \in S => k + 1 \in S
    BY <1>5
  <2> HIDE DEF S
  <2>2. QED
    BY <1>4, <2>1, Climb
<1>7. \A w \in n .. 31 : w - n \in 0 .. 31 /\ n + (w - n) = w /\ w <= 31 /\ w \in 0 .. 31
    OBVIOUS
<1>8. \A w \in n .. 31 : TwoTo(n) <= TwoTo(w)
    BY <1>6, <1>7
<1>9. QED
    BY <1>3, <1>7, <1>8

\* A number below 2^n has no weight from n on.
LEMMA BitsBelow ==
    ASSUME NEW n \in 0 .. 31, NEW x \in Nat, x < TwoTo(n)
    PROVE  Bits(x) \subseteq 0 .. n - 1
<1>1. \A m \in Nat : x < m => (x \div m) % 2 = 0
  <2>1. \A m \in Nat : x < m => x \div m = 0
    OBVIOUS
  <2>2. QED
    BY <2>1
<1>2. \A w \in n .. 30 : (x \div TwoTo(w)) % 2 = 0
  <2>1. TAKE w \in n .. 30
  <2>2. w \in n .. 31
    OBVIOUS
  <2>3. TwoTo(n) \in Nat /\ TwoTo(w) \in Nat /\ TwoTo(n) <= TwoTo(w)
    BY <2>2, TwoToGrows
  <2>4. x < TwoTo(w)
    BY <2>3
  <2>5. QED
    BY <1>1, <2>3, <2>4
<1>3. \A w \in 0 .. 30 : w \in n .. 30 \/ w \in 0 .. n - 1
    OBVIOUS
<1>4. Bits(x) = {w \in 0 .. 30 : (x \div TwoTo(w)) % 2 = 1}
    BY DEF Bits, TwoTo
<1>5. QED
    BY <1>2, <1>3, <1>4

\* Quotients and remainders of a number's half and its whole.
LEMMA NextBit ==
    ASSUME NEW x \in Nat, NEW m \in Nat, m > 0
    PROVE  x % (2 * m) = (x % m) + (IF (x \div m) % 2 = 1 THEN m ELSE 0)
<1> DEFINE q == x \div m
           r == x % m
           h == q \div 2
           b == q % 2
<1>1. q \in Nat /\ r \in Nat /\ r < m /\ x = m * q + r
    BY Z3
<1> HIDE DEF q, r
<1>2. h \in Nat /\ b \in {0, 1} /\ q = 2 * h + b
    BY <1>1
<1> HIDE DEF h, b
<1>3. x = (2 * m) * h + (m * b + r)
    BY <1>1, <1>2
<1>4. m * b + r \in Nat /\ m * b + r < 2 * m
  <2>1. CASE b = 0
    BY <1>1, <2>1
  <2>2. CASE b = 1
    BY <1>1, <2>2
  <2>3. QED
    BY <1>2, <2>1, <2>2
<1>5. \A c, k, s \in Nat : s < c => (c * k + s) % c = s
    BY Z3
<1>6. x % (2 * m) = m * b + r
  <2>1. 2 * m \in Nat
    OBVIOUS
  <2>2. QED
    BY <1>2, <1>3, <1>4, <1>5, <2>1
<1>7. m * b = IF b = 1 THEN m ELSE 0
    BY <1>2
<1>8. QED
    BY <1>6, <1>7, <1>1 DEF q, r, b

LEMMA ModBelow ==
    ASSUME NEW x \in Nat, NEW m \in Nat, x < m
    PROVE  x % m = x
OBVIOUS

\* Adding up the weights below n of a number gives its remainder by 2^n.
LEMMA ValueOfBits ==
    ASSUME NEW n \in 0 .. 31, NEW x \in Nat, x < TwoTo(31)
    PROVE  Value(Bits(x) \cap (0 .. n - 1)) = x % TwoTo(n)
<1> DEFINE bits == Bits(x) \cap (0 .. n - 1)
           Add(k) == IF k - 1 \in bits THEN TwoTo(k - 1) ELSE 0
           step == [k \in 1 .. 31 |-> [s \in Nat |-> s + Add(k)]]
           Is(a) == a = [k \in 0 .. 31 |-> IF k = 0 THEN 0 ELSE a[k - 1] + Add(k)]
           sum == CHOOSE a : Is(a)
<1>1. Value(bits) = sum[31]
    BY DEF Value, TwoTo
<1>2. \A k \in 1 .. 31 : k - 1 \in 0 .. 30 /\ k - 1 \in 0 .. 31 /\ TwoTo(k - 1) \in Nat
    BY TwoToGrows
<1> HIDE DEF bits
<1>3. \A k \in 1 .. 31 : Add(k) \in Nat
    BY <1>2
<1> HIDE DEF Add
<1>4. PICK a : Iterates(a, 31, Nat, 0, step)
  <2>1. Steps(step, 31, Nat)
    BY <1>3 DEF Steps
  <2> HIDE DEF step
  <2>2. QED
    BY <2>1, StepByStep
<1>5. /\ a \in [0 .. 31 -> Nat] /\ a[0] = 0
      /\ \A k \in 1 .. 31 : a[k] = a[k - 1] + Add(k)
    BY <1>2, <1>4 DEF Iterates
<1>6. Is(a)
  <2> DEFINE b == [k \in 0 .. 31 |-> IF k = 0 THEN 0 ELSE a[k - 1] + Add(k)]
  <2>1. \A k \in 0 .. 31 : k = 0 \/ k \in 1 .. 31
    OBVIOUS
  <2>2. \A k \in 0 .. 31 : a[k] = b[k]
    BY <1>5, <2>1
  <2>3. QED
    BY <1>5, <2>2
<1> HIDE DEF Is
<1>7. Is(sum)
    BY <1>6
<1>8. sum = [k \in 0 .. 31 |-> IF k = 0 THEN 0 ELSE sum[k - 1] + Add(k)]
    BY <1>7 DEF Is
<1> HIDE DEF sum
<1>9. sum[0] = 0 /\ \A k \in 1 .. 31 : sum[k] = sum[k - 1] + Add(k)
  <2>1. \A k \in 0 .. 31 : sum[k] = IF k = 0 THEN 0 ELSE sum[k - 1] + Add(k)
    BY <1>8
  <2>2. QED
    BY <2>1
<1> DEFINE S == {k \in 0 .. 31 : sum[k] = IF k <= n THEN x % TwoTo(k) ELSE x % TwoTo(n)}
<1>10. 0 \in S
  <2>1. TwoTo(0) = 1
    BY DEF TwoTo
  <2>2. QED
    BY <1>9, <2>1
<1>11. ASSUME NEW k \in 0 .. 31 - 1, k \in S PROVE k + 1 \in S
  <2>1. k + 1 \in 1 .. 31 /\ k + 1 \in 0 .. 31 /\ (k + 1) - 1 = k /\ k \in 0 .. 30
    OBVIOUS
  <2>2. sum[k + 1] = sum[k] + Add(k + 1)
    BY <1>9, <2>1
  <2>3. CASE k + 1 <= n
    <3>1. sum[k] = x % TwoTo(k)
      BY <1>11, <2>3
    <3>2. TwoTo(k) \in Nat /\ TwoTo(k) > 0 /\ TwoTo(k + 1) = 2 * TwoTo(k)
      BY <2>1, Doubling DEF TwoTo
    <3>3. k \in bits <=> (x \div TwoTo(k)) % 2 = 1
      <4>1. k \in 0 .. n - 1
        BY <2>3
      <4>2. QED
        BY <2>1, <4>1 DEF bits, Bits, TwoTo
    <3>4. Add(k + 1) = IF (x \div TwoTo(k)) % 2 = 1 THEN TwoTo(k) ELSE 0
      BY <2>1, <3>3 DEF Add
    <3>5. x % (2 * TwoTo(k)) = (x % TwoTo(k)) + (IF (x \div TwoTo(k)) % 2 = 1 THEN TwoTo(k) ELSE 0)
      BY <3>2, NextBit
    <3>6. sum[k + 1] = x % TwoTo(k + 1)
      BY <2>2, <3>1, <3>2, <3>4, <3>5
    <3>7. QED
      BY <2>1, <2>3, <3>6
  <2>4. CASE ~ (k + 1 <= n)
    <3>1. sum[k] = x % TwoTo(n)
      <4>1. k = n \/ ~ (k <= n)
        BY <2>4
      <4>2. QED
        BY <1>11, <4>1
    <3>2. k \notin bits
      BY <2>4 DEF bits
    <3>3. Add(k + 1) = 0
      BY <2>1, <3>2 DEF Add
    <3>4. x % TwoTo(n) \in Int
      BY TwoToGrows
    <3>5. sum[k + 1] = x % TwoTo(n)
      BY <2>2, <3>1, <3>3, <3>4
    <3>6. QED
      BY <2>1, <2>4, <3>5
  <2>5. QED
    BY <2>3, <2>4
<1>12. \A k \in 0 .. 31 : k \in S
  <2>1. \A k \in 0 .. 31 - 1 : k \in S => k + 1 \in S
    BY <1>11
  <2> HIDE DEF S
  <2>2. QED
    BY <1>10, <2>1, Climb
<1>13. sum[31] = x % TwoTo(n)
  <2>1. 31 \in S
    BY <1>12
  <2>2. 31 <= n => n = 31
    OBVIOUS
  <2>3. QED
    BY <2>1, <2>2
<1>14. QED
    BY <1>1, <1>13 DEF bits

-----------------------------------------------------------------------------
(* What the machine's registers hold, and what is read from them.          *)

\* A register holds 16 bits, and the clock stays below 2^31.
LEMMA Words ==
    /\ \A n : n \in 0 .. UINT16_MAX <=> n \in Nat /\ n < 65536
    /\ BaseTs \in Nat /\ BaseTs < 2147483648
    /\ \A seq \in 0 .. UINT16_MAX : BaseTs + 60 * seq < 2147483648
<1>1. UINT16_MAX \in Nat /\ UINT16_MAX < 65536 /\ UINT16_MAX >= 65535
    BY SMT DEF UINT16_MAX
<1>2. QED
    BY <1>1, BaseTsAssumption, SMT

\* Two words joined again are the number that was split.
LEMMA JoinsWords ==
    ASSUME NEW n \in Nat, n < 2147483648
    PROVE  /\ Join(High(n), Low(n)) = n
           /\ High(n) \in 0 .. UINT16_MAX /\ Low(n) \in 0 .. UINT16_MAX
<1>1. n \div 65536 \in Nat /\ n \div 65536 < 65536
    BY SMT
<1>2. High(n) = n \div 65536
    BY <1>1, SMT DEF High
<1>3. /\ (65536 * (n \div 65536)) + (n % 65536) = n
      /\ n % 65536 \in Nat /\ n % 65536 < 65536
    BY SMT
<1>4. QED
    BY <1>1, <1>2, <1>3, Words, SMT DEF Join, Low

\* The numbers hal_sensor_read makes of the registers.
Read(regs, seq) ==
    [state |-> LowByte(regs.STATE), pallet_id |-> Join(regs.PALLET_HIGH, regs.PALLET_LOW),
     wrap_time |-> regs.WRAP_TIME, wrap_transit |-> regs.WRAP_TRANSIT,
     rotations |-> regs.ROTATIONS, program |-> LowByte(regs.PROGRAM),
     perimeter |-> regs.PERIMETER, running |-> Join(regs.RUN_HIGH, regs.RUN_LOW),
     alarm |-> Join(regs.ALARM_HIGH, regs.ALARM_LOW),
     timestamp |-> Join(regs.TS_HIGH, regs.TS_LOW), seq_number |-> seq, device_id |-> 1]

LEMMA ReadsBits ==
    ASSUME NEW regs, NEW seq
    PROVE  /\ HalSensorRead(regs, seq) = [f \in Field |-> Bits(Read(regs, seq)[f])]
           /\ \A f \in Field : HalSensorRead(regs, seq)[f] = Bits(Read(regs, seq)[f])
<1>1. HalSensorRead(regs, seq) = [f \in Field |-> Bits(Read(regs, seq)[f])]
    BY DEF HalSensorRead, Read
<1>2. QED
    BY <1>1

\* What the machine's numbers are at reading seq, and how large they get.
State(seq) == IF seq % 20 < 10 THEN 30 ELSE 31
Pallet(seq) == 159307 + seq \div 10
Wrap(seq) == 450 + (seq % 30)
Transit(seq) == 700 + (seq % 50)
Laps(seq) == 820 + (seq % 20)
Running(seq) == 60 * seq
Alarm(seq) == IF seq > 5 THEN 2 * (seq - 5) ELSE 0
Time(seq) == BaseTs + 60 * seq

LEMMA TickedNumbers ==
    ASSUME NEW seq \in 0 .. UINT16_MAX
    PROVE  /\ seq \in Nat /\ seq < 65536
           /\ State(seq) \in {30, 31} /\ (State(seq) = 30 <=> (seq \div 10) % 2 = 0)
           /\ Pallet(seq) \in Nat /\ Pallet(seq) < 262144
           /\ Wrap(seq) \in Nat /\ Wrap(seq) < 480
           /\ Transit(seq) \in Nat /\ Transit(seq) < 750
           /\ Laps(seq) \in Nat /\ 820 <= Laps(seq) /\ Laps(seq) < 840
           /\ Running(seq) \in Nat /\ Running(seq) < 3932160
           /\ Alarm(seq) \in Nat /\ Alarm(seq) < 131072
           /\ Alarm(seq) = IF seq < 5 THEN 0 ELSE 2 * seq - 10
           /\ Time(seq) \in Nat /\ Time(seq) < 2147483648
<1>1. seq \in Nat /\ seq < 65536
    BY Words, SMT
<1>2. State(seq) \in {30, 31} /\ (State(seq) = 30 <=> (seq \div 10) % 2 = 0)
    BY <1>1, SMT DEF State
<1>3. Pallet(seq) \in Nat /\ Pallet(seq) < 262144
    BY <1>1, SMT DEF Pallet
<1>4. /\ Wrap(seq) \in Nat /\ Wrap(seq) < 480
      /\ Transit(seq) \in Nat /\ Transit(seq) < 750
      /\ Laps(seq) \in Nat /\ 820 <= Laps(seq) /\ Laps(seq) < 840
    BY <1>1, SMT DEF Wrap, Transit, Laps
<1>5. Running(seq) \in Nat /\ Running(seq) < 3932160
    BY <1>1, SMT DEF Running
<1>6. /\ Alarm(seq) \in Nat /\ Alarm(seq) < 131072
      /\ Alarm(seq) = IF seq < 5 THEN 0 ELSE 2 * seq - 10
    BY <1>1, SMT DEF Alarm
<1>7. Time(seq) \in Nat /\ Time(seq) < 2147483648
    BY <1>1, Words, SMT DEF Time
<1>8. QED
    BY <1>1, <1>2, <1>3, <1>4, <1>5, <1>6, <1>7

LEMMA TickedIs ==
    ASSUME NEW seq
    PROVE  Ticked(seq) = Registers(State(seq), Pallet(seq), Wrap(seq), Transit(seq), Laps(seq),
                                   15, Running(seq), Alarm(seq), Time(seq))
    BY DEF Ticked, State, Pallet, Wrap, Transit, Laps, Running, Alarm, Time

\* A register holds 16 bits, and two words joined again are what was split.
LEMMA TickedRegisters ==
    ASSUME NEW seq \in 0 .. UINT16_MAX
    PROVE  /\ \A reg \in DOMAIN Ticked(seq) : Ticked(seq)[reg] \in 0 .. UINT16_MAX
           /\ Ticked(seq).ROTATIONS = Laps(seq)
           /\ Read(Ticked(seq), seq) =
                 [state |-> State(seq), pallet_id |-> Pallet(seq), wrap_time |-> Wrap(seq),
                  wrap_transit |-> Transit(seq), rotations |-> Laps(seq), program |-> 15,
                  perimeter |-> 3, running |-> Running(seq), alarm |-> Alarm(seq),
                  timestamp |-> Time(seq), seq_number |-> seq, device_id |-> 1]
<1>1. /\ State(seq) \in 0 .. UINT16_MAX /\ Wrap(seq) \in 0 .. UINT16_MAX
      /\ Transit(seq) \in 0 .. UINT16_MAX /\ Laps(seq) \in 0 .. UINT16_MAX
      /\ 15 \in 0 .. UINT16_MAX
  <2>1. /\ State(seq) \in Nat /\ State(seq) < 65536
        /\ Wrap(seq) \in Nat /\ Wrap(seq) < 65536
        /\ Transit(seq) \in Nat /\ Transit(seq) < 65536
        /\ Laps(seq) \in Nat /\ Laps(seq) < 65536
    BY TickedNumbers, SMT
  <2>2. QED
    BY <2>1, Words, SMT
<1>2. /\ Pallet(seq) \in Nat /\ Pallet(seq) < 2147483648
      /\ Running(seq) \in Nat /\ Running(seq) < 2147483648
      /\ Alarm(seq) \in Nat /\ Alarm(seq) < 2147483648
      /\ Time(seq) \in Nat /\ Time(seq) < 2147483648
    BY TickedNumbers, SMT
<1>3. LowByte(State(seq)) = State(seq) /\ LowByte(15) = 15
    BY TickedNumbers, SMT DEF LowByte
<1>4. \A n \in Nat : n < 2147483648 => /\ Join(High(n), Low(n)) = n
                                       /\ High(n) \in 0 .. UINT16_MAX
                                       /\ Low(n) \in 0 .. UINT16_MAX
    BY JoinsWords
<1>5. 3 \in 0 .. UINT16_MAX
    BY Words, SMT
<1>6. \A reg \in DOMAIN Ticked(seq) : Ticked(seq)[reg] \in 0 .. UINT16_MAX
    BY <1>1, <1>2, <1>4, <1>5, TickedIs, SMT DEF Registers
<1>7. QED
    BY <1>2, <1>3, <1>4, <1>6, TickedIs, SMT DEF Registers, Read

LEMMA InitialRegisters ==
    /\ \A reg \in DOMAIN Registers0 : Registers0[reg] \in 0 .. UINT16_MAX
    /\ Registers0.ROTATIONS = 15
<1>1. /\ 30 \in 0 .. UINT16_MAX /\ 458 \in 0 .. UINT16_MAX /\ 710 \in 0 .. UINT16_MAX
      /\ 15 \in 0 .. UINT16_MAX /\ 0 \in 0 .. UINT16_MAX /\ 3 \in 0 .. UINT16_MAX
    BY Words, SMT
<1>2. BaseTs \in Nat /\ BaseTs < 2147483648
    BY Words
<1>3. /\ High(159307) \in 0 .. UINT16_MAX /\ Low(159307) \in 0 .. UINT16_MAX
      /\ High(4000) \in 0 .. UINT16_MAX /\ Low(4000) \in 0 .. UINT16_MAX
      /\ High(0) \in 0 .. UINT16_MAX /\ Low(0) \in 0 .. UINT16_MAX
      /\ High(BaseTs) \in 0 .. UINT16_MAX /\ Low(BaseTs) \in 0 .. UINT16_MAX
    BY <1>2, JoinsWords, SMT
<1>4. QED
    BY <1>1, <1>3, SMT DEF Registers0, Registers

LEMMA NeverInitial ==
    ASSUME NEW seq \in 0 .. UINT16_MAX
    PROVE  Ticked(seq) # Registers0
    BY TickedRegisters, InitialRegisters, TickedNumbers, SMT

\* What is read is what the machine did, but for the width of the running time.
LEMMA TickedRead ==
    ASSUME NEW seq \in 0 .. UINT16_MAX, NEW f \in Field
    PROVE  Machine(seq)[f] = IF f = "running" THEN Running(seq) % 2^17
                             ELSE Read(Ticked(seq), seq)[f]
<1>1. /\ Machine(seq).state = State(seq) /\ Machine(seq).alarm = Alarm(seq)
    BY TickedNumbers, SMT DEF Machine
<1>2. QED
    BY <1>1, TickedRegisters, Fields, SMT
       DEF Machine, Pallet, Wrap, Transit, Laps, Running, Time

LEMMA Powers ==
    /\ TwoTo(7) = 128 /\ TwoTo(8) = 256 /\ TwoTo(12) = 4096 /\ TwoTo(16) = 65536
    /\ TwoTo(17) = 131072 /\ TwoTo(18) = 262144 /\ TwoTo(31) = 2147483648
    BY SMT DEF TwoTo

\* The weights of a field that a number below 2^31 can have.
Room(f) == IF f = "timestamp" THEN 31 ELSE Width(f)

LEMMA RoomIs ==
    ASSUME NEW f \in Field
    PROVE  /\ Room(f) \in 0 .. 31 /\ Room(f) <= CType[f] /\ CType[f] \in Nat
           /\ (Room(f) = Width(f) \/ (Room(f) = 31 /\ Width(f) = 32))
    BY Fields, SMT DEF Room, Width, Layout, CType

LEMMA RoomBits ==
    ASSUME NEW f \in Field, NEW n
    PROVE  Bits(n) \cap (0 .. Width(f) - 1) = Bits(n) \cap (0 .. Room(f) - 1)
<1>1. Room(f) = Width(f) \/ (Room(f) = 31 /\ Width(f) = 32)
    BY RoomIs
<1>2. \A w \in Bits(n) : w \in 0 .. 30
    BY DEF Bits
<1>3. \A w \in 0 .. 30 : w \in 0 .. Width(f) - 1 <=> w \in 0 .. Room(f) - 1
    BY <1>1
<1>4. QED
    BY <1>2, <1>3

\* Every number read is below 2^31, and but for the running time it fits its field.
LEMMA ReadNumbers ==
    ASSUME NEW seq \in 0 .. UINT16_MAX, NEW f \in Field
    PROVE  /\ Read(Ticked(seq), seq)[f] \in Nat
           /\ Read(Ticked(seq), seq)[f] < TwoTo(31)
           /\ (f # "running" => Read(Ticked(seq), seq)[f] < TwoTo(Room(f)))
<1> DEFINE x == Read(Ticked(seq), seq)
<1>1. /\ x.state = State(seq) /\ x.pallet_id = Pallet(seq) /\ x.wrap_time = Wrap(seq)
      /\ x.wrap_transit = Transit(seq) /\ x.rotations = Laps(seq) /\ x.program = 15
      /\ x.perimeter = 3 /\ x.running = Running(seq) /\ x.alarm = Alarm(seq)
      /\ x.timestamp = Time(seq) /\ x.seq_number = seq /\ x.device_id = 1
    BY TickedRegisters
<1>2. /\ Room("state") = 7 /\ Room("pallet_id") = 18 /\ Room("wrap_time") = 16
      /\ Room("wrap_transit") = 16 /\ Room("rotations") = 12 /\ Room("program") = 8
      /\ Room("perimeter") = 16 /\ Room("alarm") = 17 /\ Room("timestamp") = 31
      /\ Room("seq_number") = 16 /\ Room("device_id") = 8
    BY SMT DEF Room, Width, Layout
<1> HIDE DEF x
<1>3. CASE f \in {"state", "pallet_id", "wrap_time", "wrap_transit"}
    BY <1>1, <1>2, <1>3, TickedNumbers, Powers, SMT DEF x
<1>4. CASE f \in {"rotations", "program", "perimeter", "running"}
    BY <1>1, <1>2, <1>4, TickedNumbers, Powers, SMT DEF x
<1>5. CASE f \in {"alarm", "timestamp", "seq_number", "device_id"}
    BY <1>1, <1>2, <1>5, TickedNumbers, Powers, SMT DEF x
<1>6. QED
    BY <1>3, <1>4, <1>5, Fields

\* A polled reading fits the parameters of pack_payload.
LEMMA PolledIsReading ==
    ASSUME NEW seq \in 0 .. UINT16_MAX
    PROVE  /\ HalSensorRead(Ticked(seq), seq) \in [Field -> SUBSET Nat]
           /\ \A f \in Field : HalSensorRead(Ticked(seq), seq)[f] \subseteq 0 .. CType[f] - 1
<1>1. ASSUME NEW f \in Field
      PROVE  HalSensorRead(Ticked(seq), seq)[f] \subseteq 0 .. CType[f] - 1
  <2> DEFINE x == Read(Ticked(seq), seq)[f]
  <2>1. HalSensorRead(Ticked(seq), seq)[f] = Bits(x)
    BY ReadsBits
  <2>2. x \in Nat /\ (f # "running" => x < TwoTo(Room(f)))
    BY ReadNumbers
  <2> HIDE DEF x
  <2>3. CASE CType[f] = 32
    BY <2>1, <2>3 DEF Bits
  <2>4. CASE CType[f] # 32
    <3>1. f # "running"
      BY <2>4 DEF CType
    <3>2. Room(f) \in 0 .. 31 /\ Room(f) <= CType[f] /\ CType[f] \in Nat
      BY RoomIs
    <3>3. Bits(x) \subseteq 0 .. Room(f) - 1
      BY <2>2, <3>1, <3>2, BitsBelow
    <3>4. QED
      BY <2>1, <3>2, <3>3
  <2>5. QED
    BY <2>3, <2>4
<1>2. \A f \in Field : CType[f] \in Nat
    BY RoomIs
<1>3. \A f \in Field : HalSensorRead(Ticked(seq), seq)[f] \in SUBSET Nat
    BY <1>1, <1>2
<1>4. QED
    BY <1>1, <1>3, ReadsBits DEF HalSensorRead

\* What the cloud makes of a polled reading.
LEMMA PolledIsMachine ==
    ASSUME NEW seq \in 0 .. UINT16_MAX, NEW f \in Field
    PROVE  Value(HalSensorRead(Ticked(seq), seq)[f] \cap (0 .. Width(f) - 1)) = Machine(seq)[f]
<1> DEFINE x == Read(Ticked(seq), seq)[f]
<1>1. /\ HalSensorRead(Ticked(seq), seq)[f] = Bits(x)
      /\ Bits(x) \cap (0 .. Width(f) - 1) = Bits(x) \cap (0 .. Room(f) - 1)
    BY ReadsBits, RoomBits
<1>2. x \in Nat /\ x < TwoTo(31) /\ (f # "running" => x < TwoTo(Room(f)))
    BY ReadNumbers
<1> HIDE DEF x
<1>3. Room(f) \in 0 .. 31
    BY RoomIs
<1>4. Value(Bits(x) \cap (0 .. Room(f) - 1)) = x % TwoTo(Room(f))
    BY <1>2, <1>3, ValueOfBits
<1>5. CASE f # "running"
  <2>1. TwoTo(Room(f)) \in Nat
    BY <1>3, TwoToGrows
  <2>2. x % TwoTo(Room(f)) = x
    BY <1>2, <1>5, <2>1, ModBelow
  <2>3. Machine(seq)[f] = x
    BY <1>5, TickedRead DEF x
  <2>4. QED
    BY <1>1, <1>4, <2>2, <2>3
<1>6. CASE f = "running"
  <2>1. Machine(seq)[f] = Running(seq) % 2^17
    BY <1>6, TickedRead
  <2>2. x = Running(seq)
    BY <1>6, TickedRegisters DEF x
  <2>3. Room(f) = 17
    BY <1>6 DEF Room, Width, Layout
  <2>4. QED
    BY <1>1, <1>4, <2>1, <2>2, <2>3 DEF TwoTo
<1>7. QED
    BY <1>5, <1>6

\* The number drawn is in the reading.
LEMMA PolledNumber ==
    ASSUME NEW seq \in 0 .. UINT16_MAX
    PROVE  Value(HalSensorRead(Ticked(seq), seq).seq_number) = seq
<1>1. "seq_number" \in Field /\ Width("seq_number") = 16 /\ CType["seq_number"] = 16
    BY Fields DEF Width, Layout, CType
<1>2. HalSensorRead(Ticked(seq), seq).seq_number \cap (0 .. 15)
          = HalSensorRead(Ticked(seq), seq).seq_number
    BY <1>1, PolledIsReading
<1>3. Machine(seq).seq_number = seq
    BY DEF Machine
<1>4. QED
    BY <1>1, <1>2, <1>3, PolledIsMachine

-----------------------------------------------------------------------------
(* What the generator draws fits its field.                                *)

\* The ranges of the scenarios are within the fields.
LEMMA ScenariosFit ==
    ASSUME NEW sc \in Scenarios, NEW f \in DOMAIN sc
    PROVE  /\ f \in Field /\ Width(f) \in 0 .. 31
           /\ sc[f][1] \in Nat /\ sc[f][1] < TwoTo(Width(f))
           /\ sc[f][2] \in Nat /\ sc[f][2] < TwoTo(Width(f))
<1>1. f \in {"state", "pallet_id", "wrap_time", "wrap_transit", "rotations", "program",
             "perimeter", "running", "alarm"}
    BY SMT DEF Scenarios, Scenario
<1>2. /\ Width("state") = 7 /\ Width("pallet_id") = 18 /\ Width("wrap_time") = 16
      /\ Width("wrap_transit") = 16 /\ Width("rotations") = 12 /\ Width("program") = 8
      /\ Width("perimeter") = 16 /\ Width("running") = 17 /\ Width("alarm") = 17
    BY SMT DEF Width, Layout
<1>3. f \in Field /\ Width(f) \in 0 .. 31
    BY <1>1, <1>2, Fields
<1>4. CASE f \in {"state", "pallet_id", "wrap_time"}
    BY <1>2, <1>3, <1>4, Powers, SMT DEF Scenarios, Scenario
<1>5. CASE f \in {"wrap_transit", "rotations", "program"}
    BY <1>2, <1>3, <1>5, Powers, SMT DEF Scenarios, Scenario
<1>6. CASE f \in {"perimeter", "running", "alarm"}
    BY <1>2, <1>3, <1>6, Powers, SMT DEF Scenarios, Scenario
<1>7. QED
    BY <1>1, <1>4, <1>5, <1>6

LEMMA DrawnBetween ==
    ASSUME NEW range, range[1] \in Nat, range[2] \in Nat, NEW n \in TrRand(range), NEW m \in Nat,
           range[1] < m, range[2] < m
    PROVE  n \in Nat /\ n < m
    BY SMT DEF TrRand

\* What pack_payload is called with: numbers of the parameters' types.
IsReading(r) ==
    r \in [Field -> SUBSET Nat] /\ \A f \in Field : r[f] \subseteq 0 .. CType[f] - 1

\* Nothing of a generated reading is too wide for its field.
LEMMA GeneratedFits ==
    ASSUME NEW r, IsReading(r), Generated(r), NEW f \in Field
    PROVE  r[f] \subseteq 0 .. Width(f) - 1
<1>1. PICK sc \in Scenarios : \A g \in DOMAIN sc : \E n \in TrRand(sc[g]) : r[g] = Bits(n)
    BY DEF Generated
<1>2. CASE f \in DOMAIN sc
  <2>1. PICK n \in TrRand(sc[f]) : r[f] = Bits(n)
    BY <1>1, <1>2
  <2>2. /\ Width(f) \in 0 .. 31
        /\ sc[f][1] \in Nat /\ sc[f][1] < TwoTo(Width(f))
        /\ sc[f][2] \in Nat /\ sc[f][2] < TwoTo(Width(f))
    BY <1>2, ScenariosFit
  <2>3. n \in Nat /\ n < TwoTo(Width(f))
    BY <2>1, <2>2, TwoToGrows, DrawnBetween
  <2>4. QED
    BY <2>1, <2>2, <2>3, BitsBelow
<1>3. CASE f \notin DOMAIN sc
  <2>1. DOMAIN sc = {"state", "pallet_id", "wrap_time", "wrap_transit", "rotations", "program",
                     "perimeter", "running", "alarm"}
    BY DEF Scenarios, Scenario
  <2>2. f \in {"timestamp", "seq_number", "device_id"}
    BY <1>3, <2>1, Fields
  <2>3. Width(f) = CType[f]
    BY <2>2 DEF Width, Layout, CType
  <2>4. QED
    BY <2>3 DEF IsReading
<1>4. QED
    BY <1>2, <1>3

-----------------------------------------------------------------------------
(* The invariant: what each stage leaves behind.                           *)

Stages ==
    /\ stage \in {"none", "packed", "heard", "parsed"}
    /\ stage = "none" => fields = Nothing /\ buf = {}
    /\ stage = "packed" => buf = PackPayload(fields)
    /\ stage \in {"heard", "parsed"} => buf = SymDiff(PackPayload(fields), noise)
    /\ stage \in {"none", "packed"} => noise = {}
    /\ stage # "parsed" => parsed = Nothing
    /\ stage = "parsed" =>
           parsed = IF Accepted(buf) THEN [f \in Field |-> Extract(buf, f)] ELSE Error

Noise ==
    /\ noise \subseteq PayloadBits
    /\ noise # {} => \E p \in PayloadBits : IsBurst(noise, p)

Machines ==
    \/ sim_regs = Registers0
    \/ \E seq \in Polled : /\ sim_regs = Ticked(seq)
                           /\ stage # "none" => fields = HalSensorRead(Ticked(seq), seq)

\* Nothing is known of the payload's bits but where they come from: what they
\* hold after the radio follows from the reading and the noise alone.
SensorInv == Stages /\ IsReading(fields) /\ Noise /\ Machines

-----------------------------------------------------------------------------
(* It holds of the initial state and survives every step.                  *)

LEMMA NothingIsReading == IsReading(Nothing)
<1>1. \A f \in Field : CType[f] \in Nat
    BY RoomIs
<1>2. QED
    BY DEF IsReading, Nothing

LEMMA NoNoise ==
    ASSUME NEW bits
    PROVE  SymDiff(bits, {}) = bits
    BY DEF SymDiff

\* A shape laid at p is a burst of at most sixteen bits.
LEMMA LaidIsBurst ==
    ASSUME NEW b \in Bursts, NEW p \in PayloadBits
    PROVE  IsBurst({p + o : o \in b}, p)
<1>1. b \subseteq 0 .. 15 /\ 0 \in b /\ p \in Nat
    BY BurstsAssumption DEF PayloadBits, PAYLOAD_SIZE
<1>2. p + 0 = p /\ \A o \in 0 .. 15 : p + o \in p .. p + 15
    BY <1>1
<1>3. QED
    BY <1>1, <1>2 DEF IsBurst

\* Packing any reading, generated or polled.
LEMMA PackStep ==
    ASSUME NEW r, IsReading(r), Stages, Noise, Pack(r)
    PROVE  Stages' /\ IsReading(fields') /\ Noise'
<1>1. /\ stage' = "packed" /\ fields' = r /\ buf' = PackPayload(r)
      /\ noise' = noise /\ parsed' = parsed /\ stage = "none"
    BY DEF Pack
<1>2. noise = {} /\ parsed = Nothing
    BY <1>1 DEF Stages
<1>3. Stages'
    BY <1>1, <1>2 DEF Stages
<1>4. QED
    BY <1>1, <1>3 DEF Noise

\* The radio disturbs it by a burst or not at all.
LEMMA CarryStep ==
    ASSUME NEW flips, flips # {} => \E p \in PayloadBits : IsBurst(flips, p), Stages, Carry(flips)
    PROVE  Stages' /\ fields' = fields /\ stage # "none" /\ Noise'
<1>1. /\ stage = "packed" /\ stage' = "heard" /\ flips \subseteq PayloadBits /\ noise' = flips
      /\ buf' = SymDiff(buf, flips) /\ fields' = fields /\ parsed' = parsed
    BY DEF Carry
<1>2. buf = PackPayload(fields) /\ parsed = Nothing
    BY <1>1 DEF Stages
<1>3. Stages'
    BY <1>1, <1>2 DEF Stages
<1>4. QED
    BY <1>1, <1>3 DEF Noise

\* parse judges it by its bits alone.
LEMMA ParseStep ==
    ASSUME Stages, Noise, Parse
    PROVE  Stages' /\ fields' = fields /\ stage # "none" /\ Noise'
<1>1. /\ stage = "heard" /\ stage' = "parsed" /\ fields' = fields /\ buf' = buf /\ noise' = noise
      /\ parsed' = IF Accepted(buf) THEN [f \in Field |-> Extract(buf, f)] ELSE Error
    BY DEF Parse
<1>2. buf = SymDiff(PackPayload(fields), noise)
    BY <1>1 DEF Stages
<1>3. Stages'
    BY <1>1, <1>2 DEF Stages
<1>4. QED
    BY <1>1, <1>3 DEF Noise

LEMMA NextReadingStep ==
    ASSUME NextReading
    PROVE  Stages' /\ fields' = Nothing /\ stage' = "none" /\ Noise'
<1>1. stage' = "none" /\ fields' = Nothing /\ buf' = {} /\ noise' = {} /\ parsed' = Nothing
    BY DEF NextReading
<1>2. QED
    BY <1>1 DEF Stages, Noise

LEMMA SensorInvInit == SensorInit => SensorInv
    BY NothingIsReading DEF SensorInit, Init, SensorInv, Stages, Noise, Machines

LEMMA SensorInvNext == SensorInv /\ [SensorNext]_sensorVars => SensorInv'
<1> SUFFICES ASSUME SensorInv, [SensorNext]_sensorVars
             PROVE  SensorInv'
    OBVIOUS
<1>1. Stages /\ IsReading(fields) /\ Noise /\ Machines
    BY DEF SensorInv
<1>2. ASSUME NEW r \in Readings, Pack(r), stage = "none" => sim_regs = Registers0,
             sim_regs' = sim_regs
      PROVE  SensorInv'
  <2>1. IsReading(r)
    BY <1>2, ReadingsAssumption DEF IsReading
  <2>2. Stages' /\ IsReading(fields') /\ Noise'
    BY <1>1, <1>2, <2>1, PackStep
  <2>3. sim_regs' = Registers0
    BY <1>2 DEF Pack
  <2>4. QED
    BY <2>2, <2>3 DEF SensorInv, Machines
<1>3. ASSUME Stages', fields' = fields, stage # "none", Noise', sim_regs' = sim_regs
      PROVE  SensorInv'
    BY <1>1, <1>3 DEF SensorInv, Machines
<1>4. CASE Carry({}) /\ sim_regs' = sim_regs
    BY <1>1, <1>3, <1>4, CarryStep
<1>5. ASSUME NEW b \in Bursts, NEW p \in PayloadBits, Carry({p + o : o \in b}),
             sim_regs' = sim_regs
      PROVE  SensorInv'
  <2> DEFINE flips == {p + o : o \in b}
  <2>1. \E q \in PayloadBits : IsBurst(flips, q)
    BY <1>5, LaidIsBurst
  <2>2. Carry(flips)
    BY <1>5
  <2> HIDE DEF flips
  <2>3. QED
    BY <1>1, <1>3, <1>5, <2>1, <2>2, CarryStep
<1>6. CASE Parse /\ sim_regs' = sim_regs
    BY <1>1, <1>3, <1>6, ParseStep
<1>7. CASE NextReading /\ sim_regs' = sim_regs
    BY <1>1, <1>7, NextReadingStep, NothingIsReading DEF SensorInv, Machines
<1>8. ASSUME NEW seq \in Polled, Poll(seq)
      PROVE  SensorInv'
  <2>1. sim_regs' = Ticked(seq) /\ Pack(HalSensorRead(Ticked(seq), seq))
    BY <1>8 DEF Poll
  <2>2. IsReading(HalSensorRead(Ticked(seq), seq))
    BY <1>8, PolledAssumption, PolledIsReading DEF IsReading
  <2>3. Stages' /\ IsReading(fields') /\ Noise'
    BY <1>1, <2>1, <2>2, PackStep
  <2>4. fields' = HalSensorRead(Ticked(seq), seq)
    BY <2>1 DEF Pack
  <2>5. QED
    BY <1>8, <2>1, <2>3, <2>4 DEF SensorInv, Machines
<1>9. CASE UNCHANGED sensorVars
    BY <1>1, <1>9 DEF SensorInv, Stages, Noise, Machines, sensorVars, vars
<1>10. QED
    BY <1>2, <1>4, <1>5, <1>6, <1>7, <1>8, <1>9 DEF SensorNext, Next

LEMMA SensorInvHolds == SensorSpec => []SensorInv
    BY SensorInvInit, SensorInvNext, PTL DEF SensorSpec

-----------------------------------------------------------------------------
(* What it gives of a parsed payload.                                      *)

\* An extracted field is within its width.
LEMMA ExtractedFits ==
    ASSUME NEW bits, NEW f \in Field
    PROVE  Extract(bits, f) \subseteq 0 .. Layout[f][2] - 1
<1>1. Extract(bits, f) = {Last(f) - p : p \in bits \cap (First(f) .. Last(f))}
    BY ExtractsWindow DEF Window
<1>2. First(f) \in Nat /\ Last(f) \in Nat /\ Width(f) \in Nat /\ Last(f) = First(f) + Width(f) - 1
    BY LayoutInside DEF Last
<1>3. \A p \in First(f) .. Last(f) : Last(f) - p \in 0 .. Width(f) - 1
    BY <1>2
<1>4. QED
    BY <1>1, <1>3 DEF Width

\* An undisturbed payload is parsed, and unpacked, as its fields cut to their widths.
LEMMA ParsedAsSent ==
    ASSUME Stages, stage = "parsed", noise = {}
    PROVE  /\ buf = PackPayload(fields)
           /\ parsed = [f \in Field |-> fields[f] \cap (0 .. Width(f) - 1)]
           /\ parsed = UnpackPayload(buf)
<1>1. buf = PackPayload(fields)
    BY NoNoise DEF Stages
<1>2. parsed = [f \in Field |-> Extract(buf, f)]
    BY <1>1, PackedIsAccepted DEF Stages
<1>3. \A f \in Field : /\ Extract(buf, f) = fields[f] \cap (0 .. Width(f) - 1)
                       /\ UnpackPayload(buf)[f] = fields[f] \cap (0 .. Width(f) - 1)
    BY <1>1, PackedIsRead
<1>4. UnpackPayload(buf) = [f \in Field |-> UnpackPayload(buf)[f]]
    BY DEF UnpackPayload, Unpacked
<1>5. QED
    BY <1>1, <1>2, <1>3, <1>4

\* The payload's data are what the declarations say in every state: the
\* registers have 16 bits, and every parsed field is within its width.
THEOREM SensorTypes == SensorSpec => []SensorTypeOK
<1>1. ASSUME SensorInv PROVE SensorTypeOK
  <2>1. Stages /\ IsReading(fields) /\ Noise /\ Machines
    BY <1>1 DEF SensorInv
  <2>2. buf \subseteq PayloadBits
    <3>1. PackPayload(fields) \subseteq PayloadBits
      BY PackedBits
    <3>2. SymDiff(PackPayload(fields), noise) \subseteq PayloadBits
      BY <2>1, <3>1 DEF Noise, SymDiff
    <3>3. QED
      BY <2>1, <3>1, <3>2 DEF Stages
  <2>3. parsed = Error \/ \A f \in Field : parsed[f] \subseteq 0 .. Layout[f][2] - 1
    <3>1. parsed = Nothing \/ parsed = Error \/ parsed = [f \in Field |-> Extract(buf, f)]
      BY <2>1 DEF Stages
    <3>2. CASE parsed = Nothing
      BY <3>2 DEF Nothing
    <3>3. CASE parsed = [f \in Field |-> Extract(buf, f)]
      BY <3>3, ExtractedFits
    <3>4. QED
      BY <3>1, <3>2, <3>3
  <2>4. \A reg \in DOMAIN sim_regs : sim_regs[reg] \in 0 .. UINT16_MAX
    BY <2>1, PolledAssumption, InitialRegisters, TickedRegisters DEF Machines
  <2>5. QED
    BY <2>1, <2>2, <2>3, <2>4 DEF SensorTypeOK, TypeOK, Stages, Noise, IsReading
<1>2. QED
    BY <1>1, SensorInvHolds, PTL

\* pack_payload in C and pack in Python build the same 200 bits from whatever
\* a reading holds, the bits too wide for their field included.
THEOREM SamePackers == SensorSpec => []PackersAgree
<1>1. ASSUME SensorInv PROVE PackersAgree
    BY <1>1, SamePayload DEF SensorInv, Stages, PackersAgree
<1>2. QED
    BY <1>1, SensorInvHolds, PTL

\* An undisturbed payload is accepted, and parse in the cloud and
\* unpack_payload on the gateway both read each field as it was packed, cut to
\* its width; nothing of a generated reading is cut.
THEOREM ReadingsSurvive == SensorSpec => []ReadingSurvives
<1>1. ASSUME SensorInv, stage = "parsed", noise = {}
      PROVE  /\ \A f \in Field : parsed[f] = fields[f] \cap (0 .. Layout[f][2] - 1)
             /\ parsed = UnpackPayload(buf)
             /\ Generated(fields) => parsed = fields
  <2>1. Stages /\ IsReading(fields)
    BY <1>1 DEF SensorInv
  <2>2. /\ parsed = [f \in Field |-> fields[f] \cap (0 .. Width(f) - 1)]
        /\ parsed = UnpackPayload(buf)
    BY <1>1, <2>1, ParsedAsSent
  <2>3. \A f \in Field : parsed[f] = fields[f] \cap (0 .. Layout[f][2] - 1)
    BY <2>2 DEF Width
  <2>4. ASSUME Generated(fields) PROVE parsed = fields
    <3>1. \A f \in Field : fields[f] \subseteq 0 .. Width(f) - 1
      BY <2>1, <2>4, GeneratedFits
    <3>2. fields = [f \in Field |-> fields[f]]
      BY <2>1 DEF IsReading
    <3>3. \A f \in Field : fields[f] \cap (0 .. Width(f) - 1) = fields[f]
      BY <3>1
    <3>4. QED
      BY <2>2, <3>2, <3>3
  <2>5. QED
    BY <2>2, <2>3, <2>4
<1>2. SensorInv => ReadingSurvives
    BY <1>1 DEF ReadingSurvives
<1>3. QED
    BY <1>2, SensorInvHolds, PTL

\* The checksum catches every burst of at most sixteen flipped bits wherever it
\* falls in the 200, the checksum's own included.
THEOREM BurstsCaught == SensorSpec => []BurstCaught
<1>1. ASSUME SensorInv PROVE BurstCaught
  <2>1. SUFFICES ASSUME stage = "parsed", noise # {} PROVE parsed = Error
    BY DEF BurstCaught
  <2>2. PICK p \in PayloadBits : IsBurst(noise, p)
    BY <1>1, <2>1 DEF SensorInv, Noise
  <2>3. buf = SymDiff(PackPayload(fields), noise)
    BY <1>1, <2>1 DEF SensorInv, Stages
  <2>4. ~ Accepted(buf)
    BY <2>2, <2>3, BurstIsRejected
  <2>5. QED
    BY <1>1, <2>1, <2>4 DEF SensorInv, Stages
<1>2. QED
    BY <1>1, SensorInvHolds, PTL

\* A reading polled over the 16-bit registers arrives as what the machine did
\* when its sequence number was drawn, for every number and every base time.
THEOREM MachinesAsPolled == SensorSpec => []MachineAsPolled
<1>1. ASSUME SensorInv, stage = "parsed", noise = {}, sim_regs # Registers0
      PROVE  \A f \in Field : Value(parsed[f]) = Machine(Value(fields.seq_number))[f]
  <2>1. PICK seq \in Polled : fields = HalSensorRead(Ticked(seq), seq)
    BY <1>1 DEF SensorInv, Machines
  <2>2. seq \in 0 .. UINT16_MAX
    BY <2>1, PolledAssumption
  <2>3. Value(fields.seq_number) = seq
    BY <2>1, <2>2, PolledNumber
  <2>4. \A f \in Field : parsed[f] = fields[f] \cap (0 .. Width(f) - 1)
    BY <1>1, ParsedAsSent DEF SensorInv
  <2>5. \A f \in Field : Value(fields[f] \cap (0 .. Width(f) - 1)) = Machine(seq)[f]
    BY <2>1, <2>2, PolledIsMachine
  <2>6. QED
    BY <2>3, <2>4, <2>5
<1>2. SensorInv => MachineAsPolled
    BY <1>1 DEF MachineAsPolled
<1>3. QED
    BY <1>2, SensorInvHolds, PTL

=============================================================================
