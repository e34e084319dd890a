-------------------------- MODULE BootLoader_proofs --------------------------
(***************************************************************************)
(* For every well-formed header the loader's record is apart from what it  *)
(* loads, and every section is in its place: blocks that are whole words   *)
(* do not reach into a section loaded before, nor does the record while    *)
(* blocks pass through its flash buffer.                                   *)
(***************************************************************************)
EXTENDS BootLoader, TLAPS

(* Division with a remainder below the divisor.                            *)
LEMMA Division ==
  ASSUME NEW n \in Nat, NEW d \in Nat \ {0}
  PROVE  /\ n \div d \in Nat
         /\ n % d \in 0 .. d - 1
         /\ n = d * (n \div d) + (n % d)
  OBVIOUS

(* A multiple leaves no remainder.                                         *)
LEMMA MultipleMod ==
  ASSUME NEW k \in Nat, NEW d \in Nat \ {0}
  PROVE  (d * k) % d = 0
  OBVIOUS

(* Products with a common factor compare as the other factors.             *)
LEMMA ProductOrder ==
  ASSUME NEW a \in Nat, NEW b \in Nat, NEW d \in Nat \ {0}, d * a < d * b
  PROVE  a < b
  OBVIOUS
LEMMA ProductMonotone ==
  ASSUME NEW a \in Nat, NEW b \in Nat, NEW d \in Nat \ {0}, a <= b
  PROVE  d * a <= d * b
  OBVIOUS

(* What masking leaves is a multiple of the block and of the word, and not *)
(* below the number that was rounded.                                      *)
LEMMA AlignUpMultiple ==
  ASSUME NEW n \in Nat
  PROVE  AlignUp(n) \in Nat /\ AlignUp(n) >= n /\ AlignUp(n) % WordSize = 0
<1> DEFINE m == n + BlockSize - 1
           q == m \div BlockSize
           w == BlockSize \div WordSize
<1>1. m \in Nat /\ WordSize \in Nat \ {0} /\ BlockSize \in Nat \ {0}
  BY BootAssumption
<1>2. m = BlockSize * q + (m % BlockSize) /\ q \in Nat /\ m % BlockSize \in 0 .. BlockSize - 1
  BY <1>1, Division
<1>3. BlockSize = WordSize * w /\ w \in Nat
  <2>1. BlockSize % WordSize = 0
    BY BootAssumption
  <2> QED
    BY <2>1, <1>1, Division
<1> HIDE DEF q, w
<1>4. m - (m % BlockSize) = BlockSize * q /\ BlockSize * q \in Nat
  BY <1>1, <1>2
<1>5. BlockSize * q = WordSize * (w * q) /\ w * q \in Nat
  BY <1>1, <1>2, <1>3
<1>6. (WordSize * (w * q)) % WordSize = 0
  BY <1>1, <1>5, MultipleMod
<1>7. m - (m % BlockSize) >= n
  BY <1>1, <1>2
<1> QED
  BY <1>4, <1>5, <1>6, <1>7 DEF AlignUp

(* An aligned section that ends at or below an aligned address does so     *)
(* with its last word written out.                                         *)
LEMMA LastWordFits ==
  ASSUME NEW p \in Nat, NEW s \in Nat, NEW a \in Nat,
         p % WordSize = 0, a % WordSize = 0, p + s <= a
  PROVE  p + RoundUp(s) <= a
<1> DEFINE m == s + WordSize - 1
           kp == p \div WordSize
           ka == a \div WordSize
           km == m \div WordSize
<1>1. m \in Nat /\ WordSize \in Nat \ {0}
  BY BootAssumption
<1>2. p = WordSize * kp /\ kp \in Nat /\ a = WordSize * ka /\ ka \in Nat
  BY <1>1, Division
<1>3. m = WordSize * km + (m % WordSize) /\ km \in Nat /\ m % WordSize \in 0 .. WordSize - 1
  BY <1>1, Division
<1> HIDE DEF kp, ka, km
<1>4. RoundUp(s) = WordSize * km /\ WordSize * km < s + WordSize
  BY <1>1, <1>3 DEF RoundUp
<1>5. WordSize * (kp + km) < WordSize * (ka + 1)
  <2>1. WordSize * (kp + km) = p + WordSize * km
    BY <1>1, <1>2, <1>3
  <2>2. WordSize * (ka + 1) = a + WordSize
    BY <1>1, <1>2
  <2>3. WordSize * km \in Nat
    BY <1>1, <1>3
  <2> QED
    BY <2>1, <2>2, <2>3, <1>1, <1>4
<1>6. kp + km < ka + 1
  <2>1. kp + km \in Nat /\ ka + 1 \in Nat
    BY <1>2, <1>3
  <2> QED
    BY <2>1, <1>1, <1>5, ProductOrder
<1>7. WordSize * (kp + km) <= WordSize * ka
  BY <1>1, <1>2, <1>3, <1>6, ProductMonotone
<1>8. WordSize * (kp + km) = p + WordSize * km
  BY <1>1, <1>2, <1>3
<1> QED
  BY <1>2, <1>4, <1>7, <1>8

-----------------------------------------------------------------------------
(* The areas already looked at are apart from the candidate, whatever the  *)
(* next ones do to it: moves only go up, and the areas are sorted.         *)
Unplaced == {"MAIN", "JTAG", "JTAGWAIT", "POWERUP", "HEADER", "AREAS"}
PlaceInv ==
  /\ image \in Images
  /\ area \in Nat \ {0} /\ addr \in Nat /\ addr % WordSize = 0
  /\ pc \in Unplaced => area = 1
  /\ pc = "FIT" => \A i \in 1 .. Len(image) : i < area => Apart(image[i])
  /\ RecordApart

(* What a well-formed header says of its areas.                            *)
LEMMA Sections ==
  ASSUME NEW img \in Images, NEW i \in 1 .. Len(img)
  PROVE  /\ img[i] \in Area
         /\ img[i].ptr \in Nat /\ img[i].size \in Nat /\ img[i].ptr % WordSize = 0
         /\ \A j \in i + 1 .. Len(img) : img[i].ptr + img[i].size <= img[j].ptr
<1>1. img \in Seq(Area) /\ WellFormed(img)
  BY BootAssumption
<1>2. img[i] \in Area
  BY <1>1
<1> QED
  BY <1>1, <1>2 DEF WellFormed, Area

LEMMA InitPlaceInv == Init => PlaceInv
<1> SUFFICES ASSUME Init PROVE PlaceInv
  OBVIOUS
<1>1. pc = "MAIN" /\ image \in Images /\ area = 1 /\ addr = L2Base
  BY DEF Init
<1>2. addr \in Nat /\ addr % WordSize = 0
  BY <1>1, BootAssumption
<1> QED
  BY <1>1, <1>2 DEF PlaceInv, RecordApart, Placed

(* One iteration of findDataFit.                                           *)
LEMMA FitKeeps ==
  ASSUME PlaceInv, Fit, ~Last
  PROVE  /\ addr' \in Nat /\ addr' % WordSize = 0
         /\ \A i \in 1 .. Len(image) : i < area + 1 => Apart(image[i])'
<1> DEFINE x == image[area]
<1>1. /\ image \in Images /\ image' = image /\ area \in Nat \ {0}
      /\ addr \in Nat /\ addr % WordSize = 0
      /\ \A i \in 1 .. Len(image) : i < area => Apart(image[i])
  BY DEF PlaceInv, Fit
<1>2. Len(image) \in Nat
  <2>1. image \in Seq(Area)
    BY <1>1, BootAssumption
  <2> QED
    BY <2>1
<1>3. area \in 1 .. Len(image)
  BY <1>1, <1>2 DEF Last
<1>4. /\ x.ptr \in Nat /\ x.size \in Nat /\ x.ptr % WordSize = 0
  BY <1>1, <1>3, Sections
<1>5. RecordSize \in Nat
  BY BootAssumption
<1>6. CASE Overlaps(addr, x)
  <2>1. addr' = AlignUp(x.ptr + x.size)
    BY <1>6 DEF Fit
  <2>2. addr' \in Nat /\ addr' >= x.ptr + x.size /\ addr' % WordSize = 0
    BY <2>1, <1>4, AlignUpMultiple
  <2>3. ASSUME NEW i \in 1 .. Len(image), i < area + 1
        PROVE  Apart(image[i])'
    <3>1. /\ image[i].ptr \in Nat /\ image[i].size \in Nat /\ image[i].ptr % WordSize = 0
          /\ \A j \in i + 1 .. Len(image) : image[i].ptr + image[i].size <= image[j].ptr
      BY <1>1, Sections
    <3>2. image[i].ptr + image[i].size <= addr'
      <4>1. CASE i = area
        BY <4>1, <2>2
      <4>2. CASE i < area
        <5>1. area \in i + 1 .. Len(image)
          BY <4>2, <1>2, <1>3
        <5>2. image[i].ptr + image[i].size <= x.ptr
          BY <5>1, <3>1
        <5> DEFINE here == image[i].ptr + image[i].size
                   p == x.ptr
                   l == x.size
        <5>3. here \in Nat /\ p \in Nat /\ l \in Nat
          BY <3>1, <1>4
        <5>4. here <= p /\ addr' >= p + l /\ addr' \in Nat
          BY <5>2, <2>2
        <5> HIDE DEF here, p, l
        <5>5. here <= addr'
          BY <5>3, <5>4
        <5> QED
          BY <5>5 DEF here
      <4> QED
        BY <4>1, <4>2, <2>3, <1>1
    <3>3. image[i].ptr + RoundUp(image[i].size) <= addr'
      BY <3>1, <3>2, <2>2, LastWordFits
    <3>4. image'[i] = image[i]
      BY <1>1
    <3> QED
      BY <3>3, <3>4 DEF Apart, RoundUp
  <2> QED
    BY <2>2, <2>3
<1>7. CASE ~Overlaps(addr, x)
  <2>1. addr' = addr
    BY <1>7 DEF Fit
  <2>2. Apart(x)
    <3>1. CASE addr >= x.ptr
      <4>1. x.ptr + x.size <= addr
        BY <3>1, <1>7, <1>1, <1>4 DEF Overlaps
      <4>2. x.ptr + RoundUp(x.size) <= addr
        BY <4>1, <1>1, <1>4, LastWordFits
      <4> QED
        BY <4>2 DEF Apart
    <3>2. CASE addr < x.ptr
      <4>1. addr + RecordSize <= x.ptr
        BY <3>2, <1>7, <1>1, <1>4, <1>5 DEF Overlaps
      <4> QED
        BY <4>1 DEF Apart
    <3> QED
      BY <3>1, <3>2, <1>1, <1>4
  <2>3. ASSUME NEW i \in 1 .. Len(image), i < area + 1
        PROVE  Apart(image[i])'
    <3>1. Apart(image[i])
      BY <2>2, <2>3, <1>1
    <3>2. image'[i] = image[i]
      BY <1>1
    <3> QED
      BY <3>1, <3>2, <2>1 DEF Apart, RoundUp
  <2> QED
    BY <2>1, <2>3, <1>1
<1> QED
  BY <1>6, <1>7

(* A step that leaves header, index and record alone, and enters neither   *)
(* the search nor what follows it from before, keeps the invariant.        *)
LEMMA StayKeeps ==
  ASSUME PlaceInv, UNCHANGED <<image, area, addr>>,
         pc' \in Unplaced => pc \in Unplaced,
         pc' = "FIT" => pc \in Unplaced \cup {"FIT"},
         pc' \in Placed => pc \in Placed
  PROVE  PlaceInv'
<1>1. image \in Images /\ area \in Nat \ {0} /\ addr \in Nat /\ addr % WordSize = 0
  BY DEF PlaceInv
<1>2. \A i \in 1 .. Len(image) : Apart(image[i]) = Apart(image[i])'
  BY DEF Apart, RoundUp
<1>3. (pc \in Unplaced => area = 1)'
  BY DEF PlaceInv
<1>4. (pc = "FIT" => \A i \in 1 .. Len(image) : i < area => Apart(image[i]))'
  <2>1. CASE pc = "FIT"
    BY <2>1, <1>2 DEF PlaceInv
  <2>2. CASE pc \in Unplaced
    <3>1. area = 1
      BY <2>2 DEF PlaceInv
    <3>2. Len(image) \in Nat
      <4>1. image \in Seq(Area)
        BY <1>1, BootAssumption
      <4> QED
        BY <4>1
    <3> QED
      BY <3>1, <3>2
  <2> QED
    BY <2>1, <2>2
<1>5. RecordApart'
  BY <1>2 DEF PlaceInv, RecordApart
<1> QED
  BY <1>1, <1>3, <1>4, <1>5 DEF PlaceInv

LEMMA NextPlaceInv == PlaceInv /\ [Next]_bootVars => PlaceInv'
<1> SUFFICES ASSUME PlaceInv, [Next]_bootVars PROVE PlaceInv'
  OBVIOUS
<1> USE DEF GoTo, Unplaced, Placed
<1>1. CASE UNCHANGED <<pc, image, area, addr>>
  BY <1>1, StayKeeps
<1>2. CASE Main
  BY <1>2, StayKeeps DEF Main
<1>3. CASE JtagPoll
  BY <1>3, StayKeeps DEF JtagPoll
<1>4. CASE Fit /\ Last
  <2>1. /\ pc' = "NEWHEADER" /\ area' = 1 /\ addr' = addr /\ image' = image
        /\ pc = "FIT" /\ image \in Images /\ area \in Nat \ {0}
        /\ addr \in Nat /\ addr % WordSize = 0
    BY <1>4 DEF Fit, PlaceInv
  <2>2. \A i \in 1 .. Len(image) : Apart(image[i])
    <3>1. Len(image) \in Nat
      <4>1. image \in Seq(Area)
        BY <2>1, BootAssumption
      <4> QED
        BY <4>1
    <3> QED
      BY <2>1, <3>1, <1>4 DEF PlaceInv, Last
  <2>3. \A i \in 1 .. Len(image) : Apart(image[i])'
    BY <2>1, <2>2 DEF Apart, RoundUp
  <2> QED
    BY <2>1, <2>3 DEF PlaceInv, RecordApart
<1>5. CASE Fit /\ ~Last
  <2>1. /\ pc' = "FIT" /\ area' = area + 1 /\ image' = image
        /\ image \in Images /\ area \in Nat \ {0}
    BY <1>5 DEF Fit, PlaceInv
  <2>2. /\ addr' \in Nat /\ addr' % WordSize = 0
        /\ \A i \in 1 .. Len(image) : i < area + 1 => Apart(image[i])'
    BY <1>5, FitKeeps
  <2> QED
    BY <2>1, <2>2 DEF PlaceInv, RecordApart
<1>6. CASE NextSection
  <2>1. /\ pc = "LOAD" /\ pc' = "LOAD" /\ area' = area + 1 /\ addr' = addr /\ image' = image
        /\ area \in Nat \ {0}
    BY <1>6 DEF NextSection, PlaceInv
  <2>2. \A i \in 1 .. Len(image) : Apart(image[i])'
    BY <2>1 DEF PlaceInv, RecordApart, Apart, RoundUp
  <2> QED
    BY <2>1, <2>2 DEF PlaceInv, RecordApart
<1>7. CASE Jump
  BY <1>7, StayKeeps DEF Jump
<1>8. CASE Copy
  BY <1>8, StayKeeps DEF Copy
<1>9. CASE AfterCall
  <2>1. UNCHANGED <<image, area, addr>>
    BY <1>9 DEF AfterCall, AfterHeader
  <2>2. /\ pc' \in Unplaced => pc \in Unplaced
        /\ pc' = "FIT" => pc \in Unplaced \cup {"FIT"}
        /\ pc' \in Placed => pc \in Placed
    BY <1>9 DEF AfterCall, AfterHeader
  <2> QED
    BY <2>1, <2>2, StayKeeps
<1> QED
  BY <1>1, <1>2, <1>3, <1>4, <1>5, <1>6, <1>7, <1>8, <1>9
     DEF Next, DoLocal, Local, Call, DoTransfer, Return, bootVars

(* For every well-formed header, size of the record, of blocks and words:  *)
(* from the second read of the header on, no byte the loading writes is in *)
(* the record the loader runs on.                                          *)
THEOREM RecordPlaced == Spec => []RecordApart
<1>1. PlaceInv => RecordApart
  BY DEF PlaceInv
<1> QED
  BY <1>1, InitPlaceInv, NextPlaceInv, PTL DEF Spec

-----------------------------------------------------------------------------
(* Every byte of a section has an address.                                 *)
Addressable ==
  \A img \in Images : \A i \in 1 .. Len(img) : \A o \in 0 .. img[i].size - 1 :
    img[i].ptr + o \in Addr

LEMMA RoundUpAtLeast ==
  ASSUME NEW n \in Nat
  PROVE  RoundUp(n) \in Nat /\ RoundUp(n) >= n
<1>1. WordSize \in Nat \ {0} /\ n + WordSize - 1 \in Nat
  BY BootAssumption
<1>2. (n + WordSize - 1) % WordSize \in 0 .. WordSize - 1
  BY <1>1, Division
<1>3. QED
  BY <1>1, <1>2 DEF RoundUp

(* The number of blocks a header states is the one its size asks for.      *)
LEMMA BlockCount ==
  ASSUME NEW img \in Images, NEW i \in 1 .. Len(img)
  PROVE  /\ img[i].blocks \in Nat /\ img[i].start \in Nat
         /\ img[i].blocks * BlockSize >= img[i].size
         /\ \A b \in Nat : b < img[i].blocks => b * BlockSize < img[i].size
<1> DEFINE s == img[i].size
           n == s + BlockSize - 1
           k == img[i].blocks
<1>1. img \in Seq(Area) /\ WellFormed(img) /\ BlockSize \in Nat \ {0}
  BY BootAssumption
<1>2. img[i] \in Area
  BY <1>1
<1>3. s \in Nat /\ k \in Nat /\ img[i].start \in Nat
  BY <1>2 DEF Area
<1>4. k = n \div BlockSize
  BY <1>1 DEF WellFormed
<1> HIDE DEF s, k
<1>5. n \in Nat
  BY <1>1, <1>3
<1>6. n = BlockSize * k + (n % BlockSize) /\ n % BlockSize \in 0 .. BlockSize - 1
  BY <1>1, <1>4, <1>5, Division
<1>7. BlockSize * k \in Nat /\ k * BlockSize = BlockSize * k
  BY <1>1, <1>3
<1>8. k * BlockSize >= s
  BY <1>1, <1>3, <1>6, <1>7
<1>9. ASSUME NEW b \in Nat, b < k
      PROVE  b * BlockSize < s
  <2>1. BlockSize * (b + 1) <= BlockSize * k
    BY <1>1, <1>3, <1>9, ProductMonotone
  <2>2. BlockSize * (b + 1) = b * BlockSize + BlockSize /\ b * BlockSize \in Nat
    BY <1>1
  <2>3. QED
    BY <1>1, <1>3, <1>6, <1>7, <2>1, <2>2
<1>10. QED
  BY <1>3, <1>8, <1>9 DEF s, k

-----------------------------------------------------------------------------
(* The first n bytes of section i are in memory.                           *)
Filled(i, n) ==
  \A o \in 0 .. image[i].size - 1 :
    o < n => mem[image[i].ptr + o] = image[i].start + o

(* A block puts its bytes into memory and leaves all others of the section *)
(* and of those before it alone.                                           *)
LEMMA BlockLoaded ==
  ASSUME Addressable, image \in Images, area \in 1 .. Len(image), block \in Nat,
         block < image[area].blocks, mem' = Loaded(mem), image' = image
  PROVE  /\ \A i \in 1 .. Len(image) :
              i < area /\ Filled(i, image[i].size) => Filled(i, image[i].size)'
         /\ Filled(area, block * BlockSize)
              => \A o \in 0 .. image[area].size - 1 :
                   o < block * BlockSize + BlockSize
                     => mem'[image[area].ptr + o] = image[area].start + o
<1> DEFINE p == image[area].ptr
           s == image[area].size
           f == image[area].start
           k == block * BlockSize
           l == s - k
           n == IterSize
<1>1. BlockSize \in Nat \ {0}
  BY BootAssumption
<1>2. p \in Nat /\ s \in Nat /\ f \in Nat /\ k \in Nat /\ k < s
  BY <1>1, Sections, BlockCount
<1>3. Left = l /\ AreaAddr = p + k /\ FlashAddr = f + k
  BY DEF Left, AreaAddr, FlashAddr
<1>4. \A a \in Addr : mem'[a] = IF a >= p + k /\ a < p + k + n
                                  THEN f + k + (a - (p + k)) ELSE mem[a]
  BY <1>3 DEF Loaded
<1>5. n \in Nat /\ (n >= BlockSize \/ n >= l)
  <2> HIDE DEF k, s
  <2>1. l \in Nat
    BY <1>2
  <2>2. RoundUp(l) \in Nat /\ RoundUp(l) >= l
    BY <2>1, RoundUpAtLeast
  <2>3. n = IF BlockSize > l THEN RoundUp(l) ELSE BlockSize
    BY <1>3 DEF IterSize
  <2> HIDE DEF n, l
  <2>4. QED
    BY <1>1, <2>2, <2>3
<1>6. ASSUME NEW i \in 1 .. Len(image), i < area, Filled(i, image[i].size)
      PROVE  Filled(i, image[i].size)'
  <2>1. area \in i + 1 .. Len(image)
    BY <1>6
  <2>2. image[i].ptr \in Nat /\ image[i].size \in Nat /\ image[i].ptr + image[i].size <= p
    BY <2>1, Sections
  <2>3. ASSUME NEW o \in 0 .. image[i].size - 1
        PROVE  mem'[image[i].ptr + o] = image[i].start + o
    <3>1. image[i].ptr + o \in Addr
      BY DEF Addressable
    <3>2. ~(image[i].ptr + o >= p + k)
      <4> HIDE DEF p, k
      <4>1. QED
        BY <1>2, <2>2
    <3>3. o < image[i].size
      BY <2>2
    <3>4. mem[image[i].ptr + o] = image[i].start + o
      BY <1>6, <3>3 DEF Filled
    <3> HIDE DEF p, k, n, f
    <3>5. QED
      BY <1>4, <3>1, <3>2, <3>4
  <2>4. QED
    BY <2>3 DEF Filled
<1>7. ASSUME Filled(area, k), NEW o \in 0 .. s - 1, o < k + BlockSize
      PROVE  mem'[p + o] = f + o
  <2>1. p + o \in Addr
    BY DEF Addressable
  <2>2. o \in Nat /\ o < s
    <3> HIDE DEF s
    <3>1. QED
      BY <1>2
  <2>3. CASE o < k
    <3>1. mem[p + o] = f + o
      BY <1>7, <2>3 DEF Filled
    <3> HIDE DEF p, k, n, f
    <3>2. ~(p + o >= p + k)
      BY <1>2, <2>2, <2>3
    <3>3. QED
      BY <1>4, <2>1, <3>1, <3>2
  <2>4. CASE o >= k
    <3> HIDE DEF p, k, n, f, s
    <3>1. p + o >= p + k /\ p + o < p + k + n
      BY <1>1, <1>2, <1>5, <1>7, <2>2, <2>4
    <3>2. f + k + ((p + o) - (p + k)) = f + o
      BY <1>2, <2>2
    <3>3. QED
      BY <1>4, <2>1, <3>1, <3>2
  <2>5. QED
    <3> HIDE DEF p, k, f
    <3>1. QED
      BY <1>2, <2>2, <2>3, <2>4
<1>8. QED
  BY <1>6, <1>7

(* A call for the flash buffer leaves the loaded sections alone.           *)
LEMMA RecordNoted ==
  ASSUME Addressable, PlaceInv, pc \in Placed, mem' = Noted(mem), image' = image,
         NEW i \in 1 .. Len(image), NEW n, Filled(i, n)
  PROVE  \A o \in 0 .. image[i].size - 1 :
           o < n => mem'[image[i].ptr + o] = image[i].start + o
<1> DEFINE p == image[i].ptr
           s == image[i].size
<1>1. image \in Images /\ addr \in Nat /\ RecordSize \in Nat /\ Apart(image[i])
  BY BootAssumption DEF PlaceInv, RecordApart
<1>2. p \in Nat /\ s \in Nat
  BY <1>1, Sections
<1>3. RoundUp(s) \in Nat /\ RoundUp(s) >= s
  BY <1>2, RoundUpAtLeast
<1>4. p + RoundUp(s) <= addr \/ addr + RecordSize <= p
  BY <1>1 DEF Apart
<1>5. \A a \in Addr : (a >= addr /\ a < addr + RecordSize) \/ mem'[a] = mem[a]
  BY DEF Noted
<1>6. ASSUME NEW o \in 0 .. s - 1, o < n
      PROVE  mem'[p + o] = image[i].start + o
  <2>1. p + o \in Addr
    BY <1>1 DEF Addressable
  <2>2. mem[p + o] = image[i].start + o
    BY <1>6 DEF Filled
  <2>3. ~(p + o >= addr /\ p + o < addr + RecordSize)
    <3> HIDE DEF p, s
    <3>1. QED
      BY <1>1, <1>2, <1>3, <1>4
  <2> HIDE DEF p
  <2>4. QED
    BY <1>5, <2>1, <2>2, <2>3
<1>7. QED
  BY <1>6

-----------------------------------------------------------------------------
(* Before the loading block is zero and the index at the first section;    *)
(* while it goes on, the sections before the index are in their place and  *)
(* so are the blocks before block.  A request for a block that goes to L2  *)
(* has put it there when the DMA is done, before the loader counts it.     *)
Loading == {"LOAD", "COPY"}
Before == pc \in Loading \cup {"ENTRY"} =>
  \A i \in 1 .. Len(image) : i < area => Filled(i, image[i].size)
Current == pc \in Loading /\ ~Last =>
  block <= image[area].blocks /\ Filled(area, block * BlockSize)
Answered == pc = "LOAD" /\ waiting /\ ~busy /\ ~Last /\ IsL2Section(image[area]) =>
  Filled(area, block * BlockSize + BlockSize)
Control ==
  /\ block \in Nat
  /\ pc \notin Loading \cup {"ENTRY"} => block = 0
  /\ pc \in {"NEWHEADER", "NEWAREAS"} => area = 1
  /\ busy => waiting
  /\ waiting => Calls
  /\ pc = "COPY" => ~Last /\ block # image[area].blocks
  /\ pc = "ENTRY" => Last
LoadInv == Control /\ Before /\ Current /\ Answered

LEMMA InitLoadInv == Init => LoadInv
BY DEF Init, LoadInv, Control, Before, Current, Answered, Loading

(* Where the loading starts nothing needs to be in its place yet.          *)
LEMMA NothingFilled == \A i : Filled(i, 0)
BY DEF Filled

LEMMA FilledStays ==
  ASSUME UNCHANGED <<image, mem>>
  PROVE  \A i, n : Filled(i, n)' = Filled(i, n)
BY DEF Filled

(* A section with all its blocks is complete.                              *)
LEMMA SectionDone ==
  ASSUME image \in Images, area \in 1 .. Len(image),
         Filled(area, image[area].blocks * BlockSize)
  PROVE  Filled(area, image[area].size)
<1> DEFINE k == image[area].blocks * BlockSize
           s == image[area].size
<1>1. k >= s /\ s \in Nat /\ k \in Nat
  BY BlockCount, Sections, BootAssumption
<1>2. ASSUME NEW o \in 0 .. s - 1 PROVE o < k
  <2> HIDE DEF k, s
  <2>1. QED
    BY <1>1
<1>3. QED
  BY <1>2 DEF Filled

LEMMA NextBlock ==
  ASSUME block \in Nat
  PROVE  (block + 1) * BlockSize = block * BlockSize + BlockSize
BY BootAssumption

LEMMA AreaInRange ==
  ASSUME PlaceInv, ~Last
  PROVE  image \in Images /\ Len(image) \in Nat /\ area \in 1 .. Len(image)
<1>1. image \in Images /\ area \in Nat \ {0}
  BY DEF PlaceInv
<1>2. image \in Seq(Area)
  BY <1>1, BootAssumption
<1>3. Len(image) \in Nat
  BY <1>2
<1>4. QED
  BY <1>1, <1>3 DEF Last

-----------------------------------------------------------------------------
(* Everything before the loading, its last steps included.                 *)
LEMMA OutsideKeeps ==
  ASSUME LoadInv, ~waiting, UNCHANGED <<image, block, waiting, busy, mem>>,
         pc \notin Loading, pc' \notin Loading \cup {"ENTRY"},
         pc # "ENTRY", pc' \in {"NEWHEADER", "NEWAREAS"} => area' = 1
  PROVE  LoadInv'
BY DEF LoadInv, Control, Before, Current, Answered, Calls, Loading

LEMMA NextSectionKeeps ==
  ASSUME PlaceInv, LoadInv, NextSection, ~waiting, UNCHANGED <<waiting, busy, mem>>
  PROVE  LoadInv'
<1>1. /\ pc = "LOAD" /\ pc' = "LOAD" /\ ~Last /\ block = image[area].blocks
      /\ area' = area + 1 /\ block' = 0 /\ image' = image
  BY DEF NextSection
<1>2. image \in Images /\ Len(image) \in Nat /\ area \in 1 .. Len(image)
  BY <1>1, AreaInRange
<1>3. Filled(area, image[area].size)
  BY <1>1, <1>2, SectionDone DEF LoadInv, Current, Loading
<1>4. Before'
  <2>1. ASSUME NEW i \in 1 .. Len(image), i < area + 1
        PROVE  Filled(i, image[i].size)
    <3>1. i < area \/ i = area
      BY <1>2, <2>1
    <3>2. QED
      BY <1>1, <1>3, <3>1 DEF LoadInv, Before, Loading
  <2>2. QED
    BY <1>1, <2>1 DEF Before, Filled
<1>5. Current'
  <2>1. ASSUME ~Last'
        PROVE  0 <= image[area + 1].blocks
    <3>1. area + 1 \in 1 .. Len(image)
      BY <1>1, <1>2, <2>1 DEF Last
    <3>2. QED
      BY <1>2, <3>1, BlockCount
  <2>2. 0 * BlockSize = 0
    BY BootAssumption
  <2>3. QED
    BY <1>1, <2>1, <2>2 DEF Current, Filled
<1>6. QED
  BY <1>1, <1>4, <1>5 DEF LoadInv, Control, Answered, Calls, Loading

(* A block in its place, by memcpy.                                        *)
LEMMA CopyKeeps ==
  ASSUME Addressable, PlaceInv, LoadInv, Copy, ~waiting, UNCHANGED <<waiting, busy>>
  PROVE  LoadInv'
<1>1. /\ pc = "COPY" /\ pc' = "LOAD" /\ block' = block + 1
      /\ image' = image /\ area' = area /\ mem' = Loaded(mem)
  BY DEF Copy
<1>2. ~Last /\ block \in Nat /\ block # image[area].blocks /\ block <= image[area].blocks
  BY <1>1 DEF LoadInv, Control, Current, Loading
<1>3. image \in Images /\ area \in 1 .. Len(image)
  BY <1>2, AreaInRange
<1>4. image[area].blocks \in Nat
  BY <1>3, BlockCount
<1>5. block < image[area].blocks /\ block + 1 <= image[area].blocks /\ block + 1 \in Nat
  BY <1>2, <1>4
<1>6. \A i \in 1 .. Len(image) :
        i < area /\ Filled(i, image[i].size) => Filled(i, image[i].size)'
  BY <1>1, <1>2, <1>3, <1>5, BlockLoaded
<1>7. \A o \in 0 .. image[area].size - 1 :
        o < block * BlockSize + BlockSize => mem'[image[area].ptr + o] = image[area].start + o
  BY <1>1, <1>2, <1>3, <1>5, BlockLoaded DEF LoadInv, Current, Loading
<1>8. Before'
  BY <1>1, <1>6 DEF LoadInv, Before, Loading
<1>9. Current'
  BY <1>1, <1>2, <1>5, <1>7, NextBlock DEF Current, Filled
<1>10. QED
  BY <1>1, <1>5, <1>8, <1>9 DEF LoadInv, Control, Answered, Calls, Loading

LEMMA CallKeeps ==
  ASSUME LoadInv, Call
  PROVE  LoadInv'
BY FilledStays DEF LoadInv, Control, Before, Current, Answered, Call, Calls, Reads, Last, Loading

(* The data of a request.                                                  *)
LEMMA TransferKeeps ==
  ASSUME Addressable, PlaceInv, LoadInv, DoTransfer
  PROVE  LoadInv'
<1>1. /\ UNCHANGED <<pc, image, area, block, addr, waiting>>
      /\ busy /\ ~busy' /\ waiting /\ Calls /\ block \in Nat
      /\ mem' = IF pc = "LOAD" /\ IsL2Section(image[area]) THEN Loaded(mem) ELSE Noted(mem)
  BY DEF DoTransfer, Transfer, LoadInv, Control
<1>2. Control'
  BY <1>1 DEF LoadInv, Control, Calls, Last, Loading
<1>3. CASE pc # "LOAD"
  <2>1. pc \notin {"COPY", "ENTRY"}
    BY <1>1 DEF Calls, Reads, Waits
  <2>2. QED
    BY <1>1, <1>2, <1>3, <2>1 DEF LoadInv, Before, Current, Answered, Loading
<1>4. CASE pc = "LOAD"
  <2>1. ~Last /\ block # image[area].blocks
    BY <1>1, <1>4 DEF Calls
  <2>2. image \in Images /\ area \in 1 .. Len(image)
    BY <2>1, AreaInRange
  <2>3. block <= image[area].blocks /\ Filled(area, block * BlockSize)
    BY <1>4, <2>1 DEF LoadInv, Current, Loading
  <2>4. \A i \in 1 .. Len(image) : i < area => Filled(i, image[i].size)
    BY <1>4 DEF LoadInv, Before, Loading
  <2>5. CASE IsL2Section(image[area])
    <3>1. mem' = Loaded(mem) /\ block < image[area].blocks
      <4>1. image[area].blocks \in Nat
        BY <2>2, BlockCount
      <4>2. QED
        BY <1>1, <1>4, <2>1, <2>3, <2>5, <4>1
    <3>2. \A i \in 1 .. Len(image) :
            i < area /\ Filled(i, image[i].size) => Filled(i, image[i].size)'
      BY <1>1, <2>2, <3>1, BlockLoaded
    <3>3. \A o \in 0 .. image[area].size - 1 :
            o < block * BlockSize + BlockSize
              => mem'[image[area].ptr + o] = image[area].start + o
      BY <1>1, <2>2, <2>3, <3>1, BlockLoaded
    <3>4. \A o \in 0 .. image[area].size - 1 :
            o < block * BlockSize => o < block * BlockSize + BlockSize
      <4> DEFINE k == block * BlockSize
      <4>1. k \in Nat /\ BlockSize \in Nat /\ image[area].size \in Nat
        BY <1>1, <2>2, Sections, BootAssumption
      <4> HIDE DEF k
      <4>2. \A o \in 0 .. image[area].size - 1 : o < k => o < k + BlockSize
        BY <4>1
      <4>3. QED
        BY <4>2 DEF k
    <3>5. Before'
      BY <1>1, <2>4, <3>2 DEF Before
    <3>6. Current'
      BY <1>1, <2>3, <3>3, <3>4 DEF Current, Filled
    <3>7. Answered'
      BY <1>1, <3>3 DEF Answered, Filled
    <3>8. QED
      BY <1>2, <3>5, <3>6, <3>7 DEF LoadInv
  <2>6. CASE ~IsL2Section(image[area])
    <3>1. mem' = Noted(mem) /\ pc \in Placed
      BY <1>1, <1>4, <2>6 DEF Placed
    <3>2. \A i \in 1 .. Len(image) : i < area => Filled(i, image[i].size)'
      BY <1>1, <2>4, <3>1, RecordNoted DEF Filled
    <3>3. Filled(area, block * BlockSize)'
      BY <1>1, <2>2, <2>3, <3>1, RecordNoted DEF Filled
    <3>4. QED
      BY <1>1, <1>2, <1>4, <2>3, <2>6, <3>2, <3>3
         DEF LoadInv, Before, Current, Answered, IsL2Section
  <2>7. QED
    BY <2>5, <2>6
<1>5. QED
  BY <1>3, <1>4

LEMMA ReturnKeeps ==
  ASSUME PlaceInv, LoadInv, Return
  PROVE  LoadInv'
<1>1. /\ waiting /\ ~busy /\ ~waiting' /\ ~busy' /\ mem' = mem /\ Calls
      /\ AfterCall /\ image' = image /\ area' = area
  BY DEF Return, LoadInv, Control, AfterCall, AfterHeader, GoTo
<1>2. CASE pc \in {"POWERUP", "JTAGWAIT", "HEADER", "AREAS"}
  BY <1>1, <1>2 DEF AfterCall, AfterHeader, GoTo, LoadInv, Control, Before, Current,
                    Answered, Loading
<1>3. CASE pc \in {"NEWHEADER", "NEWAREAS"}
  <2>1. /\ pc' \in {"NEWAREAS", "LOAD"} /\ block' = block /\ block = 0 /\ area = 1
    BY <1>1, <1>3 DEF AfterCall, AfterHeader, GoTo, LoadInv, Control, Loading
  <2>2. Control'
    BY <1>1, <2>1 DEF Control, Loading
  <2>3. Before'
    <3>1. \A i \in 1 .. Len(image) : ~(i < 1)
      <4>1. image \in Seq(Area)
        BY BootAssumption DEF PlaceInv
      <4>2. Len(image) \in Nat
        BY <4>1
      <4>3. QED
        BY <4>2
    <3>2. QED
      BY <1>1, <2>1, <3>1 DEF Before
  <2>4. Current'
    <3>1. ~Last => 0 <= image[area].blocks
      BY AreaInRange, BlockCount
    <3>2. 0 * BlockSize = 0
      BY BootAssumption
    <3>3. QED
      BY <1>1, <2>1, <3>1, <3>2 DEF Current, Filled, Last
  <2>5. QED
    BY <1>1, <2>2, <2>3, <2>4 DEF LoadInv, Answered
<1>4. CASE pc = "LOAD" /\ IsL2Section(image[area])
  <2>1. pc' = "LOAD" /\ block' = block + 1 /\ ~Last /\ block # image[area].blocks
    BY <1>1, <1>4 DEF AfterCall, Calls
  <2>2. image \in Images /\ area \in 1 .. Len(image)
    BY <2>1, AreaInRange
  <2>3. image[area].blocks \in Nat
    BY <2>2, BlockCount
  <2>4. block \in Nat /\ block <= image[area].blocks
    BY <1>4, <2>1 DEF LoadInv, Control, Current, Loading
  <2>5. block + 1 \in Nat /\ block + 1 <= image[area].blocks
    BY <2>1, <2>3, <2>4
  <2>6. Filled(area, (block + 1) * BlockSize)
    BY <1>1, <1>4, <2>1, <2>4, NextBlock DEF LoadInv, Answered
  <2>7. Before' /\ Current'
    BY <1>1, <1>4, <2>1, <2>5, <2>6 DEF LoadInv, Before, Current, Filled, Loading
  <2>8. QED
    BY <1>1, <2>1, <2>5, <2>7 DEF LoadInv, Control, Answered, Loading
<1>5. CASE pc = "LOAD" /\ ~IsL2Section(image[area])
  <2>1. pc' = "COPY" /\ block' = block /\ ~Last /\ block # image[area].blocks
    BY <1>1, <1>5 DEF AfterCall, Calls, GoTo
  <2>2. QED
    BY <1>1, <1>5, <2>1
       DEF LoadInv, Control, Before, Current, Answered, Filled, Last, Loading
<1>6. QED
  BY <1>1, <1>2, <1>3, <1>4, <1>5 DEF Calls, Reads, Waits

LEMMA NextLoadInv == Addressable /\ PlaceInv /\ LoadInv /\ [Next]_bootVars => LoadInv'
<1> SUFFICES ASSUME Addressable, PlaceInv, LoadInv, [Next]_bootVars
             PROVE  LoadInv'
  OBVIOUS
<1>1. CASE UNCHANGED bootVars
  BY <1>1 DEF bootVars, LoadInv, Control, Before, Current, Answered, Filled, Calls, Last,
              IsL2Section
<1>2. CASE DoLocal
  <2> USE DEF GoTo, Loading
  <2>1. CASE Main /\ UNCHANGED mem
    BY <1>2, <2>1, OutsideKeeps DEF DoLocal, Main
  <2>2. CASE JtagPoll /\ UNCHANGED mem
    BY <1>2, <2>2, OutsideKeeps DEF DoLocal, JtagPoll
  <2>3. CASE Fit /\ UNCHANGED mem
    BY <1>2, <2>3, OutsideKeeps DEF DoLocal, Fit
  <2>4. CASE NextSection /\ UNCHANGED mem
    BY <1>2, <2>4, NextSectionKeeps DEF DoLocal
  <2>5. CASE Jump /\ UNCHANGED mem
    BY <1>2, <2>5 DEF DoLocal, Jump, LoadInv, Control, Before, Current, Answered, Filled,
                      Calls, Last
  <2>6. CASE Copy
    BY <1>2, <2>6, CopyKeeps DEF DoLocal
  <2>7. QED
    BY <1>2, <2>1, <2>2, <2>3, <2>4, <2>5, <2>6 DEF DoLocal, Local
<1>3. QED
  BY <1>1, <1>2, CallKeeps, TransferKeeps, ReturnKeeps DEF Next

(* For every well-formed header, size of the record, of blocks and words:  *)
(* when the loader jumps, each section is in memory to its last byte.      *)
THEOREM SectionsLoaded ==
  ASSUME Addressable
  PROVE  Spec => []SectionsInPlace
<1>1. PlaceInv /\ LoadInv => SectionsInPlace
  <2> SUFFICES ASSUME PlaceInv, LoadInv, pc = "ENTRY", NEW i \in 1 .. Len(image),
                      NEW o \in 0 .. image[i].size - 1
               PROVE  mem[image[i].ptr + o] = image[i].start + o
    BY DEF SectionsInPlace
  <2>1. image \in Images /\ area > Len(image) /\ area \in Nat
    BY DEF PlaceInv, LoadInv, Control, Last
  <2>2. image \in Seq(Area) /\ image[i].size \in Nat
    BY <2>1, Sections, BootAssumption
  <2>3. i < area /\ o < image[i].size
    <3>1. Len(image) \in Nat
      BY <2>2
    <3>2. QED
      BY <2>1, <2>2, <3>1
  <2>4. QED
    BY <2>3 DEF LoadInv, Before, Filled
<1>2. QED
  BY <1>1, InitPlaceInv, NextPlaceInv, InitLoadInv, NextLoadInv, PTL DEF Spec
=============================================================================
