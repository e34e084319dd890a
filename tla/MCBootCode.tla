----------------------------- MODULE MCBootCode -----------------------------
(***************************************************************************)
(* The boot code on small images: words of two bytes, blocks of four, a    *)
(* record of six bytes; up to two sections in L2 at every word, of sizes   *)
(* around the word and the block, and one section behind L2.               *)
(***************************************************************************)
EXTENDS BootCode

CONSTANTS Ptrs, Sizes

MCAreas(k, ptrs) ==
  {[start |-> 100 * k, ptr |-> p, size |-> s, blocks |-> (s + BlockSize - 1) \div BlockSize] :
     p \in ptrs, s \in Sizes}

MCOutside == [start |-> 300, ptr |-> L2End, size |-> 3, blocks |-> 1]

MCAddr == 0 .. L2End + 3

MCImages ==
  {<<>>, <<MCOutside>>} \cup {<<a>> : a \in MCAreas(1, Ptrs)}
    \cup {<<a, b, MCOutside>> :
            a \in MCAreas(1, Ptrs), b \in MCAreas(2, Ptrs)}

MCApart(img) ==
  \A i \in 1 .. Len(img) : \A j \in i + 1 .. Len(img) :
    img[i].ptr + img[i].size <= img[j].ptr

MCSorted == {img \in MCImages : MCApart(img)}
=============================================================================
