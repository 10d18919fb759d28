--------------------------- MODULE ImagePatcherProofs ---------------------------
(***************************************************************************)
(* Proofs about ImagePatcher, for any files and any remaps.                *)
(***************************************************************************)
EXTENDS ImagePatcher, WellFoundedInduction, TLAPS

\* Of several remaps of a port, one is the last.
LEMMA NewPortTyped ==
  ASSUME asked \in Seq(Remap), NEW p \in Asked
  PROVE  NewPort(p) \in Port
<1> DEFINE T == {n \in Nat : n < Len(asked) /\ asked[Len(asked) - n].old = p}
           R == {ss \in Nat \X Nat : ss[1] < ss[2]}
<1>1. PICK k \in 1..Len(asked) : asked[k].old = p
  BY DEF Asked
<1>2. Len(asked) - k \in T
  BY <1>1
<1>3. IsWellFoundedOn(R, Nat)
  BY NatLessThanWellFounded DEF OpToRel
<1>4. PICK n \in T : \A m \in T : ~(<<m, n>> \in R)
  <2> HIDE DEF R, T
  <2>1. T \subseteq Nat
    BY DEF T
  <2> QED BY <1>2, <1>3, <2>1, WFMin
<1>5. \A m \in T : m >= n
  <2>1. ASSUME NEW m \in T, m < n
        PROVE  FALSE
    <3>1. m \in Nat /\ n \in Nat
      OBVIOUS
    <3>2. <<m, n>> \in R
      BY <2>1, <3>1
    <3> QED BY <1>4, <3>2
  <2>2. \A m \in T : m \in Nat /\ n \in Nat
    OBVIOUS
  <2> QED
    <3> HIDE DEF T, R
    <3> QED BY <2>1, <2>2
<1>6. /\ Len(asked) - n \in 1..Len(asked)
      /\ asked[Len(asked) - n].old = p
      /\ \A j \in (Len(asked) - n + 1)..Len(asked) : asked[j].old # p
  <2>1. ASSUME NEW j \in (Len(asked) - n + 1)..Len(asked), asked[j].old = p
        PROVE  FALSE
    <3>1. Len(asked) - j \in T
      BY <2>1
    <3> QED BY <1>5, <3>1
  <2> QED BY <2>1
<1>7. \E i \in 1..Len(asked) :
        asked[i].old = p /\ \A j \in (i + 1)..Len(asked) : asked[j].old # p
  BY <1>6
<1>8. \E i \in 1..Len(asked) : NewPort(p) = asked[i].new
  BY <1>7 DEF NewPort
<1>9. \A i \in 1..Len(asked) : asked[i].new \in Port
  <2>1. \A i \in 1..Len(asked) : asked[i] \in Remap
    OBVIOUS
  <2> QED BY <2>1 DEF Remap
<1> QED BY <1>8, <1>9

-----------------------------------------------------------------------------
LEMMA InitInv ==
  Init => Inv
<1> SUFFICES ASSUME Init
             PROVE  Inv
  OBVIOUS
<1>1. new_data = << >> /\ new_data \in Seq(Entry)
  BY DEF Init
<1>2. DOMAIN tcp_listen_remaps = {}
  BY DEF Init
<1> QED BY <1>1, <1>2 DEF Init, Inv, TypeOK, PInv

\* One entry more: it is as expected, and so is the map without its port.
LEMMA PatchEntryInv ==
  ASSUME Inv, PatchEntry
  PROVE  Inv'
<1> DEFINE n   == Len(new_data)
           old == files_img.entries[n + 1]
<1>1. /\ patcher = "patching" /\ n < Len(files_img.entries)
      /\ UNCHANGED <<files_img, asked, patcher>>
  BY DEF PatchEntry
<1>2. asked # << >> /\ files_img # NoFile
  BY <1>1 DEF Inv, PInv
<1>3. /\ files_img \in Image
      /\ asked \in Seq(Remap)
      /\ files_img.entries \in Seq(Entry)
  BY <1>2, PatcherAssumption DEF Inv, TypeOK, Image
<1>4. n \in Nat /\ new_data \in Seq(Entry) /\ old \in Entry
  BY <1>1, <1>3 DEF Inv, TypeOK
<1>5. \A p \in Asked : NewPort(p) \in Port
  BY <1>3, NewPortTyped
<1>6. Matches(old) <=> FirstOn(n + 1) /\ old.src_port \in Asked
  <2>1. DOMAIN tcp_listen_remaps =
          {p \in Asked : \A i \in 1..n :
             files_img.entries[i].listens => files_img.entries[i].src_port # p}
    BY <1>1, <1>2 DEF Inv, PInv
  <2> QED BY <1>4, <2>1 DEF Matches, FirstOn
<1>7. Expected(n + 1) = IF Matches(old) THEN [old EXCEPT !.src_port = NewPort(@)] ELSE old
  BY <1>6 DEF Expected
<1>8. new_data' = Append(new_data, Expected(n + 1))
  <2>1. CASE Matches(old)
    <3>1. tcp_listen_remaps[old.src_port] = NewPort(old.src_port)
      BY <1>1, <1>2, <2>1 DEF Inv, PInv, Matches
    <3> QED BY <1>7, <2>1, <3>1 DEF PatchEntry
  <2>2. CASE ~Matches(old)
    BY <1>7, <2>2 DEF PatchEntry
  <2> QED BY <2>1, <2>2
<1>9. Expected(n + 1) \in Entry
  <2>1. CASE Matches(old)
    BY <1>4, <1>5, <1>6, <1>7, <2>1 DEF Entry
  <2>2. CASE ~Matches(old)
    BY <1>4, <1>7, <2>2
  <2> QED BY <2>1, <2>2
<1>10. /\ new_data' \in Seq(Entry)
       /\ Len(new_data') = n + 1
       /\ new_data'[n + 1] = Expected(n + 1)
       /\ \A i \in 1..n : new_data'[i] = new_data[i]
  <2> HIDE DEF old
  <2> QED BY <1>4, <1>8, <1>9
<1>11. \A i \in 1..(n + 1) : new_data'[i] = Expected(i)
  <2>1. \A i \in 1..n : new_data[i] = Expected(i)
    BY <1>1, <1>2 DEF Inv, PInv
  <2> QED BY <1>4, <1>10, <2>1
<1>12. DOMAIN tcp_listen_remaps' =
         {p \in Asked : \A i \in 1..(n + 1) :
            files_img.entries[i].listens => files_img.entries[i].src_port # p}
  <2>1. DOMAIN tcp_listen_remaps =
          {p \in Asked : \A i \in 1..n :
             files_img.entries[i].listens => files_img.entries[i].src_port # p}
    BY <1>1, <1>2 DEF Inv, PInv
  <2>2. CASE Matches(old)
    <3>1. DOMAIN tcp_listen_remaps' = DOMAIN tcp_listen_remaps \ {old.src_port}
      BY <2>2 DEF PatchEntry, Without
    <3>2. old.listens
      BY <2>2 DEF Matches
    <3> QED BY <1>4, <2>1, <3>1, <3>2
  <2>3. CASE ~Matches(old)
    <3>1. UNCHANGED tcp_listen_remaps
      BY <2>3 DEF PatchEntry
    <3>2. old.listens => old.src_port \notin DOMAIN tcp_listen_remaps
      BY <2>3 DEF Matches
    <3> QED BY <1>4, <2>1, <3>1, <3>2
  <2> QED BY <2>2, <2>3
<1>13. \A p \in DOMAIN tcp_listen_remaps' : tcp_listen_remaps'[p] = NewPort(p)
  <2>1. \A p \in DOMAIN tcp_listen_remaps : tcp_listen_remaps[p] = NewPort(p)
    BY <1>1, <1>2 DEF Inv, PInv
  <2>2. CASE Matches(old)
    BY <2>1, <2>2 DEF PatchEntry, Without
  <2>3. CASE ~Matches(old)
    BY <2>1, <2>3 DEF PatchEntry
  <2> QED BY <2>2, <2>3
<1>14. /\ Asked' = Asked
       /\ \A p : NewPort(p)' = NewPort(p)
       /\ \A i : Expected(i)' = Expected(i)
  BY <1>1 DEF Asked, NewPort, Expected, FirstOn
<1>15. TypeOK'
  BY <1>1, <1>5, <1>10, <1>12, <1>13, <1>14 DEF Inv, TypeOK
<1>16. PInv'
  <2> HIDE DEF old, n
  <2>1. n + 1 <= Len(files_img.entries)
    BY <1>1, <1>3, <1>4
  <2>2. files_img.header
    BY <1>1, <1>2 DEF Inv, PInv
  <2> QED BY <1>1, <1>2, <1>10, <1>11, <1>12, <1>13, <1>14, <2>1, <2>2 DEF PInv
<1> QED BY <1>15, <1>16 DEF Inv

LEMMA NextInv ==
  Inv /\ [Next]_vars => Inv'
<1> SUFFICES ASSUME Inv, [Next]_vars
             PROVE  Inv'
  OBVIOUS
<1>a. UNCHANGED <<files_img, asked>>
  BY DEF Next, Untouched, PatchBegin, PatchEntry, PatchEnd, Ended, vars
<1>0. /\ Asked' = Asked
      /\ \A p : NewPort(p)' = NewPort(p)
      /\ \A i : Expected(i)' = Expected(i)
  BY <1>a DEF Asked, NewPort, Expected, FirstOn
<1>1. CASE Untouched
  <2>1. files_img # NoFile => files_img.entries \in Seq(Entry)
    BY PatcherAssumption DEF Inv, TypeOK, Image
  <2> QED BY <1>0, <1>1, <2>1 DEF Untouched, Inv, TypeOK, PInv
<1>2. CASE PatchBegin
  <2>1. asked \in Seq(Remap) /\ files_img \in Image
    BY <1>2, PatcherAssumption DEF Inv, TypeOK, PatchBegin
  <2>2. \A p \in Asked : NewPort(p) \in Port
    BY <2>1, NewPortTyped
  <2>3. new_data = << >> /\ Len(files_img.entries) \in Nat /\ Len(new_data) = 0
    BY <1>2, <2>1 DEF Inv, PInv, PatchBegin, Image
  <2> QED BY <1>0, <1>2, <2>2, <2>3 DEF PatchBegin, Inv, TypeOK, PInv
<1>3. CASE PatchEntry
  BY <1>3, PatchEntryInv
<1>4. CASE PatchEnd
  <2>1. /\ patcher = "patching" /\ patcher' \in {"serving", "failed"}
        /\ Len(new_data) = Len(files_img.entries)
        /\ patcher' = "serving" <=> ~(files_img.cut \/ DOMAIN tcp_listen_remaps # {})
        /\ files_img' = files_img /\ asked' = asked
        /\ tcp_listen_remaps' = tcp_listen_remaps /\ new_data' = new_data
    BY <1>4 DEF PatchEnd
  <2>2. TypeOK'
    BY <1>0, <2>1 DEF Inv, TypeOK
  <2>3. PInv'
    BY <1>0, <2>1 DEF Inv, PInv
  <2> QED BY <2>2, <2>3 DEF Inv
<1>5. CASE Ended \/ UNCHANGED vars
  <2>1. UNCHANGED vars
    BY <1>5 DEF Ended
  <2>2. TypeOK'
    BY <1>0, <2>1 DEF vars, Inv, TypeOK
  <2>3. PInv'
    BY <1>0, <2>1 DEF vars, Inv, PInv
  <2> QED BY <2>2, <2>3 DEF Inv
<1> QED BY <1>1, <1>2, <1>3, <1>4, <1>5 DEF Next

\* Whatever the file and the remaps, the entries that were written are as
\* expected, and the map has the remaps that found no socket among them.
THEOREM PatcherInv ==
  Spec => []Inv
<1>1. Init => Inv
  BY InitInv
<1>2. Inv /\ [Next]_vars => Inv'
  BY NextInv
<1> QED BY <1>1, <1>2, PTL DEF Spec

\* The file that is served differs from the one that was dumped in the ports
\* of the first socket that listens on each port to be remapped, in nothing else.
THEOREM ServedAsAsked ==
  Spec => []PatchedAsAsked
<1>1. Inv => PatchedAsAsked
  <2> SUFFICES ASSUME Inv, patcher = "serving", files_img # NoFile
               PROVE  new_data = [i \in 1..Len(files_img.entries) |-> Expected(i)]
    BY DEF PatchedAsAsked
  <2>1. files_img.entries \in Seq(Entry) /\ new_data \in Seq(Entry)
    BY PatcherAssumption DEF Inv, TypeOK, Image
  <2>2. CASE asked = << >>
    <3>1. Asked = {}
      BY <2>2 DEF Asked
    <3>2. \A i : Expected(i) = files_img.entries[i]
      BY <3>1 DEF Expected
    <3>3. new_data = files_img.entries
      BY <2>2 DEF Inv, PInv
    <3> QED BY <2>1, <3>2, <3>3
  <2>3. CASE asked # << >>
    <3>1. Len(new_data) = Len(files_img.entries) /\ \A i \in 1..Len(new_data) : new_data[i] = Expected(i)
      BY <2>3 DEF Inv, PInv
    <3>2. new_data = [i \in 1..Len(new_data) |-> new_data[i]]
      BY <2>1
    <3> QED BY <3>1, <3>2
  <2> QED BY <2>2, <2>3
<1> QED BY <1>1, PatcherInv, PTL

\* Nothing is served of which a remap found no socket, and nothing is refused
\* for another reason than that or a file that is corrupt.
THEOREM RefusesForCause ==
  Spec => []RefusedForCause
<1>1. Inv => RefusedForCause
  <2> SUFFICES ASSUME Inv, asked # << >>, files_img # NoFile,
                      patcher \in {"serving", "failed"}
               PROVE  patcher = "serving" <=>
                        files_img.header /\ ~files_img.cut /\ \A p \in Asked : ListensOn(p)
    BY DEF RefusedForCause
  <2>1. Len(new_data) = Len(files_img.entries) =>
          (DOMAIN tcp_listen_remaps = {} <=> \A p \in Asked : ListensOn(p))
    BY DEF Inv, PInv, ListensOn
  <2> QED BY <2>1 DEF Inv, PInv
<1> QED BY <1>1, PatcherInv, PTL
=============================================================================
