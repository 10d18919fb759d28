------------------------------ MODULE ImagePatcher ------------------------------
(***************************************************************************)
(* What the serving thread does to files.img before it announces its       *)
(* socket: the entries are read one after the other, the port of a TCP     *)
(* socket that listens is replaced when that was asked for, and the file   *)
(* is served as rewritten.  A remap that finds no socket, like a file that *)
(* cannot be read to its end, ends the thread.                             *)
(***************************************************************************)
EXTENDS Naturals, Sequences, FiniteSets

CONSTANTS NoFile,    \* there is no files.img
          Images,    \* what files.img may be
          Requests,  \* what --tcp-listen-remap may be
          Port

Entry == [listens : BOOLEAN, src_port : Port]

Remap == [old : Port, new : Port]

\* header: the magic numbers are right; cut: it ends within an entry.
Image == [header : BOOLEAN, entries : Seq(Entry), cut : BOOLEAN]

ASSUME PatcherAssumption ==
  /\ Images \subseteq Image \cup {NoFile}
  /\ Requests \subseteq Seq(Remap)
  /\ NoFile \notin Image

VARIABLES files_img,          \* as it was dumped, or NoFile
          asked,              \* the remaps of the command line
          patcher,            \* where the thread is
          tcp_listen_remaps,  \* those that have not found their socket
          new_data            \* the entries written

vars == <<files_img, asked, patcher, tcp_listen_remaps, new_data>>

Asked == {asked[i].old : i \in 1..Len(asked)}

\* Collected into a map, the last one for a port counts.
NewPort(p) ==
  LET last == CHOOSE i \in 1..Len(asked) :
                asked[i].old = p /\ \A j \in (i + 1)..Len(asked) : asked[j].old # p
  IN  asked[last].new

Init ==
  /\ files_img \in Images
  /\ asked \in Requests
  /\ patcher = "collected"
  /\ tcp_listen_remaps = << >>
  /\ new_data = << >>

\* Nothing was asked for, or there is nothing to do it to.
Untouched ==
  /\ patcher = "collected"
  /\ asked = << >> \/ files_img = NoFile
  /\ patcher' = "serving"
  /\ new_data' = IF files_img = NoFile THEN << >> ELSE files_img.entries
  /\ UNCHANGED <<files_img, asked, tcp_listen_remaps>>

PatchBegin ==
  /\ patcher = "collected"
  /\ asked # << >> /\ files_img # NoFile
  /\ patcher' = IF files_img.header THEN "patching" ELSE "failed"
  /\ tcp_listen_remaps' = [p \in Asked |-> NewPort(p)]
  /\ UNCHANGED <<files_img, asked, new_data>>

\* Mutant: a socket that does not listen is patched as well.
Matches_AnyState(entry) == entry.src_port \in DOMAIN tcp_listen_remaps

Matches(entry) == entry.listens /\ entry.src_port \in DOMAIN tcp_listen_remaps

\* Mutant: the remap stays in the map.
Without_Kept(p) == tcp_listen_remaps

\* remove()
Without(p) ==
  [q \in DOMAIN tcp_listen_remaps \ {p} |-> tcp_listen_remaps[q]]

PatchEntry ==
  /\ patcher = "patching"
  /\ Len(new_data) < Len(files_img.entries)
  /\ LET old == files_img.entries[Len(new_data) + 1]
     IN  IF Matches(old)
         THEN /\ new_data' = Append(new_data,
                                    [old EXCEPT !.src_port = tcp_listen_remaps[@]])
              /\ tcp_listen_remaps' = Without(old.src_port)
         ELSE /\ new_data' = Append(new_data, old)
              /\ UNCHANGED tcp_listen_remaps
  /\ UNCHANGED <<files_img, asked, patcher>>

\* Mutant: the remaps that found no socket are not looked at.
PatchEnd_Lenient ==
  /\ patcher = "patching"
  /\ Len(new_data) = Len(files_img.entries)
  /\ patcher' = IF files_img.cut THEN "failed" ELSE "serving"
  /\ UNCHANGED <<files_img, asked, tcp_listen_remaps, new_data>>

\* The end of the file, or a part of an entry; and are there remaps left?
PatchEnd ==
  /\ patcher = "patching"
  /\ Len(new_data) = Len(files_img.entries)
  /\ patcher' = IF files_img.cut \/ DOMAIN tcp_listen_remaps # {} THEN "failed" ELSE "serving"
  /\ UNCHANGED <<files_img, asked, tcp_listen_remaps, new_data>>

Ended == patcher \in {"serving", "failed"} /\ UNCHANGED vars

Next == Untouched \/ PatchBegin \/ PatchEntry \/ PatchEnd \/ Ended

Spec == Init /\ [][Next]_vars

-----------------------------------------------------------------------------
\* The first socket that listens on the port of entry i is entry i.
FirstOn(i) ==
  /\ files_img.entries[i].listens
  /\ \A j \in 1..(i - 1) : files_img.entries[j].listens =>
                             files_img.entries[j].src_port # files_img.entries[i].src_port

Expected(i) ==
  IF FirstOn(i) /\ files_img.entries[i].src_port \in Asked
  THEN [files_img.entries[i] EXCEPT !.src_port = NewPort(@)] ELSE files_img.entries[i]

\* Sockets on the port p.
ListensOn(p) ==
  \E i \in 1..Len(files_img.entries) :
    files_img.entries[i].listens /\ files_img.entries[i].src_port = p

\* What is served has the entries that were dumped, in their order; the first
\* socket that listens on a port to be remapped has its new port, looked up
\* once, whatever chains or cycles the remaps form, and no other entry is
\* touched.
PatchedAsAsked ==
  (patcher = "serving" /\ files_img # NoFile) =>
    new_data = [i \in 1..Len(files_img.entries) |-> Expected(i)]

\* When remaps are asked for, nothing is served of which one found no socket;
\* and the thread gives up for no other reason than that, or a file that is
\* corrupt.
RefusedForCause ==
  (asked # << >> /\ files_img # NoFile) =>
    LET sound == files_img.header /\ ~files_img.cut /\ \A p \in Asked : ListensOn(p)
    IN  (patcher = "serving" => sound) /\ (patcher = "failed" => ~sound)

\* What holds at each entry: those before it are as expected, and the map has
\* the remaps that found no socket among them.
PInv ==
  /\ patcher = "collected" => new_data = << >>
  /\ patcher # "collected" /\ (asked = << >> \/ files_img = NoFile) =>
       patcher = "serving" /\ (files_img # NoFile => new_data = files_img.entries)
  /\ (patcher # "collected" /\ asked # << >> /\ files_img # NoFile) =>
       /\ new_data \in Seq(Entry)
       /\ Len(new_data) <= Len(files_img.entries)
       /\ \A i \in 1..Len(new_data) : new_data[i] = Expected(i)
       /\ DOMAIN tcp_listen_remaps =
            {p \in Asked : \A i \in 1..Len(new_data) :
               files_img.entries[i].listens => files_img.entries[i].src_port # p}
       /\ \A p \in DOMAIN tcp_listen_remaps : tcp_listen_remaps[p] = NewPort(p)
       /\ patcher = "serving" =>
            /\ files_img.header /\ ~files_img.cut
            /\ Len(new_data) = Len(files_img.entries)
            /\ DOMAIN tcp_listen_remaps = {}
       /\ patcher = "failed" =>
            \/ ~files_img.header
            \/ /\ Len(new_data) = Len(files_img.entries)
               /\ files_img.cut \/ DOMAIN tcp_listen_remaps # {}
       /\ patcher = "patching" => files_img.header

\* Every variable keeps to its type: what is written is entries, and a remap
\* still to be used is one of those asked for.
TypeOK ==
  /\ files_img \in Images
  /\ asked \in Requests
  /\ patcher \in {"collected", "patching", "serving", "failed"}
  /\ new_data \in Seq(Entry)
  /\ DOMAIN tcp_listen_remaps \subseteq Asked
  /\ \A p \in DOMAIN tcp_listen_remaps : tcp_listen_remaps[p] \in Port

Inv == TypeOK /\ PInv
=============================================================================
