----------------------------- MODULE Fat83Name -----------------------------
(***************************************************************************)
(* The 8.3 name formatting of add_file_to_directory in                     *)
(* src/tools/build_disk.py (lines 166-170), applied to the names main()    *)
(* adds to one directory in turn.                                          *)
(*                                                                         *)
(* A file name is a sequence of one-character strings.  The name is        *)
(* uppercased, split by os.path.splitext (at the last dot, unless every    *)
(* character before that dot is a dot), the stem cut to 8 characters and  *)
(* padded with spaces, the extension's first 3 characters after its dot    *)
(* padded likewise, and the two concatenated into the 11 name bytes.       *)
(***************************************************************************)
EXTENDS Integers, Sequences, SequencesExt

CONSTANTS
  Lower,        \* the lowercase letters file names use
  Upper,        \* Upper[c]: the uppercase of each letter of Lower
  Dot,          \* "."
  Space,        \* " "
  NameWidth,    \* 8
  ExtWidth,     \* 3
  Names         \* the file names main() may be given, as sequences

Chars == Lower \union Range(Upper) \union {Dot}

ASSUME /\ Upper \in [Lower -> STRING] /\ Dot \notin Lower \union Range(Upper)
       /\ Names \subseteq Seq(Chars)

(* str.upper(). *)
ToUpper(s) == [i \in DOMAIN s |-> IF s[i] \in Lower THEN Upper[s[i]] ELSE s[i]]

(* os.path.splitext for a name with no directory part: the root and the    *)
(* extension, dot included, split at the last dot when some character      *)
(* before it is not a dot; otherwise the extension is empty.               *)
SplitExt(s) ==
  LET dots == {i \in DOMAIN s : s[i] = Dot}
      last == IF dots = {} THEN 0 ELSE Max(dots)
  IN IF last > 0 /\ \E i \in 1..(last - 1) : s[i] # Dot
       THEN <<SubSeq(s, 1, last - 1), SubSeq(s, last, Len(s))>>
       ELSE <<s, <<>>>>

(* s[:w].ljust(w). *)
Fit(s, w) == [i \in 1..w |-> IF i <= Len(s) THEN s[i] ELSE Space]

(* Mutation: the name formatted without upper(). *)
Format83NoUpper(filename) ==
  LET parts == SplitExt(filename)
  IN Fit(parts[1], NameWidth)
       \o Fit(IF parts[2] # <<>> THEN Tail(parts[2]) ELSE <<>>, ExtWidth)

(* Mutation: the extension sliced from 0, keeping its dot. *)
Format83WithDot(filename) ==
  LET parts == SplitExt(ToUpper(filename))
  IN Fit(parts[1], NameWidth) \o Fit(parts[2], ExtWidth)

(* name[:8].ljust(8) + (ext[1:4].ljust(3) if ext else "   "). *)
Format83(filename) ==
  LET parts == SplitExt(ToUpper(filename))
  IN Fit(parts[1], NameWidth)
       \o Fit(IF parts[2] # <<>> THEN Tail(parts[2]) ELSE <<>>, ExtWidth)

VARIABLES
  files,   \* the names main() adds, in order
  dir      \* the 11-byte names written to the directory so far

vars == <<files, dir>>

Init ==
  /\ files \in Names \X Names
  /\ dir = <<>>

(* The name step of add_file_to_directory for the next file. *)
AddName ==
  /\ Len(dir) < Len(files)
  /\ dir' = Append(dir, Format83(files[Len(dir) + 1]))
  /\ UNCHANGED files

Next == AddName

Spec == Init /\ [][Next]_vars

(***************************************************************************)
(* A reference for the names 8.3 can hold: a stem of 1 to 8 characters     *)
(* and an optional extension of 1 to 3, neither with a dot.  Such a name   *)
(* is stored as its uppercased stem and extension, each space-padded.      *)
(***************************************************************************)
NoDots(s) == \A i \in DOMAIN s : s[i] # Dot

IsShortName(s) ==
  \E k \in 1..Len(s) :
    /\ NoDots(SubSeq(s, 1, k)) /\ k <= NameWidth
    /\ \/ k = Len(s)
       \/ /\ s[k + 1] = Dot /\ Len(s) - k - 1 \in 1..ExtWidth
          /\ NoDots(SubSeq(s, k + 2, Len(s)))

ShortNameBytes(s) ==
  LET k == CHOOSE k \in 1..Len(s) : NoDots(SubSeq(s, 1, k)) /\ (k = Len(s) \/ s[k + 1] = Dot)
  IN Fit(ToUpper(SubSeq(s, 1, k)), NameWidth) \o Fit(ToUpper(SubSeq(s, k + 2, Len(s))), ExtWidth)

(***************************************************************************)
(* Properties.                                                             *)
(***************************************************************************)
TypeOK ==
  /\ files \in Names \X Names
  /\ dir \in Seq([1..(NameWidth + ExtWidth) -> Range(Upper) \union {Dot, Space}])
  /\ Len(dir) <= Len(files)

(* Every name that fits 8.3 is stored exactly: its stem in the first 8     *)
(* bytes and its extension, without the dot, in the last 3, uppercased.    *)
ShortNamesKept ==
  \A i \in 1..Len(dir) : IsShortName(files[i]) => dir[i] = ShortNameBytes(files[i])

(* Spec 4.6 and glossary (format8_3, 8.3 name): the name is split into    *)
(* stem and extension, so the 11 stored bytes never hold a dot.            *)
NoDotInStoredName == \A i \in 1..Len(dir) : \A j \in DOMAIN dir[i] : dir[i][j] # Dot

=============================================================================
