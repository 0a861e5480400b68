--------------------------------- MODULE IO ---------------------------------
(***************************************************************************)
(* Reading files and names into strings, IO/src/IO.c.  Of the file system  *)
(* there are the contents a file may have and the full names realpath may  *)
(* find; every call of it may also fail.                                   *)
(***************************************************************************)
EXTENDS String

CONSTANTS
  Files,   \* the contents of files
  Paths,   \* the full names of files, and of folders with a slash behind
  SLASH

ASSUME IOAssumption ==
  /\ Files \subseteq Seq(Chars \cup {ZERO})
  /\ Paths \subseteq Seq(Chars)
  /\ SLASH \in Chars

(* real_path: the string is cleared first, so that it is empty when there  *)
(* is no memory for the name.                                              *)
RealPath(s, path) ==
  LET o == Cleared(mem, str[s])
  IN  /\ str[s].memory_resource # NULL
      /\ Becomes(s, Appended(o.mem, o.string, path))

RealPathNoMemory(s, path) ==
  /\ str[s].memory_resource # NULL
  /\ Len(path) > str[s].capacity
  /\ Becomes(s, {Cleared(mem, str[s])})

(* read_file: room for the file and one character more, then its contents  *)
(* in place of the text, ...                                               *)
ReadFile(s, file) ==
  /\ str[s].memory_resource # NULL
  /\ Becomes(s, {Filled(o, 0, file) : o \in Reallocated(mem, str[s], Len(file) + 1)})

(* ... unless fread stops after `count' characters, which then stand in    *)
(* the buffer of a string whose size is still the old one.                 *)

\* A bug: taking what was read for the text.
SpoiledToCount(o, text) ==
  Outcome([o.mem EXCEPT ![o.string.data] = Written(@, 0, text)],
          [o.string EXCEPT !.size = Len(text)])

Spoiled(o, text) ==
  Outcome([o.mem EXCEPT ![o.string.data] = Written(@, 0, text)], o.string)

ReadFileFails(s, file, count) ==
  /\ str[s].memory_resource # NULL
  /\ count < Len(file)
  /\ Becomes(s, {Spoiled(o, SubSeq(file, 1, count)) :
                   o \in Reallocated(mem, str[s], Len(file) + 1)})

IONext(s) ==
  \/ \E path \in Paths : RealPath(s, path) \/ RealPathNoMemory(s, path)
  \/ \E file \in Files :
       \/ ReadFile(s, file)
       \/ \E count \in 0 .. Len(file) : ReadFileFails(s, file, count)

-----------------------------------------------------------------------------
(* get_filename_str: the name begins behind the last slash but one that    *)
(* ends the path, which a file's cannot have.                              *)

\* A bug: a slash in front of the path is not found.
NameStartFromSecond(path) ==
  Max({0} \cup {n \in 2 .. Len(path) - 1 : path[n] = SLASH})

NameStart(path) == Max({0} \cup {n \in 1 .. Len(path) - 1 : path[n] = SLASH})

GetFilename(path) == SubSeq(path, NameStart(path) + 1, Len(path))

(* get_folder_str: what is in front of the name. *)
GetFolder(path) == SubSeq(path, 1, Len(path) - Len(GetFilename(path)))
=============================================================================
