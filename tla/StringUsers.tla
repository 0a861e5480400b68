---------------------------- MODULE StringUsers -----------------------------
(***************************************************************************)
(* Strings, the scratch buffer and IO together: all of them work on the    *)
(* same strings and take their memory from the same resources.             *)
(***************************************************************************)
EXTENDS ScratchBuffer, IO

Next ==
  \/ \E s \in Strings : StringNext(s) \/ IONext(s)
  \/ ScratchNext

Spec == Init /\ [][Next]_vars

-----------------------------------------------------------------------------
InUse == {b \in Blocks : mem[b] # NULL}

(* The variables hold what the structures hold; a string is no longer than *)
(* its capacity, and its block has a character more than that.             *)
TypeOK ==
  /\ mem \in [Blocks -> Block \cup {NULL}]
  /\ str \in [Strings -> Structure]
  /\ \A s \in Strings :
       /\ str[s].size <= str[s].capacity
       /\ str[s].data # NULL =>
            /\ str[s].data \in InUse
            /\ Len(mem[str[s].data].cells) = str[s].capacity + 1
       /\ str[s].data = NULL => str[s].capacity = 0

(* Every block in use is the buffer of one string, and came from that      *)
(* string's resource: neither growth, replacement nor an operation that    *)
(* fails half way leaves a buffer behind, frees one that is used, or gives *)
(* it back to another resource than the one it came from.                  *)
OneBufferEach ==
  /\ {str[s].data : s \in Strings} \ {NULL} = InUse
  /\ \A s, t \in Strings :
       (s # t /\ str[s].data # NULL) => str[s].data # str[t].data
  /\ \A s \in Strings :
       str[s].data # NULL => mem[str[s].data].resource = str[s].memory_resource

(* A step that makes a string longer or shorter leaves a text that is      *)
(* written to its end and has its zero behind it, whatever was in the      *)
(* buffer before: fresh memory, a longer text, or what a failed reading    *)
(* left there.  Only a buffer nothing was written to yet, which a          *)
(* construction by capacity leaves, is empty without a zero in front.      *)
Untouched(b) == \A i \in 1 .. Len(mem[b].cells) - 1 : mem[b].cells[i] = NULL

EndsInZero ==
  [][\A s \in Strings :
       (str'[s].size # str[s].size /\ str'[s].data # NULL) =>
         LET cells == mem'[str'[s].data].cells
         IN  /\ \A i \in 1 .. str'[s].size : cells[i] # NULL
             /\ \/ cells[str'[s].size + 1] = ZERO
                \/ str'[s].size = 0 /\ Untouched(str[s].data)']_vars

(* The path of a file is its folder followed by its name, whose parts they *)
(* are: the folder is empty or ends in a slash, the name has none.         *)
IsFilePath(path) ==
  /\ path # <<>>
  /\ \A i \in DOMAIN path : path[i] \in Chars
  /\ path[Len(path)] # SLASH

FolderAndName ==
  \A s \in Strings :
    LET path == Text(mem, str[s])
    IN  IsFilePath(path) =>
          /\ GetFolder(path) \o GetFilename(path) = path
          /\ GetFilename(path) # <<>>
          /\ \A i \in DOMAIN GetFilename(path) : GetFilename(path)[i] # SLASH
          /\ GetFolder(path) # <<>> => Last(GetFolder(path)) = SLASH

Shown == [s \in Strings |-> Text(mem, str[s])]

Sequence == INSTANCE Texts
              WITH texts <- Shown,
                   Literals <- Literals \cup {<<ch>> : ch \in Chars}

(* What each operation does to the text of its string, and to no other.    *)
StringMeans(s) ==
  /\ \A resource \in Resources :
       /\ \A capacity \in Capacities :
            CtorCapacity(s, resource, capacity) => Sequence!Clear(s)
       /\ \A text \in Literals :
            CtorStr(s, resource, text) \/ CtorPrintf(s, resource, text)
              => Sequence!Extend(s, text)
       /\ \A t \in Strings : Copy(s, resource, t) => Sequence!Extend(s, Shown[t])
       /\ CtorPrintfFails(s, resource) => UNCHANGED Shown
  /\ Dtor(s) \/ Clear(s) => Sequence!Clear(s)
  /\ \A text \in Literals : AppendStr(s, text) => Sequence!Extend(s, text)
  /\ \A t \in Strings : \A text \in Slices(t) :
       AppendSlice(s, t, text) => Sequence!Extend(s, text)
  /\ \A ch \in Chars : AppendChar(s, ch) => Sequence!Extend(s, <<ch>>)
  /\ \A capacity \in Capacities : Realloc(s, capacity) => UNCHANGED Shown
  /\ \A from, to \in Literals :
       ReplaceAllOf(s, from, to) => Sequence!Replace(s, from, to)

IOMeans(s) ==
  /\ \A path \in Paths :
       /\ RealPath(s, path) => Sequence!Load(s, path)
       /\ RealPathNoMemory(s, path) => Sequence!Clear(s)
  /\ \A file \in Files :
       /\ ReadFile(s, file) => Sequence!Load(s, file)
       /\ \A count \in 0 .. Len(file) :
            ReadFileFails(s, file, count) => Sequence!Spoil(s, file, count)

ScratchMeans ==
  /\ \A resource \in Resources, capacity \in Capacities :
       ScratchCtor(resource, capacity) => Sequence!Clear(SCRATCH)
  /\ ScratchCtorFails => Sequence!Clear(SCRATCH)
  /\ \A count \in 1 .. str[SCRATCH].size :
       ScratchPop(count) => Sequence!Pop(count)

(* An operation on one string leaves the structures of the others, so only *)
(* such steps are asked what they mean for it.                             *)
Alone(s) == \A t \in Strings \ {s} : str'[t] = str[t]

Meaning ==
  \A s \in Strings :
    Alone(s) => /\ StringMeans(s)
                /\ IOMeans(s)
                /\ s = SCRATCH => ScratchMeans

(* Strings behave as texts: every operation does to its text what it is    *)
(* for, and no operation loses, adds or changes a character it was not     *)
(* asked to, in this string or in another.                                 *)
ImplementsTexts == Sequence!Spec /\ [][Meaning]_vars
=============================================================================
