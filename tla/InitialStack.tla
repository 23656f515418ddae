---------------------------- MODULE InitialStack ----------------------------
(***************************************************************************)
(* What main of the four loaders of AOS3 (apager, loader, dpager, hpager)  *)
(* does beside loading: it reads the headers, writes the program's name    *)
(* over its own, and build_stack copies argc, the arguments, the           *)
(* environment and the auxiliary vector to a new stack.                    *)
(*                                                                         *)
(* The strings the kernel gave the loader lie one behind the other; a      *)
(* pointer to one is StringBase plus an index. Large mappings are counted  *)
(* in units of 64 MB and lie, as the kernel places them, one below the     *)
(* other.                                                                  *)
(***************************************************************************)
EXTENDS Integers, Sequences, SequencesExt, FiniteSetsExt

CONSTANTS
    CommandLines,   \* what argv may be: sequences of strings
    Environments,   \* sequences of strings
    AuxVectors,     \* sequences of [type |-> , val |-> ]
    Slash,          \* the character '/'
    StringBase,     \* where the strings begin
    CopyBase,       \* where the strings' copies begin: one by AT_ type
    Entry           \* e_entry, and any other field of the ELF header

VARIABLES
    program,        \* which of the four
    argv, envp, auxv, \* as the kernel passed them: the strings, the vector
    pc,
    strings,        \* the memory the kernel put the strings in
    headers,        \* what hdr points to: "none", "file" or "zeros"
    stack, addr,    \* the new stack's words, and the one to be written next
    read,           \* how far main is in envp and in auxv
    copies          \* [AT_ type -> a string or a word in a mapping of its own]

vars == <<program, argv, envp, auxv, pc, strings, headers, stack, addr, read, copies>>

NUL == 0

(* A string, without the NUL that ends it: what it holds are no NULs. *)
Text == Seq(Int \ {NUL})

(* AT_ types *)
AT_PHDR == 3
AT_PHENT == 4
AT_PHNUM == 5
AT_BASE == 7
AT_ENTRY == 9
AT_PLATFORM == 15
AT_RANDOM == 25
AT_EXECFN == 31

ASSUME StackAssumption ==
    /\ StringBase \in Nat \ {0} /\ CopyBase \in Nat \ {0} /\ Entry \in Nat \ {0}
    /\ \A line \in CommandLines : line \in Seq(Text) /\ Len(line) > 0
    /\ \A env \in Environments : env \in Seq(Text)
    /\ \A vector \in AuxVectors : vector \in Seq([type : Nat \ {0}, val : Int])

----------------------------------------------------------------------------
(* Strings *)

Layout(strs) == FlattenSeq([k \in DOMAIN strs |-> Append(strs[k], NUL)])

(* The address of the k-th of strs *)
Pointer(strs, k) == StringBase + Len(Layout(SubSeq(strs, 1, k - 1)))

Given == argv \o envp

Argument(k) == Pointer(Given, k + 1)
Variable(k) == Pointer(Given, Len(argv) + k)

(* The string at an address *)
StringAt(s, p) ==
    LET from == p - StringBase + 1
        end  == Min({k \in from .. Len(s) : s[k] = NUL})
    IN  SubSeq(s, from, end - 1)

(* Slip: strncpy with PATH_MAX, which fills up with NULs. *)
StrCpyPadded(s, dst, src) ==
    LET str == StringAt(s, src)
        d   == dst - StringBase
    IN  [k \in DOMAIN s |-> IF k <= d THEN s[k] ELSE IF k <= d + Len(str) THEN str[k - d] ELSE NUL]

(* strcpy, byte by byte from the front, onto what may overlap *)
StrCpy(s, dst, src) ==
    LET str == Append(StringAt(s, src), NUL)
        d   == dst - StringBase
    IN  [k \in DOMAIN s |-> IF k > d /\ k <= d + Len(str) THEN str[k - d] ELSE s[k]]

(* How many characters of argv[0] come before its last part *)
BaseName(name) == Max({k \in DOMAIN name : name[k] = Slash})

----------------------------------------------------------------------------
Init ==
    /\ program \in {"apager", "loader", "dpager", "hpager"}
    /\ argv \in CommandLines
    /\ envp \in Environments
    /\ auxv \in AuxVectors
    /\ pc = "start"
    /\ strings = Layout(Given)
    /\ headers = "none"
    /\ stack = << >>
    /\ addr = 0
    /\ read = 0
    /\ copies = << >>

Given0 == UNCHANGED <<program, argv, envp, auxv>>

(* A SIGSEGV ends apager and loader; the handler of the pagers finds no    *)
(* header for the address and returns, again and again.                    *)
Fault == pc' = IF program \in {"dpager", "hpager"} THEN "looping" ELSE "crashed"

(* buf, fopen(argv[1]), fread *)
ReadHeaders ==
    /\ pc = "start"
    /\ \/ pc' = "exited" /\ UNCHANGED headers
       \/ Len(argv) > 1 /\ pc' = "name" /\ headers' = "file"
    /\ Given0
    /\ UNCHANGED <<strings, stack, addr, read, copies>>

(* strcpy(strrchr(argv[0],'/') + 1, argv[1]); without a '/' that is 1. *)
CopyName ==
    /\ pc = "name"
    /\ IF Slash \in ToSet(argv[1])
       THEN /\ strings' = StrCpy(strings, Argument(0) + BaseName(argv[1]), Argument(1))
            /\ pc' = "stack"
       ELSE Fault /\ UNCHANGED strings
    /\ Given0
    /\ UNCHANGED <<headers, stack, addr, read, copies>>

(* Slip: the mapping that nothing uses is left out. *)
MemUnitsNone == 0

(* 128 MB of mem, between buf and the stack *)
MemUnits == 2

(* The stack's 128 MB lie below mem, if there is room; memset clears as    *)
(* much, but from their middle on.                                         *)
MapStack ==
    /\ pc = "stack"
    /\ LET buf == MemUnits + 2      \* units above the stack's lowest
           top == 1 + 2             \* end of what is cleared
       IN  \/ /\ pc' = "arguments"
              /\ headers' = IF top > buf THEN "zeros" ELSE headers
           \/ Fault /\ UNCHANGED headers
    /\ stack' = [k \in 0 .. Len(argv) + Len(envp) + 2 * Len(auxv) + 4 |-> 0]
    /\ Given0
    /\ UNCHANGED <<strings, addr, read, copies>>

(* Slip: the address after the arguments is not advanced past their NULL. *)
AfterArgumentsOneShort == Len(argv)

(* Where the environment goes: behind argc, argc - 1 arguments and a NULL *)
AfterArguments == Len(argv) + 1

(* argc - 1; memcpy of argc - 2 pointers from argv[2] on; then argv[1] over *)
(* the first of them: argv[2] is lost, and the last place stays NULL.      *)
PutArguments ==
    /\ pc = "arguments"
    /\ stack' = [k \in DOMAIN stack |->
                    IF k = 0 THEN Len(argv) - 1
                    ELSE IF k = 1 THEN Argument(1)
                    ELSE IF k <= Len(argv) - 2 THEN Argument(k + 1)
                    ELSE 0]
    /\ addr' = AfterArguments
    /\ read' = 1
    /\ pc' = "environment"
    /\ Given0
    /\ UNCHANGED <<strings, headers, copies>>

PutVariable ==
    /\ pc = "environment"
    /\ read <= Len(envp)
    /\ stack' = [stack EXCEPT ![addr] = Variable(read)]
    /\ addr' = addr + 1
    /\ read' = read + 1
    /\ Given0
    /\ UNCHANGED <<pc, strings, headers, copies>>

EndEnvironment ==
    /\ pc = "environment"
    /\ read > Len(envp)
    /\ addr' = addr + 1
    /\ read' = 1
    /\ pc' = "auxiliary"
    /\ Given0
    /\ UNCHANGED <<strings, headers, stack, copies>>

Field == IF headers = "file" THEN Entry ELSE 0

(* Slip: the name the program was called by. *)
CopyOfArgument(type) ==
    CASE type = AT_EXECFN   -> StringAt(strings, Argument(1))
      [] type = AT_PLATFORM -> <<type>>
      [] type = AT_RANDOM   -> <<"16 bytes">>

(* What goes into a mapping of its own *)
CopyOf(type) ==
    CASE type = AT_EXECFN   -> StringAt(strings, Argument(0))
      [] type = AT_PLATFORM -> <<type>>
      [] type = AT_RANDOM   -> <<"16 bytes">>

(* The switch: the value an entry of the new vector gets. atphdr is set by *)
(* loader, in dpager and hpager it is 0, and apager passes 0.              *)
AuxValue(entry) ==
    CASE entry.type \in {AT_ENTRY, AT_PHENT, AT_PHNUM}         -> Field
      [] entry.type = AT_PHDR                                 -> IF program = "loader" THEN Entry ELSE 0
      [] entry.type = AT_BASE                                 -> 0
      [] entry.type \in {AT_EXECFN, AT_RANDOM, AT_PLATFORM}    -> CopyBase + entry.type
      [] OTHER                                                -> entry.val

PutAuxiliary ==
    /\ pc = "auxiliary"
    /\ read <= Len(auxv)
    /\ LET entry == auxv[read] IN
       /\ stack' = [stack EXCEPT ![addr] = entry.type, ![addr + 1] = AuxValue(entry)]
       /\ copies' = IF entry.type \in {AT_EXECFN, AT_RANDOM, AT_PLATFORM}
                    THEN [t \in DOMAIN copies \cup {entry.type} |->
                             IF t = entry.type THEN CopyOf(t) ELSE copies[t]]
                    ELSE copies
    /\ addr' = addr + 2
    /\ read' = read + 1
    /\ Given0
    /\ UNCHANGED <<pc, strings, headers>>

(* AT_NULL is the zeros that are there; the jump *)
EnterProgram ==
    /\ pc = "auxiliary"
    /\ read > Len(auxv)
    /\ pc' = "entry"
    /\ Given0
    /\ UNCHANGED <<strings, headers, stack, addr, read, copies>>

Next ==
    \/ ReadHeaders \/ CopyName \/ MapStack \/ PutArguments \/ PutVariable \/ EndEnvironment
    \/ PutAuxiliary \/ EnterProgram

Spec == Init /\ [][Next]_vars

----------------------------------------------------------------------------
(* The stack as the program's start-up code reads it: it knows where argc  *)
(* is and finds the rest by counting and by zeros.                         *)

EnvStart == stack[0] + 2
EnvEnd   == Min({k \in DOMAIN stack : k >= EnvStart /\ stack[k] = 0})
AuxStart == EnvEnd + 1
AuxEnd   == Min({k \in DOMAIN stack : k >= AuxStart /\ (k - AuxStart) % 2 = 0 /\ stack[k] = 0})

FoundEnvironment == [k \in 1 .. EnvEnd - EnvStart |-> stack[EnvStart + k - 1]]

FoundAuxiliary ==
    [k \in 1 .. (AuxEnd - AuxStart) \div 2 |->
        [type |-> stack[AuxStart + 2 * k - 2], val |-> stack[AuxStart + 2 * k - 1]]]

----------------------------------------------------------------------------
(* Properties *)

(* The program finds the whole environment and every entry of the          *)
(* auxiliary vector, in order, and no other; what is not about the loader  *)
(* itself has the value the kernel gave.                                   *)
EnvironmentFound ==
    pc = "entry" =>
        /\ FoundEnvironment = [k \in DOMAIN envp |-> Variable(k)]
        /\ [k \in DOMAIN FoundAuxiliary |-> FoundAuxiliary[k].type] = [k \in DOMAIN auxv |-> auxv[k].type]
        /\ \A k \in DOMAIN auxv :
              \/ auxv[k].type \in {AT_PHDR, AT_PHENT, AT_PHNUM, AT_BASE, AT_ENTRY, AT_PLATFORM, AT_RANDOM, AT_EXECFN}
              \/ FoundAuxiliary[k] = auxv[k]

(* What the program is told of its ELF header is from its file, although   *)
(* build_stack clears 64 MB beyond the stack it has mapped: they are those *)
(* of mem, which nothing else uses, and end before buf.                    *)
HeadersSurvive ==
    pc = "entry" => \A k \in DOMAIN FoundAuxiliary :
        FoundAuxiliary[k].type \in {AT_ENTRY, AT_PHENT, AT_PHNUM} => FoundAuxiliary[k].val = Entry

(* Writing the program's name over the last part of argv[0], which may be  *)
(* shorter, can run on into argv[1], the name itself, but changes no other *)
(* argument and no variable.                                               *)
OtherStringsKept ==
    \A k \in 3 .. Len(Given) : StringAt(strings, Pointer(Given, k)) = Given[k]

Directory(name) == SubSeq(name, 1, SelectLastInSeq(name, LAMBDA c : c = Slash))

(* The file name that AT_EXECFN gives is whole, in the directory of the    *)
(* loader, also when argv[1] has been overwritten by it.                   *)
ExecFnWhole ==
    AT_EXECFN \in DOMAIN copies =>
        copies[AT_EXECFN] = Directory(argv[1]) \o argv[2]
=============================================================================
