----------------------------- MODULE MCLibrary ------------------------------
(***************************************************************************)
(* The kernel's library and the regions of addresses built on its bitmap:  *)
(* intrusive and heap-allocated lists, vm_region, the functions on strings *)
(* and memory, strtoul and vsnprintf.  They share no state, so a behaviour *)
(* exercises one of them: part says which, and the others stay where they  *)
(* began.                                                                  *)
(***************************************************************************)
EXTENDS RegionCalls, Lists

VARIABLES part,
          strMem, strCall,
          ulStr, ulBase, ulOut,
          pfBuffer, pfCount, pfSpec, pfRead, pfWanted, pfAstray, pfState, pfRet

strVars == <<strMem, strCall>>
ulVars == <<ulStr, ulBase, ulOut>>
pfVars == <<pfBuffer, pfCount, pfSpec, pfRead, pfWanted, pfAstray, pfState, pfRet>>
allVars == <<part, regionVars, ilVars, llVars, strVars, ulVars, pfVars>>

(* Every memory of four bytes, every area, string and length in it. *)
Strings == INSTANCE CString WITH
    Size <- 4, Byte <- {0, 1, 200}, Chars <- {0, 1, 200, 257}, U32 <- 16,
    mem <- strMem, call <- strCall

(* Space, the signs, the digits of 255 and 256, hexadecimal ones and x. *)
Numbers == INSTANCE Strtoul WITH
    ULONG_MAX <- 255, MaxLength <- 4, Bases <- {0, 10, 16},
    Alphabet <- {32, 43, 45, 48, 50, 53, 54, 70, 120, 97},
    str <- ulStr, base <- ulBase, out <- ulOut

(* i32 is -64..63 and u64 is 0..1023; values at their limits and on both   *)
(* sides of a digit more.                                                  *)
Formatted == INSTANCE Printf WITH
    BufSize <- 6, MaxFormat <- 4, U64 <- 1024,
    Ints <- {-64, -1, 0, 9, 10}, Longs <- {-1, 0, 15, 16},
    Doubles <- {[neg |-> FALSE, int |-> 2, frac |-> <<"5">>]},
    Texts <- {<<>>, <<"h", "\n", "i">>}, Letters <- {"a", "d", "\n"},
    buffer <- pfBuffer, write_count <- pfCount, spec <- pfSpec, read <- pfRead,
    wanted <- pfWanted, astray <- pfAstray, state <- pfState, ret <- pfRet

ASSUME LibraryAssumption == Strings!CStringAssumption /\ Numbers!StrtoulAssumption

AllInit ==
    /\ part \in {"region", "intrusive", "linked", "strings", "numbers", "formatted"}
    /\ RegionInit /\ Intrusive!Init /\ Linked!Init /\ Formatted!Init
    /\ Strings!Init /\ (part # "strings" => strMem = [a \in 0..3 |-> 0])
    /\ Numbers!Init /\ (part # "numbers" => ulStr = <<>> /\ ulBase = 0)

AllNext ==
    \/ part = "region" /\ RegionNext
                       /\ UNCHANGED <<part, ilVars, llVars, strVars, ulVars, pfVars>>
    \/ part = "intrusive" /\ Intrusive!Next
                          /\ UNCHANGED <<part, regionVars, llVars, strVars, ulVars, pfVars>>
    \/ part = "linked" /\ Linked!Next
                       /\ UNCHANGED <<part, regionVars, ilVars, strVars, ulVars, pfVars>>
    \/ part = "strings" /\ Strings!Next
                        /\ UNCHANGED <<part, regionVars, ilVars, llVars, ulVars, pfVars>>
    \/ part = "numbers" /\ Numbers!Next
                        /\ UNCHANGED <<part, regionVars, ilVars, llVars, strVars, pfVars>>
    \/ part = "formatted" /\ Formatted!Next
                          /\ UNCHANGED <<part, regionVars, ilVars, llVars, strVars, ulVars>>

AllSpec == AllInit /\ [][AllNext]_allVars

-----------------------------------------------------------------------------
(* The functions of the library compute what they should: memmove and its  *)
(* relatives copy the bytes that were there before the call, searches and  *)
(* comparisons answer for the string up to its terminator, strtoul gives   *)
(* the number or the limit, and vsnprintf renders a text that fits.  Not   *)
(* covered, because the code fails there: strchr and strchrnul of a        *)
(* character that the string does not hold, strncmp of no characters, %f,  *)
(* and %s of a string with a newline.                                      *)
FunctionsCorrect ==
    /\ Strings!CopiesOldBytes
    /\ [](part = "strings" => Strings!SearchesFind /\ Strings!ComparisonsOrder)
    /\ [](part = "numbers" => Numbers!ValueOrLimit /\ Numbers!EndsAfterDigits)
    /\ [](part = "formatted" => Formatted!RenderedUnlessAstray)
=============================================================================
