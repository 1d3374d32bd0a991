---------------------------- MODULE AgreementDemo ----------------------------
(***************************************************************************)
(* RSAREF's Diffie-Hellman demonstration (dhdemo.c): a menu of commands    *)
(* that set up an agreement, compute its key and generate the second       *)
(* parameters.  Parameters are an identity and the length of their prime;  *)
(* identity 1 is built in, 0 is memory that was never written.  A file     *)
(* holds one value of some length.                                         *)
(***************************************************************************)
EXTENDS Naturals, Sequences, FiniteSets

CONSTANTS
    Names, Absent, Stdout,
    Start,       \* the files there are when the program starts
    Lengths,     \* lengths of primes and private values
    BuiltIn,     \* length of PRIME1
    Scripts,     \* sequences of commands a user may enter: "s", "c", "g"
    MaxFaults    \* bound: failed reads and writes, with the files fclose spoilt

LengthsAssumption == Lengths \subseteq Nat \ {0} /\ BuiltIn \in Lengths

VARIABLES
    files, faults, told, script,
    gone,        \* history: names whose last fclose failed, which nobody is told
    at, cmd, arg, why,
    params2,     \* PARAMS2: identity and length
    ready,       \* PARAMS2_READY
    values,      \* private values and parameters generated so far
    secret,      \* buffers that hold a private value or an agreed key
    heap         \* whether memset may have run over the end of a buffer

vars == <<files, faults, told, script, gone, at, cmd, arg, why,
          params2, ready, values, secret, heap>>

PARAMS1 == [id |-> 1, len |-> BuiltIn]
NoArg == [named |-> <<>>, params |-> PARAMS1, len |-> 0, public |-> Absent, private |-> Absent]

Init ==
    /\ files = Start /\ faults = 0 /\ told = FALSE /\ script \in Scripts /\ gone = {}
    /\ at = "menu" /\ cmd = "none" /\ arg = NoArg /\ why = "none"
    /\ params2 = [id |-> 0, len |-> 0] /\ ready = FALSE
    /\ values = 1 /\ secret = {} /\ heap = "kept"

unasked == <<cmd, why, script, params2, ready, values>>

(***************************************************************************)
(* The way out of a command: memset the sensitive buffers, free them all.  *)
(* In DoComputeAgreedKey the length of the private value is set by the     *)
(* ReadBlock of its file, and has no value if the command stops before.    *)
(***************************************************************************)
Wiped == IF cmd = "c" /\ at # "params" /\ arg.private = Absent
         THEN {"kept", "overrun"} ELSE {heap}
LeaveUnwiped(reason, failed) ==
    /\ at' = "menu" /\ why' = reason
    /\ secret' = IF reason = "unsaved" THEN secret ELSE {}
    /\ heap' \in Wiped
    /\ faults + Cardinality(gone) + failed <= MaxFaults
    /\ faults' = faults + failed
    /\ told' = (told \/ failed > 0 \/ reason = "status")
    /\ UNCHANGED <<cmd, script>>
Leave(reason, failed) ==
    /\ at' = "menu" /\ why' = reason
    /\ secret' = {}
    /\ heap' \in Wiped
    /\ faults + Cardinality(gone) + failed <= MaxFaults
    /\ faults' = faults + failed
    /\ told' = (told \/ failed > 0 \/ reason = "status")
    /\ UNCHANGED <<cmd, script>>

Cancel ==
    /\ at \notin {"menu", "work"}
    /\ Leave("blank", 0)
    /\ UNCHANGED <<files, gone, arg, params2, ready, values>>

(* GetParams: 1, or 2 once it is ready; GetCommand and sscanf for lengths. *)
GetParams == {PARAMS1} \cup IF ready THEN {params2} ELSE {}
Choose(set, field, next) ==
    \E answer \in set :
      /\ arg' = [arg EXCEPT ![field] = answer]
      /\ at' = next
      /\ UNCHANGED <<files, faults, told, gone, unasked, secret, heap>>

Named(name) == [arg EXCEPT !.named = Append(@, name)]

(***************************************************************************)
(* ReadBlock: up to the prime's length; the end of the file must follow.   *)
(* What a read leaves in the buffer is wiped by the length it returned.    *)
(***************************************************************************)
Fits(value) == value.len <= arg.params.len
\* A public value is as long as the prime, a private one no longer.
Accepted(field, value) == field = "public" => value.len = arg.params.len
ReadBlock(field, next) ==
    \E name \in Names :
      /\ files[name] # Absent
      /\ LET value == files[name] IN
           \/ /\ Fits(value) /\ Accepted(field, value)
              /\ arg' = [Named(name) EXCEPT ![field] = value]
              /\ at' = next
              /\ secret' = IF field = "private" THEN {"privateValue"} ELSE secret
              /\ UNCHANGED <<files, faults, told, gone, unasked, heap>>
           \/ /\ ~(Fits(value) /\ Accepted(field, value))
              /\ arg' = [Named(name) EXCEPT ![field] = value]
              /\ at' = "stop"
              /\ UNCHANGED <<files, faults, told, gone, unasked, secret, heap>>
           \/ /\ faults + Cardinality(gone) < MaxFaults
              /\ arg' = [Named(name) EXCEPT ![field] = value]
              /\ at' = "stop"
              /\ faults' = faults + 1
              /\ UNCHANGED <<files, told, gone, unasked, secret, heap>>
Stop ==
    /\ at = "stop"
    /\ Leave("status", 0)
    /\ UNCHANGED <<files, gone, arg, params2, ready, values>>

(***************************************************************************)
(* WriteBlock: fopen empties the file, and the block is there unless       *)
(* fwrite fails, or fclose, whose result is ignored.                       *)
(***************************************************************************)
Empty == [kind |-> "empty", len |-> 0]
SavedOver(name, value) ==
    IF name = Stdout \/ files[name] # Absent THEN files ELSE [files EXCEPT ![name] = value]
Saved(name, value) == IF name = Stdout THEN files ELSE [files EXCEPT ![name] = value]
Put(name, value) ==
    \/ files' = Saved(name, value) /\ gone' = gone \ {name}
    \/ /\ name # Stdout /\ faults + Cardinality(gone \cup {name}) <= MaxFaults
       /\ files' = Saved(name, Empty) /\ gone' = gone \cup {name}
WriteBlock(value, next) ==
    \E name \in Names \cup {Stdout} :
      /\ arg' = Named(name)
      /\ \/ /\ next # "menu"
            /\ Put(name, value)
            /\ at' = next
            /\ UNCHANGED <<faults, told, unasked, secret, heap>>
         \/ /\ next = "menu"
            /\ Put(name, value)
            /\ Leave("done", 0)
            /\ UNCHANGED <<params2, ready, values>>
         \/ /\ files' = Saved(name, Empty) /\ gone' = gone \ {name}
            /\ Leave("unsaved", 1)
            /\ UNCHANGED <<params2, ready, values>>

(* y = g^x mod p, of the prime's length. *)
PublicValue(x, params) == [kind |-> "public", x |-> x, id |-> params.id, len |-> params.len]
PrivateValue(x, len) == [kind |-> "private", x |-> x, len |-> len]

DoSetupAgreement ==
    /\ cmd = "s"
    /\ \/ at = "params" /\ Choose(GetParams, "params", "length")
       \/ at = "length" /\ Choose(Lengths, "len", "work")
       \/ /\ at = "work"
          /\ values' = values + 1
          /\ arg' = [arg EXCEPT !.public = PublicValue(values', arg.params),
                                !.private = PrivateValue(values', arg.len)]
          /\ secret' = {"privateValue"}
          /\ at' = "savePublic"
          /\ UNCHANGED <<files, faults, told, gone, cmd, why, script, params2, ready, heap>>
       \/ at = "savePublic" /\ WriteBlock(arg.public, "savePrivate")
       \/ at = "savePrivate" /\ WriteBlock(arg.private, "menu")

(***************************************************************************)
(* The agreed key of two private values.  A public value of other          *)
(* parameters may be too large for the prime; no other bytes are refused,  *)
(* and a private value of no bytes is zero.                                *)
(***************************************************************************)
Unrelated == [kind |-> "key", of |-> {}, id |-> 0, len |-> arg.params.len]
AgreedKeyOfAny ==
    IF arg.public.kind = "public" /\ arg.public.id = arg.params.id /\ arg.private.kind = "private"
    THEN [kind |-> "key", of |-> {arg.private.x}, id |-> arg.params.id, len |-> arg.params.len]
    ELSE Unrelated
AgreedKey ==
    IF /\ arg.public.kind = "public" /\ arg.public.id = arg.params.id /\ arg.params.id # 0
       /\ arg.private.kind = "private"
    THEN [kind |-> "key", of |-> {arg.public.x, arg.private.x}, id |-> arg.params.id,
          len |-> arg.params.len]
    ELSE Unrelated
DoComputeAgreedKey ==
    /\ cmd = "c"
    /\ \/ at = "params" /\ Choose(GetParams, "params", "readPublic")
       \/ at = "readPublic" /\ ReadBlock("public", "readPrivate")
       \/ at = "readPrivate" /\ ReadBlock("private", "work")
       \/ /\ at = "work" /\ AgreedKey = Unrelated
          /\ Leave("status", 0)
          /\ UNCHANGED <<files, gone, arg, params2, ready, values>>
       \/ /\ at = "work"
          /\ secret' = {"privateValue", "agreedKey"}
          /\ at' = "saveKey"
          /\ UNCHANGED <<files, faults, told, gone, unasked, arg, heap>>
       \/ at = "saveKey" /\ WriteBlock(AgreedKey, "menu")

(* WriteParams2, in text, three characters to a byte and more; no result of a *)
(* write is looked at.                                                        *)
WriteParams2(name) ==
    /\ arg' = Named(name)
    /\ Put(name, [kind |-> "params", id |-> params2.id, len |-> 3 * params2.len])

(***************************************************************************)
(* DoGenerateParams frees the old buffers and allocates new ones before    *)
(* R_GenerateDHParams, which may find no prime and then writes nothing:    *)
(* the length and PARAMS2_READY stay as they were.                         *)
(***************************************************************************)
DoGenerateParams ==
    /\ cmd = "g"
    /\ \/ at = "bits" /\ Choose(Lengths, "len", "work")
       \/ /\ at = "work"
          /\ params2' = [params2 EXCEPT !.id = 0]
          /\ Leave("status", 0)
          /\ UNCHANGED <<files, gone, arg, ready, values>>
       \/ /\ at = "work"
          /\ values' = values + 1
          /\ params2' = [id |-> values', len |-> arg.len]
          /\ ready' = TRUE
          /\ at' = "saveParams"
          /\ UNCHANGED <<files, faults, told, gone, cmd, why, script, arg, secret, heap>>
       \/ /\ at = "saveParams"
          /\ \E name \in Names \cup {Stdout} : WriteParams2(name)
          /\ Leave("done", 0)
          /\ UNCHANGED <<params2, ready, values>>

Enter ==
    /\ at = "menu" /\ script # <<>>
    /\ cmd' = Head(script) /\ script' = Tail(script)
    /\ at' = IF cmd' = "g" THEN "bits" ELSE "params"
    /\ arg' = NoArg /\ why' = "none" /\ told' = FALSE
    /\ UNCHANGED <<files, faults, gone, params2, ready, values, secret, heap>>

Next ==
    \/ Enter
    \/ Cancel
    \/ Stop
    \/ DoSetupAgreement \/ DoComputeAgreedKey \/ DoGenerateParams

Spec == Init /\ [][Next]_vars

-----------------------------------------------------------------------------
(* Private values and parameters are numbered as they are generated. *)
TypeOK ==
    /\ DOMAIN files = Names
    /\ params2.id \in 0..values /\ arg.params.id \in 0..values
    /\ faults \in 0..MaxFaults /\ told \in BOOLEAN
    /\ gone \subseteq Names /\ Cardinality(gone) <= MaxFaults
    /\ secret \subseteq {"privateValue", "agreedKey"}

(* DoSetupAgreement, DoComputeAgreedKey: however a command ends, no private *)
(* value or agreed key is left in memory that was freed.                    *)
NoSecretLeft == at = "menu" => secret = {}

Succeeded(c) == at = "menu" /\ cmd = c /\ why = "done" /\ ~told
Distinct == Cardinality({arg.named[i] : i \in 1..Len(arg.named)}) = Len(arg.named)
(* A file that was closed in vain holds what it may: fclose tells nobody. *)
Holds(name, value) == name \notin gone \cup {Stdout} => files[name] = value

(* DoSetupAgreement: the two files of a set-up that succeeds belong together, *)
(* unless fclose (dhdemo.c:501) failed on one of them.                        *)
SetupSaved == (Succeeded("s") /\ Distinct) =>
    /\ Holds(arg.named[1], PublicValue(values, arg.params))
    /\ Holds(arg.named[2], PrivateValue(values, arg.len))

(* DoComputeAgreedKey: from two values set up with parameters that were not *)
(* generated anew in between comes the key of both, whatever files were     *)
(* overwritten, and whatever else was generated or failed.  With parameters *)
(* 2 generated anew nothing is said: the program saves a key of nobody's.   *)
KeyOfBoth == (Succeeded("c") /\ Distinct) =>
    LET public == files[arg.named[1]]  private == files[arg.named[2]] IN
    (public.kind = "public" /\ public.id = arg.params.id /\ public.id # 0 /\ private.kind = "private") =>
        Holds(arg.named[3], [kind |-> "key", of |-> {public.x, private.x},
                             id |-> public.id, len |-> public.len])
==============================================================================
