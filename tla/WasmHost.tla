------------------------------ MODULE WasmHost ------------------------------
(***************************************************************************)
(* The imports a MoonBit wasm guest is given (moonbit-wasm-host, lib.rs):  *)
(* strings and string arrays behind handles, environment variables with an *)
(* overlay, and line-buffered output by UTF-16 units or by bytes.          *)
(*                                                                         *)
(* A Rust string is a sequence of characters, of which Pair is one outside *)
(* the basic plane: two code units, Hi and Lo, for the guest.  The guest   *)
(* has two registers of handles, h for anything and arr for an array it    *)
(* reads.                                                                  *)
(***************************************************************************)
EXTENDS Integers, SequencesExt, FiniteSetsExt

CONSTANTS Plain,     \* characters of the basic plane, as code units too
          Pair, Hi, Lo, Replacement,
          Args,      \* argv: a sequence of strings
          Keys,      \* names of environment variables
          HostEnv,   \* the host's environment: key -> string or None
          Sentinel,  \* FFI_END_OF_STRING_ARRAY
          Newline, Writes, \* iovs of fd_write: sequences of byte sequences
          BadIov,    \* an iov outside the memory
          None

ASSUME HostAssumption ==
    /\ Pair \notin Plain \cup {Hi, Lo}
    /\ Args \in Seq(Range(Args))
    /\ IsFiniteSet(Keys) /\ DOMAIN HostEnv = Keys
    /\ \A iovs \in Writes :
          /\ iovs \in Seq(Range(iovs))
          /\ \A v \in Range(iovs) \ {BadIov} : v \in Seq(Range(v))

VARIABLES
    h, arr,       \* handles: ExternRefs to MoonbitHostValue
    overrides,    \* env_overrides
    line_utf16,   \* the buffer of print_char
    stdout_bytes, \* the buffer of fd_write
    printed,      \* lines, with their source and stream
    wrote, got,   \* history: units put into the string, read from it
    list,         \* history: strings read from arr
    sent          \* history: bytes of the successful fd_writes

strVars == <<h, arr, wrote, got, list>>
outVars == <<line_utf16, stdout_bytes, printed, sent>>
hostVars == <<strVars, overrides, outVars>>

Null == [kind |-> "null"]
Str(s) == [kind |-> "string", s |-> s]

HostInit ==
    /\ h = Null /\ arr = Null
    /\ overrides = [k \in {} |-> None]
    /\ line_utf16 = <<>> /\ stdout_bytes = <<>> /\ printed = <<>>
    /\ wrote = None /\ got = <<>> /\ list = <<>> /\ sent = <<>>

-----------------------------------------------------------------------------
(* Strings.                                                                *)

EncodeUtf16(s) == FlattenSeq([i \in DOMAIN s |-> IF s[i] = Pair THEN <<Hi, Lo>> ELSE <<s[i]>>])

\* read_string: what a handle says as a string, if it is one.
IsString(x) == x.kind \in {"string", "writer"}

BeginCreateString ==
    /\ h' = [kind |-> "writer", s |-> <<>>]
    /\ wrote' = <<>> /\ got' = <<>>
    /\ UNCHANGED <<arr, list, overrides, outVars>>

\* char::from_u32 of a single unit: a surrogate is none.
StringAppendChar(u) ==
    /\ h.kind = "writer"
    /\ h' = [h EXCEPT !.s = Append(@, IF u \in {Hi, Lo} THEN Replacement ELSE u)]
    /\ wrote' = Append(wrote, u)
    /\ UNCHANGED <<arr, got, list, overrides, outVars>>

FinishCreateString ==
    /\ IsString(h)
    /\ h' = Str(h.s)
    /\ UNCHANGED <<arr, wrote, got, list, overrides, outVars>>

BeginReadString ==
    /\ IsString(h)
    /\ h' = [kind |-> "reader", chars |-> EncodeUtf16(h.s), pos |-> 0]
    /\ got' = <<>>
    /\ UNCHANGED <<arr, wrote, list, overrides, outVars>>

\* Mutant: the position is advanced before the unit is taken.
StringReadCharLate ==
    /\ h.kind = "reader"
    /\ LET r == h IN
       IF r.pos + 1 >= Len(r.chars)
       THEN h' = [r EXCEPT !.pos = Len(r.chars) + 1] /\ UNCHANGED got
       ELSE h' = [r EXCEPT !.pos = @ + 1] /\ got' = Append(got, r.chars[r.pos + 2])
    /\ UNCHANGED <<arr, wrote, list, overrides, outVars>>

\* One unit, or -1 at the end: pos past the end stands for the guest having
\* seen that.
StringReadChar ==
    /\ h.kind = "reader"
    /\ LET r == h IN
       IF r.pos >= Len(r.chars)
       THEN h' = [r EXCEPT !.pos = Len(r.chars) + 1] /\ UNCHANGED got
       ELSE h' = [r EXCEPT !.pos = @ + 1] /\ got' = Append(got, r.chars[r.pos + 1])
    /\ UNCHANGED <<arr, wrote, list, overrides, outVars>>

-----------------------------------------------------------------------------
(* Arrays of strings.                                                      *)

Take(x) == h' = x /\ wrote' = None /\ got' = <<>>

ArgsGet ==
    /\ Take([kind |-> "array", values |-> Args])
    /\ UNCHANGED <<arr, list, overrides, outVars>>

BeginReadStringArray ==
    /\ h.kind = "array"
    /\ arr' = [kind |-> "array_reader", values |-> h.values, pos |-> 0]
    /\ list' = <<>>
    /\ UNCHANGED <<h, wrote, got, overrides, outVars>>

\* Mutant: the last string is taken for the end.
StringArrayReadEarly ==
    /\ arr.kind = "array_reader"
    /\ LET done == arr.pos + 1 >= Len(arr.values)
           s == IF done THEN Sentinel ELSE arr.values[arr.pos + 1]
       IN  /\ Take(Str(s))
           /\ arr' = [arr EXCEPT !.pos = IF s = Sentinel THEN Len(arr.values) + 1 ELSE @ + 1]
           /\ list' = IF s = Sentinel THEN list ELSE Append(list, s)
    /\ UNCHANGED <<overrides, outVars>>

\* The next string, or the sentinel when there is none.  The guest keeps what
\* comes before the first sentinel.
StringArrayReadString ==
    /\ arr.kind = "array_reader"
    /\ LET done == arr.pos >= Len(arr.values)
           s == IF done THEN Sentinel ELSE arr.values[arr.pos + 1]
       IN  /\ Take(Str(s))
           /\ arr' = [arr EXCEPT !.pos = IF s = Sentinel THEN Len(arr.values) + 1 ELSE @ + 1]
           /\ list' = IF s = Sentinel THEN list ELSE Append(list, s)
    /\ UNCHANGED <<overrides, outVars>>

-----------------------------------------------------------------------------
(* The environment.                                                        *)

\* guest_env_var.
GuestEnvVar(k) == IF k \in DOMAIN overrides THEN overrides[k] ELSE HostEnv[k]

\* Mutant: a key that was unset keeps the host's value.
GuestEnvVarsKept ==
    LET env == [k \in Keys |-> IF k \in DOMAIN overrides /\ overrides[k] # None
                               THEN overrides[k] ELSE HostEnv[k]]
        keys == SetToSeq({k \in Keys : env[k] # None})
    IN  FlattenSeq([i \in DOMAIN keys |-> <<keys[i], env[keys[i]]>>])

\* guest_env_vars: the host's, with the overrides inserted and removed; keys
\* and values in turn.
GuestEnvVars ==
    LET set == {k \in DOMAIN overrides : overrides[k] # None}
        own == {k \in Keys : HostEnv[k] # None} \ DOMAIN overrides
        keys == SetToSeq(set \cup own)
    IN  FlattenSeq([i \in DOMAIN keys |->
            <<keys[i], IF keys[i] \in set THEN overrides[keys[i]] ELSE HostEnv[keys[i]]>>])

GetEnvVars ==
    /\ Take([kind |-> "array", values |-> GuestEnvVars])
    /\ UNCHANGED <<arr, list, overrides, outVars>>

\* unwrap_or_default: a variable that is not there reads as an empty one.
GetEnvVar(k) ==
    /\ Take(Str(IF GuestEnvVar(k) = None THEN <<>> ELSE GuestEnvVar(k)))
    /\ UNCHANGED <<arr, list, overrides, outVars>>

Override(k, v) == [j \in DOMAIN overrides \cup {k} |-> IF j = k THEN v ELSE overrides[j]]

SetEnvVar(k) ==
    /\ IsString(h)
    /\ overrides' = Override(k, h.s)
    /\ UNCHANGED <<strVars, outVars>>

UnsetEnvVar(k) ==
    /\ overrides' = Override(k, None)
    /\ UNCHANGED <<strVars, outVars>>

-----------------------------------------------------------------------------
(* Output.                                                                 *)

PrintChar(u) ==
    /\ IF u = Newline
       THEN /\ printed' = Append(printed, [by |-> "char", fd |-> 1, line |-> line_utf16])
            /\ line_utf16' = <<>>
       ELSE /\ line_utf16' = Append(line_utf16, u)
            /\ UNCHANGED printed
    /\ UNCHANGED <<strVars, overrides, stdout_bytes, sent>>

Bytes(iovs) == FlattenSeq(iovs)

\* Every whole line in the buffer goes to the stream of this call.
Drain(fd, payload) ==
    LET drained[n \in 0..Len(payload)] ==
            IF n = 0 THEN [buf |-> stdout_bytes, out |-> printed]
            ELSE LET acc == drained[n - 1] IN
                 IF payload[n] = Newline
                 THEN [buf |-> <<>>,
                       out |-> Append(acc.out, [by |-> "fd", fd |-> fd, line |-> acc.buf])]
                 ELSE [acc EXCEPT !.buf = Append(@, payload[n])]
    IN  drained[Len(payload)]

\* Mutant: the iovs before the bad one are written.
FdWriteAsItGoes(fd, iovs) ==
    LET good == SelectInSeq(iovs, LAMBDA v : v = BadIov)
        payload == Bytes(IF good = 0 THEN iovs ELSE SubSeq(iovs, 1, good - 1))
    IN  /\ stdout_bytes' = Drain(fd, payload).buf
        /\ printed' = Drain(fd, payload).out
        /\ sent' = IF good = 0 THEN sent \o [i \in DOMAIN payload |-> [fd |-> fd, b |-> payload[i]]]
                   ELSE sent
        /\ UNCHANGED <<strVars, overrides, line_utf16>>

\* An iov outside the memory fails the call (errno 28) before anything is
\* buffered.
FdWrite(fd, iovs) ==
    LET payload == Bytes(iovs) IN
    /\ IF BadIov \in Range(iovs) THEN UNCHANGED outVars
       ELSE /\ stdout_bytes' = Drain(fd, payload).buf
            /\ printed' = Drain(fd, payload).out
            /\ sent' = sent \o [i \in DOMAIN payload |-> [fd |-> fd, b |-> payload[i]]]
            /\ UNCHANGED line_utf16
    /\ UNCHANGED <<strVars, overrides>>

StringCall ==
    \/ BeginCreateString \/ FinishCreateString \/ BeginReadString \/ StringReadChar
    \/ \E u \in Plain \cup {Hi, Lo} : StringAppendChar(u)

ArrayCall ==
    \/ ArgsGet \/ GetEnvVars \/ BeginReadStringArray \/ StringArrayReadString
    \/ BeginReadString \/ StringReadChar

EnvCall == \E k \in Keys : GetEnvVar(k) \/ SetEnvVar(k) \/ UnsetEnvVar(k)

OutputCall ==
    \/ \E u \in Plain \cup {Newline} : PrintChar(u)
    \/ \E fd \in {1, 2}, iovs \in Writes : FdWrite(fd, iovs)

HostCall(group) ==
    \/ group = "string" /\ StringCall
    \/ group = "array" /\ ArrayCall
    \/ group = "env" /\ EnvCall
    \/ group = "output" /\ OutputCall

\* bail!: exception.throw, sys.exit with any code, and a handle that is null
\* or of the wrong kind, trap the guest.
HostTrap == UNCHANGED hostVars

-----------------------------------------------------------------------------
(* Properties.                                                             *)

\* What the guest builds unit by unit and reads back unit by unit is the same:
\* a string, through two representations, unless it holds a surrogate, and an
\* array read until the sentinel, unless one of its strings is the sentinel.
HandlesReadBack ==
    /\ h.kind = "reader" /\ h.pos > Len(h.chars) /\ wrote # None
            /\ Range(wrote) \cap {Hi, Lo} = {}
        => got = wrote
    /\ arr.kind = "array_reader" /\ arr.pos > Len(arr.values)
            /\ Sentinel \notin Range(arr.values)
        => list = arr.values

\* The list of all variables and the query for one agree on every key, after
\* any sets and unsets.
EnvironmentsAgree ==
    LET all == GuestEnvVars IN
    \A k \in Keys :
        LET at == {i \in DOMAIN all : i % 2 = 1 /\ all[i] = k} IN
        IF GuestEnvVar(k) = None THEN at = {}
        ELSE \E i \in at : at = {i} /\ all[i + 1] = GuestEnvVar(k)

\* The lines printed by fd_write and the rest in the buffer are the bytes of
\* its successful calls, each once and in order.
OutputInOrder ==
    FlattenSeq([i \in DOMAIN printed |-> IF printed[i].by = "fd"
                                        THEN Append(printed[i].line, Newline) ELSE <<>>])
            \o stdout_bytes
        = [i \in DOMAIN sent |-> sent[i].b]
=============================================================================
