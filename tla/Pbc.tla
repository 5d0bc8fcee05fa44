-------------------------------- MODULE Pbc ---------------------------------
(****************************************************************************)
(* Compiled modules on disk, src/pbc.c in the default build (32-bit        *)
(* integers, doubles, no type checks): pphp_pbc_write_file() lays a module *)
(* out in two passes, one that computes offsets and one that writes bytes  *)
(* at them; pphp_pbc_load() reads whatever the file holds by the time it   *)
(* runs.  In between the file may have been cut short or a byte of it may  *)
(* have changed.  An image is the sequence of its bytes.                   *)
(****************************************************************************)
EXTENDS Integers, Sequences, FiniteSets, SequencesExt

CONSTANTS
    Modules,            \* what the compiler made
    Damage              \* the values a damaged byte may take

VARIABLES
    source,             \* the module that is written
    file,               \* the bytes of the file
    fault,              \* what happened to it: "none", "cut", "damaged"
    loaded              \* the module read back

vars == <<source, file, fault, loaded>>

-----------------------------------------------------------------------------
(* The checks on the code of a module before it runs.  A module is a       *)
(* sequence of protos; a proto holds its code as bytes, its constants (a   *)
(* string is a sequence of bytes), its locals and its catch entries.       *)
(* Offsets count from 0.                                                   *)
UINT8_MAX == 255
UINT16_MAX == 65535

Byte(bytes, offset) == bytes[offset + 1]
get_u16(bytes, offset) == Byte(bytes, offset) + 256 * Byte(bytes, offset + 1)
\* (int16_t)get_u16(): the relative target of a jump.
get_i16(bytes, offset) == LET u == get_u16(bytes, offset)
                          IN  IF u >= 32768 THEN u - 65536 ELSE u
Bit(flags, mask) == (flags \div mask) % 2 = 1

pbc_range_available(offset, need, length) == offset <= length /\ need <= length - offset

\* The opcodes the checks tell apart.
OP_STATIC_INIT == 26
OP_LOAD_CONST == 21
OP_FE_NEXT == 103
OP_INCLUDE == 87
OP_CAST == 58
OP_SCALL == 118
OP_CLOSURE == 128
OP_DEF_FUNC == 132
OP_DEF_CCONST == 133
OP_DEF_CLASS == 134
OP_DEF_METHOD == 135
OP_DEF_PROP == 136
OP_DEF_END == 138
OP_DEF_INTERFACE == 139
OP_LAST == 149                                  \* OP_MCALL_DYNAMIC_ARRAY
LocalOps == {22, 23, 25, 28, 29}                \* LOAD_LOCAL ... BIND_GLOBAL
StringOps == {27, 85, 113, 114, 116, 117, 120, 124, 133, 137, 139}
CallOps == {80, 112, 115}                       \* CALL, NEW_OBJ, MCALL
CountOps == {81, 125, 148}                      \* CALL_VALUE and the dynamic ones
PairOps == {118, 119, 121, 122, 123}            \* SCALL ... CLSCONST
JumpOps == 64..70                               \* JMP ... JMP_IFNULL_KEEP

\* Two four-bit sizes per byte, 15 for the variable size of OP_CLOSURE.
sizes == <<17, 17, 1, 0, 0, 0, 0, 0,  17, 33, 53, 34, 33, 52, 34, 0,
           17, 17, 17, 17, 17, 17, 17, 0,  17, 17, 17, 17, 17, 2, 1, 0,
           51, 51, 51, 3, 0, 0, 0, 0,  36, 17, 50, 33, 0, 0, 0, 0,
           19, 17, 17, 65, 17, 17, 1, 0,  52, 67, 51, 86, 83, 85, 35, 1,
           31, 1, 51, 102, 52, 49, 0, 0,  19, 17, 18>>

\* 0 for what is no instruction.
pbc_instruction_size(code, pc) ==
    LET opcode == Byte(code, pc)
        Fitting(size) == IF \/ pc >= Len(code) \/ opcode > OP_LAST
                            \/ size = 0
                            \/ ~pbc_range_available(pc + 1, size - 1, Len(code))
                         THEN 0 ELSE size
        Size(nibble) == IF nibble = 15 /\ pbc_range_available(pc + 1, 3, Len(code))
                        THEN 4 + 2 * Byte(code, pc + 3) ELSE nibble
        Nibble(entry) == IF opcode % 2 = 1 THEN entry \div 16 ELSE entry % 16
    IN  Fitting(Size(Nibble(sizes[opcode \div 2 + 1])))

\* Where the walk through the code stops: every instruction it meets is one.
RECURSIVE Boundaries(_, _)
Boundaries(code, pc) ==
    IF pc >= Len(code) THEN {}
    ELSE LET size == pbc_instruction_size(code, pc)
         IN  IF size = 0 THEN {pc} ELSE {pc} \cup Boundaries(code, pc + size)

\* Mutant: a target has only to be inside the code.
InsideCode(code, target) == target >= 0 /\ target < Len(code)

pbc_instruction_boundary(code, target) ==
    target >= 0 /\ target < Len(code) /\ target \in Boundaries(code, 0)

pbc_string_constant(proto, index) ==
    index < Len(proto.constants) /\ proto.constants[index + 1][1] = "string"
StringAt(proto, index) == proto.constants[index + 1][2]

\* Bytes of names.
Letter(b) == b \in 65..90 \cup 97..122 \/ b = 95 \/ b >= 128
pbc_identifier_bytes(name) ==
    name # <<>> /\ Letter(name[1])
    /\ \A k \in DOMAIN name : Letter(name[k]) \/ name[k] \in 48..57
Lower(name) == [k \in DOMAIN name |-> IF name[k] \in 65..90 THEN name[k] + 32 ELSE name[k]]
pbc_method_proto_name(proto, class, method) == proto.name = class \o <<58, 58>> \o method
\* "{closure#N}" for the proto number N; the model has fewer than ten.
ClosurePrefix == <<123, 99, 108, 111, 115, 117, 114, 101, 35>>
pbc_closure_proto_name(proto, index) == proto.name = ClosurePrefix \o <<48 + index, 125>>
Construct == <<95, 95, 99, 111, 110, 115, 116, 114, 117, 99, 116>>
Destruct == <<95, 95, 100, 101, 115, 116, 114, 117, 99, 116>>

pbc_flag_visibility(flags) == flags % 8 \in {1, 2, 4}
Within(flags, masks) == \A k \in 0..7 : Bit(flags, 2^k) => 2^k \in masks
Both(flags, a, b) == Bit(flags, a) /\ Bit(flags, b)

\* The target of a relative jump whose operand is at `operand`.
Target(code, next, operand) == next + get_i16(code, operand)

\* One instruction.  `class` is what DEF_CLASS began, `roles` what the protos
\* were referenced as so far; both are threaded through the walk.
NoClass == [building |-> FALSE, readonly |-> FALSE, name |-> <<>>]
Invalid == [valid |-> FALSE]
Valid(class, roles) == [valid |-> TRUE, class |-> class, roles |-> roles]
Referenced(roles, target, role) == [roles EXCEPT ![target + 1] = role]

ClassFlags(flags) ==
    /\ Within(flags, {16, 32, 64, 128})
    /\ ~Both(flags, 16, 32)
    /\ Bit(flags, 128) => Bit(flags, 16) /\ ~Bit(flags, 32) /\ ~Bit(flags, 64)

MethodFlags(flags, name, target) ==
    /\ pbc_flag_visibility(flags)
    /\ Within(flags, {1, 2, 4, 8, 16, 32})
    /\ ~Both(flags, 16, 32)
    /\ Lower(name) \in {Construct, Destruct} => ~Bit(flags, 8)
    /\ Lower(name) = Destruct => target.n_params = 0
    /\ Bit(flags, 8) # target.is_method

ValidDefinition(module, proto, pc, class, roles) ==
    LET code == proto.code
        op == Byte(code, pc)
        first == get_u16(code, pc + 1)
        second == get_u16(code, pc + 3)
        flags == IF op = OP_DEF_PROP THEN Byte(code, pc + 3) ELSE Byte(code, pc + 5)
    IN  CASE op = OP_DEF_CLASS ->
                IF /\ ~class.building
                   /\ pbc_string_constant(proto, first)
                   /\ second = UINT16_MAX \/ pbc_string_constant(proto, second)
                   /\ ClassFlags(flags)
                THEN Valid([building |-> TRUE, readonly |-> Bit(flags, 64),
                            name |-> StringAt(proto, first)], roles)
                ELSE Invalid
          [] op = OP_DEF_METHOD ->
                IF /\ class.building
                   /\ pbc_string_constant(proto, first)
                   /\ second \in 1..(Len(module) - 1)
                   /\ ~module[second + 1].conditional
                   /\ roles[second + 1] = "none"
                   /\ pbc_method_proto_name(module[second + 1], class.name,
                                            StringAt(proto, first))
                   /\ MethodFlags(flags, StringAt(proto, first), module[second + 1])
                THEN Valid(class, Referenced(roles, second, "method"))
                ELSE Invalid
          [] op = OP_DEF_PROP ->
                IF /\ class.building
                   /\ pbc_string_constant(proto, first)
                   /\ pbc_flag_visibility(flags)
                   /\ Within(flags, {1, 2, 4, 8, 64})
                   /\ ~Both(flags, 8, 64)
                   /\ class.readonly => Bit(flags, 64)
                THEN Valid(class, roles) ELSE Invalid
          [] op = OP_DEF_END ->
                IF class.building THEN Valid(NoClass, roles) ELSE Invalid

ValidCapture(proto, at) == Byte(proto.code, at) = 0
                           /\ Byte(proto.code, at + 1) < Len(proto.locals)

ValidInstruction(module, proto, pc, class, roles) ==
    LET code == proto.code
        op == Byte(code, pc)
        next == pc + pbc_instruction_size(code, pc)
        first == get_u16(code, pc + 1)
        Keep(condition) == IF condition THEN Valid(class, roles) ELSE Invalid
    IN  CASE op \in LocalOps -> Keep(Byte(code, pc + 1) < Len(proto.locals))
          [] op = OP_STATIC_INIT ->
                Keep(/\ Byte(code, pc + 1) < Len(proto.locals)
                     /\ pbc_instruction_boundary(code, Target(code, next, pc + 2)))
          [] op = OP_LOAD_CONST -> Keep(first < Len(proto.constants))
          [] op \in StringOps ->
                Keep(/\ pbc_string_constant(proto, first)
                     /\ op \in {OP_DEF_CCONST, OP_DEF_INTERFACE} => class.building)
          [] op = OP_DEF_FUNC ->
                IF /\ first < Len(module)
                   /\ ~module[first + 1].is_method /\ module[first + 1].conditional
                   /\ roles[first + 1] = "none"
                THEN Valid(class, Referenced(roles, first, "function")) ELSE Invalid
          [] op \in CallOps ->
                Keep(pbc_string_constant(proto, first) /\ Byte(code, pc + 3) <= 31)
          [] op \in CountOps -> Keep(Byte(code, pc + 1) <= 31)
          [] op \in PairOps ->
                Keep(/\ pbc_string_constant(proto, first)
                     /\ pbc_string_constant(proto, get_u16(code, pc + 3))
                     /\ op = OP_SCALL => Byte(code, pc + 5) <= 31)
          [] op \in JumpOps ->
                Keep(pbc_instruction_boundary(code, Target(code, next, pc + 1)))
          [] op = OP_FE_NEXT ->
                Keep(/\ Byte(code, pc + 3) <= 1
                     /\ pbc_instruction_boundary(code, Target(code, next, pc + 1)))
          [] op = OP_INCLUDE -> Keep(Byte(code, pc + 1) \in {113, 114, 129, 130})
          [] op = OP_CAST -> Keep(Byte(code, pc + 1) \in 2..6)
          [] op \in {OP_DEF_CLASS, OP_DEF_METHOD, OP_DEF_PROP, OP_DEF_END} ->
                ValidDefinition(module, proto, pc, class, roles)
          [] op = OP_CLOSURE ->
                LET count == Byte(code, pc + 3)
                    target == module[first + 1]
                IN  IF /\ first \in 1..(Len(module) - 1)
                       /\ ~target.conditional
                       /\ roles[first + 1] = "none"
                       /\ pbc_closure_proto_name(target, first)
                       /\ target.n_params + count <= Len(target.locals)
                       /\ \A c \in 0..(count - 1) : ValidCapture(proto, pc + 4 + 2 * c)
                    THEN Valid(class, Referenced(roles, first, "closure")) ELSE Invalid
          [] OTHER -> Valid(class, roles)

RECURSIVE WalkCode(_, _, _, _, _)
WalkCode(module, proto, pc, class, roles) ==
    LET Onward(step) ==
            IF step.valid
            THEN WalkCode(module, proto, pc + pbc_instruction_size(proto.code, pc),
                          step.class, step.roles)
            ELSE Invalid
    IN  IF pc >= Len(proto.code)
        THEN IF class.building THEN Invalid ELSE Valid(class, roles)
        ELSE Onward(ValidInstruction(module, proto, pc, class, roles))

ValidCatch(proto, entry) ==
    /\ pbc_instruction_boundary(proto.code, entry.try_start)
    /\ \/ entry.try_end = Len(proto.code)
       \/ pbc_instruction_boundary(proto.code, entry.try_end)
    /\ pbc_instruction_boundary(proto.code, entry.handler_pc)

\* The roles after the code of a proto, or nothing when the code is refused.
pbc_validate_code(module, proto, roles) ==
    LET Caught(walked) ==
            IF walked.valid /\ \A k \in DOMAIN proto.catches : ValidCatch(proto, proto.catches[k])
            THEN walked ELSE Invalid
    IN  IF \E pc \in Boundaries(proto.code, 0) : pbc_instruction_size(proto.code, pc) = 0
        THEN Invalid
        ELSE Caught(WalkCode(module, proto, 0, NoClass, roles))

FinalRole(module, roles, k) ==
    CASE k = 1 -> IF roles[k] = "none" THEN "main" ELSE "invalid"
      [] k > 1 /\ roles[k] = "method" -> "method"
      [] k > 1 /\ roles[k] = "closure" -> IF module[k].is_method THEN "invalid" ELSE "closure"
      [] k > 1 /\ roles[k] \in {"function", "none"} ->
            IF /\ (roles[k] = "function") = module[k].conditional
               /\ ~module[k].is_method
               /\ pbc_identifier_bytes(module[k].name)
            THEN "function" ELSE "invalid"

pbc_finalize_proto_roles(module, roles) == [k \in DOMAIN module |-> FinalRole(module, roles, k)]

\* All protos in turn, and the roles they end up with.
RECURSIVE ValidateFrom(_, _, _)
ValidateFrom(module, k, roles) ==
    LET Onward(checked) ==
            IF checked.valid THEN ValidateFrom(module, k + 1, checked.roles) ELSE Invalid
    IN  IF k > Len(module) THEN Valid(NoClass, roles)
        ELSE Onward(pbc_validate_code(module, module[k], roles))
Verified(module) ==
    LET Final(roles) == IF "invalid" \in {roles[k] : k \in DOMAIN module} THEN Invalid
                        ELSE [valid |-> TRUE, roles |-> roles]
        Finalized(checked) == IF checked.valid
                              THEN Final(pbc_finalize_proto_roles(module, checked.roles))
                              ELSE Invalid
    IN  Finalized(ValidateFrom(module, 1, [k \in DOMAIN module |-> "none"]))

-----------------------------------------------------------------------------
NoFile == <<>>
NotLoaded == [status |-> "pending"]
Refused == [status |-> "refused"]

align4(n) == n + ((4 - (n % 4)) % 4)

\* ---------------------------------------------------------------- writing

u16(n) == <<n % 256, n \div 256>>
\* Four bytes of a number, negative ones in two's complement.
u32(n) == [k \in 1..4 |-> (n \div 256^(k - 1)) % 256]
Zeros(n) == [k \in 1..n |-> 0]

strings_add(list, s) == IF s \in ToSet(list) THEN list ELSE Append(list, s)
StringsOf(proto) == <<proto.name>>
    \o [k \in DOMAIN SelectSeq(proto.constants, LAMBDA c : c[1] = "string") |->
            SelectSeq(proto.constants, LAMBDA c : c[1] = "string")[k][2]]
    \o proto.locals
collect_strings(module) ==
    FoldLeft(strings_add, <<>>, FlattenSeq([k \in DOMAIN module |-> StringsOf(module[k])]))
string_index(strings, s) == (CHOOSE k \in DOMAIN strings : strings[k] = s) - 1

serialized_constant_size(value) == IF value[1] = "float" THEN 16 ELSE 8

RECURSIVE Total(_)
Total(ns) == IF ns = <<>> THEN 0 ELSE Head(ns) + Total(Tail(ns))

\* The first pass: how many bytes a string and a proto take.
StringRecordSize(s) == align4(3 + Len(s))
ProtoRecordSize(proto) ==
    align4(16 + align4(Len(proto.code))
           + Total([k \in DOMAIN proto.constants |-> serialized_constant_size(proto.constants[k])])
           + 2 * Len(proto.locals) + 10 * Len(proto.catches))
\* Where records of these sizes start, from `base` on.
OffsetsFrom(base, recordSizes) ==
    [k \in 1..(Len(recordSizes) + 1) |-> base + Total(SubSeq(recordSizes, 1, k - 1))]

\* The second pass.
ConstantBytes(strings, value) ==
    CASE value[1] = "int" -> <<0, 0, 0, 0>> \o u32(value[2])
      [] value[1] = "string" -> <<2, 0, 0, 0>> \o u32(string_index(strings, value[2]))
      [] value[1] = "float" -> <<3, 0, 0, 0, 0, 0, 0, 0>> \o value[2]
CatchBytes(strings, proto, entry) ==
    u16(entry.try_start) \o u16(entry.try_end) \o u16(entry.handler_pc)
    \o u16(IF entry.class = UINT16_MAX THEN UINT16_MAX
           ELSE string_index(strings, StringAt(proto, entry.class)))
    \o <<entry.slot, 0>>
Flag(condition, mask) == IF condition THEN mask ELSE 0
ProtoBytes(strings, proto) ==
    <<proto.n_params, proto.n_required,
      Flag(proto.variadic, 1) + Flag(proto.is_method, 2) + Flag(proto.conditional, 8),
      Len(proto.locals), 0, 0>>
    \o u16(proto.max_stack) \o u16(Len(proto.code)) \o u16(Len(proto.constants))
    \o u16(Len(proto.catches)) \o u16(string_index(strings, proto.name))
    \o proto.code \o Zeros(align4(Len(proto.code)) - Len(proto.code))
    \o FlattenSeq([k \in DOMAIN proto.constants |-> ConstantBytes(strings, proto.constants[k])])
    \o FlattenSeq([k \in DOMAIN proto.locals |-> u16(string_index(strings, proto.locals[k]))])
    \o FlattenSeq([k \in DOMAIN proto.catches |-> CatchBytes(strings, proto, proto.catches[k])])

\* memcpy() into the zeroed buffer; the buffer has no room behind its end.
Put(bytes, offset, record) ==
    [k \in DOMAIN bytes |-> IF k > offset /\ k <= offset + Len(record)
                            THEN record[k - offset] ELSE bytes[k]]

Magic == <<80, 80, 66, 67>>             \* "PPBC"
Version == 2                            \* PPHP_PBC_FORMAT_VERSION
Flags == 54                             \* the features of the build

Image(module) ==
    LET strings == collect_strings(module)
        tables == 16 + 4 * Len(strings) + 4 * Len(module)
        at == OffsetsFrom(align4(tables),
                  [k \in DOMAIN strings |-> StringRecordSize(strings[k])]
                  \o [k \in DOMAIN module |-> ProtoRecordSize(module[k])])
        total == at[Len(at)]
        header == Magic \o u16(Version) \o u16(Flags) \o u32(total)
                  \o u16(Len(module)) \o u16(Len(strings))
        offsets == FlattenSeq([k \in 1..(Len(at) - 1) |-> u32(at[k])])
        Record(k) == IF k <= Len(strings) THEN u16(Len(strings[k])) \o strings[k]
                     ELSE ProtoBytes(strings, module[k - Len(strings)])
    IN  FoldLeft(LAMBDA bytes, k : Put(bytes, at[k], Record(k)),
                 Put(Zeros(total), 0, header \o offsets),
                 [k \in 1..(Len(at) - 1) |-> k])

\* ---------------------------------------------------------------- loading

\* Numbers of four bytes beyond 2^24 stand for "larger than any file".
get_u32(bytes, offset) ==
    IF Byte(bytes, offset + 3) # 0 THEN 2^24
    ELSE get_u16(bytes, offset) + 65536 * Byte(bytes, offset + 2)
get_i32(bytes, offset) ==
    get_u16(bytes, offset) + 65536 * Byte(bytes, offset + 2)
    + 2^24 * (IF Byte(bytes, offset + 3) > 127 THEN Byte(bytes, offset + 3) - 256
              ELSE Byte(bytes, offset + 3))

\* The file and the two tables of offsets.
n_protos(bytes) == get_u16(bytes, 12)
n_strings(bytes) == get_u16(bytes, 14)
Offset(bytes, k) == get_u32(bytes, 16 + 4 * k)
Limit(bytes, k) == IF k + 1 < n_strings(bytes) + n_protos(bytes)
                   THEN Offset(bytes, k + 1) ELSE Len(bytes)

\* Images from before the feature flags were written imply floats.
FeatureFlags(flags) ==
    IF Bit(flags, 32) THEN flags ELSE flags + 32 + Flag(~Bit(flags, 16), 16)

ValidHeader(bytes) ==
    /\ pbc_range_available(0, 16, Len(bytes))
    /\ SubSeq(bytes, 1, 4) = Magic
    /\ get_u16(bytes, 4) = Version
    /\ get_u32(bytes, 8) = Len(bytes)
    /\ FeatureFlags(get_u16(bytes, 6)) = Flags
    /\ n_protos(bytes) # 0
    /\ pbc_range_available(16, 4 * (n_strings(bytes) + n_protos(bytes)), Len(bytes))

ValidTables(bytes) ==
    LET entries == n_strings(bytes) + n_protos(bytes)
        start == align4(16 + 4 * entries)
    IN  /\ start <= Len(bytes)
        /\ \A k \in 0..(entries - 1) :
              /\ Offset(bytes, k) % 4 = 0
              /\ Offset(bytes, k) \in start..Len(bytes)
              /\ k > 0 => Offset(bytes, k) > Offset(bytes, k - 1)

ValidString(bytes, k) ==
    LET offset == Offset(bytes, k)
        length == get_u16(bytes, offset)
    IN  /\ pbc_range_available(offset, 2, Len(bytes))
        /\ pbc_range_available(offset, 3 + length, Limit(bytes, k))
        /\ align4(offset + 3 + length) = Limit(bytes, k)
        /\ Byte(bytes, offset + 2 + length) = 0
StringRecord(bytes, k) ==
    LET offset == Offset(bytes, k)
    IN  SubSeq(bytes, offset + 3, offset + 2 + get_u16(bytes, offset))

\* Constants are read one after the other: their tags give their sizes.
RECURSIVE ReadConstants(_, _, _, _, _)
ReadConstants(bytes, offset, count, limit, constants) ==
    IF count = 0 THEN [ok |-> TRUE, offset |-> offset, constants |-> constants]
    ELSE LET tag == Byte(bytes, offset)
             size == IF tag \in {3, 4} THEN 16 ELSE 8
             sid == get_u32(bytes, offset + 4)
             value == CASE tag = 0 -> <<"int", get_i32(bytes, offset + 4)>>
                        [] tag = 1 -> <<"float", SubSeq(bytes, offset + 5, offset + 8)>>
                        [] tag = 2 -> <<"string", StringRecord(bytes, sid)>>
                        [] tag = 3 -> <<"float", SubSeq(bytes, offset + 9, offset + 16)>>
         IN  IF \/ ~pbc_range_available(offset, 8, limit)
                \/ ~pbc_range_available(offset, size, limit)
                \/ tag \notin 0..3
                \/ tag = 2 /\ sid >= n_strings(bytes)
             THEN [ok |-> FALSE]
             ELSE ReadConstants(bytes, offset + size, count - 1, limit,
                                Append(constants, value))

\* The fixed part of a proto record.
ProtoHeader(bytes, k) ==
    LET offset == Offset(bytes, n_strings(bytes) + k)
        flags == Byte(bytes, offset + 2)
    IN  [n_params |-> Byte(bytes, offset), n_required |-> Byte(bytes, offset + 1),
         variadic |-> Bit(flags, 1), is_method |-> Bit(flags, 2),
         conditional |-> Bit(flags, 8), local_count |-> Byte(bytes, offset + 3),
         max_stack |-> get_u16(bytes, offset + 6), code_length |-> get_u16(bytes, offset + 8),
         constant_count |-> get_u16(bytes, offset + 10),
         catch_count |-> get_u16(bytes, offset + 12), sid |-> get_u16(bytes, offset + 14)]
ValidProtoHeader(bytes, k, proto) ==
    LET offset == Offset(bytes, n_strings(bytes) + k)
        flags == Byte(bytes, offset + 2)
    IN  /\ Within(flags, {1, 2, 8})
        /\ Byte(bytes, offset + 4) = 0 /\ Byte(bytes, offset + 5) = 0
        /\ ~(proto.is_method /\ proto.conditional)
        /\ k = 0 => /\ proto.n_params = 0 /\ proto.n_required = 0
                    /\ ~proto.variadic /\ ~proto.is_method /\ ~proto.conditional
        /\ proto.n_params <= 31 /\ proto.n_required <= proto.n_params
        /\ proto.variadic => proto.n_params # 0
        /\ proto.n_params + Flag(proto.is_method, 1) <= proto.local_count

\* A catch entry; its class becomes one more constant of the proto.
CatchAt(bytes, at) ==
    LET sid == get_u16(bytes, at + 6)
    IN  [try_start |-> get_u16(bytes, at), try_end |-> get_u16(bytes, at + 2),
         handler_pc |-> get_u16(bytes, at + 4), sid |-> sid, slot |-> Byte(bytes, at + 8)]
ValidCatchRecord(bytes, at, code_length, local_count) ==
    LET entry == CatchAt(bytes, at)
    IN  /\ entry.try_start <= entry.try_end /\ entry.try_end <= code_length
        /\ entry.handler_pc < code_length
        /\ Byte(bytes, at + 9) = 0
        /\ entry.slot = UINT8_MAX \/ entry.slot < local_count
        /\ entry.sid = UINT16_MAX \/ entry.sid < n_strings(bytes)

NoProto == [ok |-> FALSE]
LoadProto(bytes, k) ==
    LET start == Offset(bytes, n_strings(bytes) + k)
        limit == Limit(bytes, n_strings(bytes) + k)
        Named(entries) == {i \in DOMAIN entries : entries[i].sid # UINT16_MAX}
        Loaded(h, constants, locals, entries) ==
            [ok |-> TRUE,
             proto |->
               [name |-> StringRecord(bytes, h.sid), n_params |-> h.n_params,
                n_required |-> h.n_required, variadic |-> h.variadic,
                is_method |-> h.is_method, conditional |-> h.conditional,
                max_stack |-> h.max_stack,
                code |-> SubSeq(bytes, start + 17, start + 16 + h.code_length),
                locals |-> locals,
                constants |-> constants \o
                    [j \in 1..Cardinality(Named(entries)) |->
                        LET classed == SelectSeq(entries, LAMBDA e : e.sid # UINT16_MAX)
                        IN  <<"string", StringRecord(bytes, classed[j].sid)>>],
                catches |-> [j \in DOMAIN entries |->
                    [try_start |-> entries[j].try_start, try_end |-> entries[j].try_end,
                     handler_pc |-> entries[j].handler_pc, slot |-> entries[j].slot,
                     class |-> IF j \notin Named(entries) THEN UINT16_MAX
                               ELSE Len(constants) + Cardinality(Named(entries) \cap 1..(j - 1))]]]]
        \* The locals are followed by the catch table.
        Tables(h, read, sids, catchesAt) ==
            IF /\ read.ok
               /\ pbc_range_available(read.offset, 2 * h.local_count, limit)
               /\ \A j \in DOMAIN sids : sids[j] < n_strings(bytes)
               /\ Cardinality({StringRecord(bytes, sids[j]) : j \in DOMAIN sids}) = h.local_count
               /\ pbc_range_available(catchesAt, 10 * h.catch_count, limit)
               /\ \A j \in 0..(h.catch_count - 1) :
                      ValidCatchRecord(bytes, catchesAt + 10 * j, h.code_length, h.local_count)
               /\ align4(catchesAt + 10 * h.catch_count) = limit
            THEN Loaded(h, read.constants, [j \in DOMAIN sids |-> StringRecord(bytes, sids[j])],
                        [j \in 1..h.catch_count |-> CatchAt(bytes, catchesAt + 10 * (j - 1))])
            ELSE NoProto
        Constants(h, read) ==
            Tables(h, read, [j \in 1..h.local_count |->
                                get_u16(bytes, read.offset + 2 * (j - 1))],
                   read.offset + 2 * h.local_count)
        Fixed(h) ==
            IF /\ h.sid < n_strings(bytes)
               /\ pbc_range_available(start, 16 + align4(h.code_length), limit)
               /\ ValidProtoHeader(bytes, k, h)
            THEN Constants(h, ReadConstants(bytes, start + 16 + align4(h.code_length),
                                            h.constant_count, limit, <<>>))
            ELSE NoProto
    IN  IF pbc_range_available(start, 16, limit) THEN Fixed(ProtoHeader(bytes, k)) ELSE NoProto

pphp_pbc_load(bytes) ==
    LET Checked(module, verified) ==
            IF verified.valid
            THEN [status |-> "loaded", module |-> module, roles |-> verified.roles]
            ELSE Refused
        Linked(module) == Checked(module, Verified(module))
        Protos(loads) == IF \A k \in DOMAIN loads : loads[k].ok
                         THEN Linked([k \in DOMAIN loads |-> loads[k].proto]) ELSE Refused
    IN  IF /\ ValidHeader(bytes)
           /\ ValidTables(bytes)
           /\ \A k \in 0..(n_strings(bytes) - 1) : ValidString(bytes, k)
        THEN Protos([k \in 1..n_protos(bytes) |-> LoadProto(bytes, k - 1)])
        ELSE Refused

\* ---------------------------------------------------------------- actions

Init == source \in Modules /\ file = NoFile /\ fault = "none" /\ loaded = NotLoaded

\* pphp_pbc_write_file(): the whole image in one write.
Write == /\ file = NoFile
         /\ file' = Image(source)
         /\ UNCHANGED <<source, fault, loaded>>

\* The power fails during the write, or the disk is full.
Cut == /\ file # NoFile /\ fault = "none" /\ loaded = NotLoaded
       /\ \E n \in 1..(Len(file) - 1) : file' = SubSeq(file, 1, n)
       /\ fault' = "cut"
       /\ UNCHANGED <<source, loaded>>

\* A byte of the file is not what was written.
Spoil == /\ file # NoFile /\ fault = "none" /\ loaded = NotLoaded
         /\ \E k \in DOMAIN file, v \in Damage :
               v # file[k] /\ file' = [file EXCEPT ![k] = v]
         /\ fault' = "damaged"
         /\ UNCHANGED <<source, loaded>>

\* pphp_pbc_read_file()
Load == /\ file # NoFile /\ loaded = NotLoaded
        /\ loaded' = pphp_pbc_load(file)
        /\ UNCHANGED <<source, file, fault>>

Next == Write \/ Cut \/ Spoil \/ Load
Spec == Init /\ [][Next]_vars

-----------------------------------------------------------------------------
\* Loading gives the module back.  A catch entry finds the class it names in a
\* constant of its own.
Same(written, read) ==
    /\ Len(read) = Len(written)
    /\ \A k \in DOMAIN written :
          LET w == written[k]
              r == read[k]
          IN  /\ r = [w EXCEPT !.constants = r.constants, !.catches = r.catches]
              /\ SubSeq(r.constants, 1, Len(w.constants)) = w.constants
              /\ Len(r.catches) = Len(w.catches)
              /\ \A j \in DOMAIN w.catches :
                    /\ r.catches[j] = [w.catches[j] EXCEPT !.class = r.catches[j].class]
                    /\ IF w.catches[j].class = UINT16_MAX THEN r.catches[j].class = UINT16_MAX
                       ELSE StringAt(r, r.catches[j].class) = StringAt(w, w.catches[j].class)

\* ---- what the interpreter does with the code, instruction by instruction
Ends(op) == op \in {1, 64, 82, 83, 129}         \* HALT, JMP, RET, RET_NULL, THROW
Successors(code, pc) ==
    LET op == Byte(code, pc)
        next == pc + pbc_instruction_size(code, pc)
    IN  (IF Ends(op) THEN {} ELSE {next})
        \cup (IF op \in JumpOps \cup {OP_FE_NEXT} THEN {Target(code, next, pc + 1)} ELSE {})
        \cup (IF op = OP_STATIC_INIT THEN {Target(code, next, pc + 2)} ELSE {})
Executable(code, pc) == pc >= 0 /\ pc < Len(code) /\ pbc_instruction_size(code, pc) # 0
RECURSIVE ReachedFrom(_, _)
ReachedFrom(code, pcs) ==
    LET more == pcs \cup UNION {Successors(code, pc) : pc \in {p \in pcs : Executable(code, p)}}
    IN  IF more = pcs THEN pcs ELSE ReachedFrom(code, more)

\* The operands of an instruction name things that exist, in the right role.
OperandsExist(module, roles, proto, pc) ==
    LET code == proto.code
        op == Byte(code, pc)
        first == get_u16(code, pc + 1)
        second == get_u16(code, pc + 3)
    IN  /\ op \in LocalOps \cup {OP_STATIC_INIT} => Byte(code, pc + 1) < Len(proto.locals)
        /\ op = OP_LOAD_CONST => first < Len(proto.constants)
        /\ op \in StringOps \cup CallOps \cup PairOps
                  \cup {OP_DEF_CLASS, OP_DEF_METHOD, OP_DEF_PROP}
             => pbc_string_constant(proto, first)
        /\ op = OP_DEF_FUNC => first < Len(module) /\ roles[first + 1] = "function"
        /\ op = OP_DEF_METHOD => second < Len(module) /\ roles[second + 1] = "method"
        /\ op = OP_CLOSURE =>
              /\ first < Len(module) /\ roles[first + 1] = "closure"
              /\ module[first + 1].n_params + Byte(code, pc + 3) <= Len(module[first + 1].locals)

FrameFits(proto) == /\ proto.n_params + Flag(proto.is_method, 1) <= Len(proto.locals)
                    /\ proto.n_required <= proto.n_params
                    /\ \A k \in DOMAIN proto.catches :
                          proto.catches[k].slot \in {UINT8_MAX} \cup 0..(Len(proto.locals) - 1)

\* A module that was written is loaded as it was.
RoundTrip == (fault = "none" /\ loaded # NotLoaded) =>
                 loaded.status = "loaded" /\ Same(source, loaded.module)

\* A file that was cut short is refused; and whatever byte of a file is wrong,
\* a module that is accepted has only code the interpreter can execute: along
\* every path, from the start and from every handler, it meets instructions
\* whose operands exist, and frames have room for their arguments.
DamageContained ==
    loaded.status = "loaded" =>
        /\ fault # "cut"
        /\ \A k \in DOMAIN loaded.module :
              LET proto == loaded.module[k]
                  handlers == {proto.catches[j].handler_pc : j \in DOMAIN proto.catches}
              IN  /\ FrameFits(proto)
                  /\ \A pc \in ReachedFrom(proto.code, {0} \cup handlers) :
                        \/ pc = Len(proto.code)       \* reported as truncated bytecode
                        \/ /\ Executable(proto.code, pc)
                           /\ OperandsExist(loaded.module, loaded.roles, proto, pc)
=============================================================================
