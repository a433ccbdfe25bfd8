-------------------------------- MODULE Codec --------------------------------
(***************************************************************************)
(* The forms a source is kept in: the JSON of a .zkir file and the tagged  *)
(* binary of a .bzkir file or of a key (ir_types.rs, ir.rs).  What serde   *)
(* and the derive macros do field by field is `Derived`; the hand-written  *)
(* codecs are those of types, operands, constants and the version.         *)
(*                                                                         *)
(* A document has the fields of a Source, with its types, operands and     *)
(* constants in the notation of its form.  Strings are records: names and  *)
(* immediates share one space of strings, as they do in a document.        *)
(***************************************************************************)
EXTENDS Ir

CONSTANTS
  JsonFiles,     \* documents in JSON a run may start from
  BinaryFiles    \* documents in binary a run may start from

\* A string: an optional "-", how it goes on, and the rest; for "0x" and "0X" the
\* rest is hex, `half` if its digits are odd in number.  The powers that
\* PowerAssumption speaks of bound its length.
Text == [neg : BOOLEAN, mark : {"%", "0x", "0X", "other"},
         rest : {bs \in Seq(0..ByteBase - 1) : Len(bs) <= MAX_BYTES_LEN}, half : BOOLEAN]

------------------------------------------------------------------------------
(* Types.  A fixed type stands for its own name; the digits are those        *)
(* between "Bytes<" and ">", NonDigit being any other character.             *)

NonDigit == 10
Digits == 0..NonDigit - 1

\* The types without payload, in the order of their discriminants from 0.
Layout ==
  <<Native, Bytes(FrBytes), Point("Jubjub"), Scalar("Jubjub"),
    Point("Secp256k1"), Base("Secp256k1"), Scalar("Secp256k1"),
    Point("Secp256r1"), Base("Secp256r1"), Scalar("Secp256r1"),
    Point("Curve25519"), Base("Curve25519"), Scalar("Curve25519"), Bool, Byte>>
BytesTag == 15
CodecTypes == ToSet(Layout) \cup BytesTypes
FixedTypes == ToSet(Layout) \ {Bytes(FrBytes)}

\* The decimal of n, without leading zeros.
DecimalLen(n) == CHOOSE k \in 1..8 : 10^(k - 1) <= n /\ n < 10^k
Decimal(n) == [i \in 1..DecimalLen(n) |-> (n \div 10^(DecimalLen(n) - i)) % 10]
FromDecimal(ds) ==
  LET upTo[i \in 0..Len(ds)] == IF i = 0 THEN 0 ELSE 10 * upTo[i - 1] + ds[i]
  IN upTo[Len(ds)]

\* A length has eight digits at most; the proofs know of powers what is said here.
ASSUME DecimalAssumption ==
  /\ MAX_BYTES_LEN < 10^8 /\ 10^0 = 1
  /\ \A k \in 0..7 : 10^k \in Nat \ {0} /\ 10^(k + 1) = 10 * 10^k

\* A type as text; a name that is no type's is "unknown".
TypeName == FixedTypes \cup {<<"Bytes">>, <<"unknown">>}
TypeText == [name : TypeName, digits : Seq(0..NonDigit)]

\* to_type_string
PrintType(t) ==
  IF t \in BytesTypes THEN [name |-> <<"Bytes">>, digits |-> Decimal(t[2])]
                      ELSE [name |-> t, digits |-> <<>>]

\* Mutant of ParseType: without the bound on the length.
ParseTypeUnbounded(x) ==
  IF x.name # <<"Bytes">> THEN {t \in FixedTypes : t = x.name}
  ELSE Some(/\ x.digits # <<>> /\ ToSet(x.digits) \subseteq Digits /\ x.digits[1] # 0,
            Bytes(FromDecimal(x.digits)))

\* from_type_string
ParseType(x) ==
  IF x.name # <<"Bytes">> THEN {t \in FixedTypes : t = x.name}
  ELSE Some(/\ x.digits # <<>> /\ ToSet(x.digits) \subseteq Digits /\ x.digits[1] # 0
            /\ FromDecimal(x.digits) <= MAX_BYTES_LEN,
            Bytes(FromDecimal(x.digits)))

\* The binary form: a discriminant and, after BytesTag only, a length.
TypeToken ==
  {k \in [tag : 0..255, len : Seq(Nat)] : Len(k.len) = IF k.tag = BytesTag THEN 1 ELSE 0}

discriminant(t) ==
  IF \E d \in DOMAIN Layout : Layout[d] = t
  THEN (CHOOSE d \in DOMAIN Layout : Layout[d] = t) - 1 ELSE BytesTag

\* Mutant of WriteType: one layout for all byte strings.
WriteTypeUniform(t) ==
  IF t \in BytesTypes THEN [tag |-> BytesTag, len |-> <<t[2]>>]
                      ELSE [tag |-> discriminant(t), len |-> <<>>]

WriteType(t) ==
  [tag |-> discriminant(t), len |-> IF discriminant(t) = BytesTag THEN <<t[2]>> ELSE <<>>]

\* Mutant of ReadType: any length from 1 to the bound is taken.
ReadTypeLenient(k) ==
  IF k.tag = BytesTag THEN Some(k.len[1] \in 1..MAX_BYTES_LEN, Bytes(k.len[1]))
  ELSE {Layout[d] : d \in {k.tag + 1} \cap DOMAIN Layout}

ReadType(k) ==
  IF k.tag = BytesTag
  THEN Some(k.len[1] \in (1..MAX_BYTES_LEN) \ {FrBytes}, Bytes(k.len[1]))
  ELSE {Layout[d] : d \in {k.tag + 1} \cap DOMAIN Layout}

------------------------------------------------------------------------------
(* Operands.                                                                 *)

CodecOperand == ({"var"} \X Text) \cup ({"imm"} \X Immediates)
OperandToken == [tag : 0..255, text : Text]

\* Mutant of Trimmed: the last zero goes too.
TrimmedToNothing(bs) ==
  SubSeq(bs, 1, Cardinality({i \in DOMAIN bs : \E j \in DOMAIN bs : j >= i /\ bs[j] # 0}))

\* The bytes of an immediate without trailing zeros, of which one stays.
Trimmed(bs) ==
  SubSeq(bs, 1, Max({1} \cup {i \in DOMAIN bs : bs[i] # 0}))

HexText(x) ==
  [neg |-> FALSE, mark |-> "0x", rest |-> Trimmed(LeBytes(x, FrBytes)), half |-> FALSE]

\* Hex digits, in pairs, little-endian, of an element of the field.
IsHex(t) == t.mark \in {"0x", "0X"}
HexValue(t) ==
  LET x == LeInt(t.rest) IN
  Some(~t.half /\ t.rest # <<>> /\ x < P, <<"imm", IF t.neg THEN (P - x) % P ELSE x>>)

PrintOperand(o) == IF o[1] = "imm" THEN HexText(o[2]) ELSE o[2]

\* A string that is not hex must be the name of a variable, which starts with '%'.
ParseOperand(t) ==
  IF IsHex(t) THEN HexValue(t) ELSE Some(~t.neg /\ t.mark = "%", <<"var", t>>)

WriteOperand(o) ==
  IF o[1] = "imm" THEN [tag |-> 1, text |-> HexText(o[2])] ELSE [tag |-> 0, text |-> o[2]]

\* In binary the tag decides, and the name of a variable is not looked at.
ReadOperand(k) ==
  CASE k.tag = 0 -> {<<"var", k.text>>}
    [] k.tag = 1 /\ IsHex(k.text) -> HexValue(k.text)
    [] OTHER -> {}

\* constant_encoding: the entries of a constant are immediates.
ParseConstant(t) == {o[2] : o \in {p \in ParseOperand(t) : p[1] = "imm"}}
PrintConstant(x) == PrintOperand(<<"imm", x>>)

\* In binary a constant is written as it is.
ReadImmediate(x) == {x}

------------------------------------------------------------------------------
(* Documents: a source in the notation of its form.                          *)

Minors == 0..2                          \* IrMinorVersion

Documents(Version, Ty, Arg, Const) ==
  [version : Version, inputs : Seq([name : Text, ty : Ty]), outputs : Seq(Ty),
   comm : BOOLEAN,
   code : Seq([op : ValueOps \cup ControlOps, args : Seq(Arg), outs : Seq(Text), ty : Ty,
               n : Seq(Nat), enc : Seq(Const), align : Seq(Segment)])]
CodecSource == Documents(Minors, CodecTypes, CodecOperand, Immediates)
JsonDocument == Documents(Seq(Nat), TypeText, Text, Text)
BinaryDocument == Documents(Nat, TypeToken, OperandToken, Immediates)

ASSUME DocumentsAssumption ==
  JsonFiles \subseteq JsonDocument /\ BinaryFiles \subseteq BinaryDocument

The(option) == CHOOSE x \in option : TRUE
Each(f(_), xs) == [i \in DOMAIN xs |-> f(xs[i])]

Derived(doc, version, ty(_), arg(_), const(_)) ==
  LET input(i) == [name |-> i.name, ty |-> ty(i.ty)]
      ins(i) == [op |-> i.op, args |-> Each(arg, i.args), outs |-> i.outs, ty |-> ty(i.ty),
                 n |-> i.n, enc |-> Each(const, i.enc), align |-> i.align]
  IN [version |-> version, inputs |-> Each(input, doc.inputs),
      outputs |-> Each(ty, doc.outputs), comm |-> doc.comm, code |-> Each(ins, doc.code)]

DerivedRead(doc, version, ty(_), arg(_), const(_)) ==
  LET reads(f(_), xs) == \A i \in DOMAIN xs : f(xs[i]) # {}
  IN Some(/\ \A i \in DOMAIN doc.inputs : ty(doc.inputs[i].ty) # {}
          /\ reads(ty, doc.outputs)
          /\ \A i \in DOMAIN doc.code :
               /\ ty(doc.code[i].ty) # {}
               /\ reads(arg, doc.code[i].args) /\ reads(const, doc.code[i].enc),
          Derived(doc, version,
                  LAMBDA x : The(ty(x)), LAMBDA x : The(arg(x)), LAMBDA x : The(const(x))))

\* serde: the version of a document is a number.
MinorNumbers == {<<m>> : m \in Minors}
Parse(doc) ==
  IF doc.version \in MinorNumbers
  THEN DerivedRead(doc, doc.version[1], ParseType, ParseOperand, ParseConstant) ELSE {}
PrintSource(s) == Derived(s, <<s.version>>, PrintType, PrintOperand, PrintConstant)

\* IrSource::load: the version is a pair <<major, minor>>.
load(doc) ==
  IF doc.version \in {<<3, m>> : m \in Minors}
  THEN Parse([doc EXCEPT !.version = Tail(@)]) ELSE {}

WriteSource(s) == Derived(s, s.version, WriteType, WriteOperand, LAMBDA x : x)
ReadSource(doc) ==
  IF doc.version \in Minors
  THEN DerivedRead(doc, doc.version, ReadType, ReadOperand, ReadImmediate) ELSE {}

------------------------------------------------------------------------------
VARIABLES
  form,     \* how the source is held: a .zkir file, as read, in binary, printed
  doc,      \* the document or the source
  origin    \* the option of the source as it was first read

codecVars == <<form, doc, origin>>
Forms == {"json", "source", "binary", "printed", "refused"}

CodecInit ==
  /\ origin = {}
  /\ \/ form = "json" /\ doc \in JsonFiles
     \/ form = "binary" /\ doc \in BinaryFiles

\* One way of reading: its result, or a refusal.
Reads(result) ==
  \/ /\ result = {} /\ form' = "refused" /\ UNCHANGED <<doc, origin>>
  \/ /\ result # {} /\ form' = "source" /\ doc' = The(result)
     /\ origin' = IF origin = {} THEN result ELSE origin

Load == form = "json" /\ Reads(load(doc))
Read == form = "binary" /\ Reads(ReadSource(doc))
Reparse == form = "printed" /\ Reads(Parse(doc))

Becomes(f, d) == form = "source" /\ form' = f /\ doc' = d /\ UNCHANGED origin
Write == Becomes("binary", WriteSource(doc))
Serialize == Becomes("printed", PrintSource(doc))
Refused == form = "refused" /\ UNCHANGED codecVars

CodecNext == Load \/ Read \/ Reparse \/ Write \/ Serialize \/ Refused
CodecSpec == CodecInit /\ [][CodecNext]_codecVars

------------------------------------------------------------------------------
(* Properties.                                                               *)

\* A source that has been read, from whatever file, uses types that exist, byte
\* strings within the bound, and immediates of the field (from_type_string, the
\* Deserializable of IrType and of Operand); what it is written as is a document.
CodecTypeOK ==
  /\ form \in Forms /\ origin \subseteq CodecSource
  /\ form = "source" => doc \in CodecSource
  /\ form = "binary" => doc \in BinaryDocument
  /\ form \in {"json", "printed"} => doc \in JsonDocument

\* Every variable of a source that was once JSON is a name JSON can tell from an
\* immediate; the binary form admits others.
Nameable(s) ==
  \A i \in DOMAIN s.code : \A j \in DOMAIN s.code[i].args :
    LET o == s.code[i].args[j] IN o[1] = "var" => ~o[2].neg /\ o[2].mark = "%"

\* A source with such names is the same source after any number of changes of
\* form: what is compiled from a .bzkir file or taken out of a key is what the
\* .zkir file said.
SurvivesForms ==
  \A s \in origin : Nameable(s) =>
    /\ form # "refused"
    /\ form = "source" => doc = s

\* A type has one binary form: what ReadType accepts is what WriteType writes
\* ("to keep the encoding canonical", ir_types.rs 293).
TypesCanonical ==
  form = "binary" =>
    \A s \in ReadSource(doc) :
      \A i \in DOMAIN doc.outputs : WriteType(s.outputs[i]) = doc.outputs[i]

\* Whatever binary file is accepted, writing what was read gives a file that is
\* read as the same source, although immediates have many spellings.
RewritesFaithfully ==
  form = "binary" => \A s \in ReadSource(doc) : ReadSource(WriteSource(s)) = {s}
==============================================================================
