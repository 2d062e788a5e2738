------------------------------- MODULE MsgPack -------------------------------
(***************************************************************************)
(* MessagePack as lib/cmp.c writes and reads it: every payload between the *)
(* nodes, the GUI and the microcontrollers on a serial line is coded by    *)
(* it.  A byte is a digit to the base Base (256 in the code), and the      *)
(* limits of the one-byte forms are constants, so that every border        *)
(* between two forms lies within a small instance.  A marker byte is the   *)
(* name of its form, with the bits of a one-byte form beside it.           *)
(***************************************************************************)
EXTENDS Integers, Sequences, SequencesExt

CONSTANTS
    Base,           \* values of a byte
    PosFixMax,      \* largest positive fixnum, 0x7F
    NegFixMin,      \* smallest negative fixnum, -32
    FixStrMax,      \* longest fixstr, FIXSTR_SIZE
    FixListMax,     \* longest fixarray and fixmap, FIXARRAY_SIZE
    Numbers,        \* the numbers the checks write
    Sizes,          \* and the lengths
    MaxObjects,     \* objects in one buffer
    StrBuffer       \* room the reader of a string has

VARIABLES
    buf,    \* what has been written
    calls,  \* the calls that wrote it
    at,     \* the reader's position
    reads   \* what the reader's calls returned

mpVars == <<buf, calls, at, reads>>

-----------------------------------------------------------------------------
(* Forms.  Width is the number of bytes behind the marker that hold a      *)
(* number or a length.                                                     *)
UInts == {"u8", "u16", "u32", "u64"}
SInts == {"s8", "s16", "s32", "s64"}
Strs == {"fixstr", "str8", "str16", "str32"}
Bins == {"bin8", "bin16", "bin32"}
Arrays == {"fixarray", "array16", "array32"}
Maps == {"fixmap", "map16", "map32"}
FixExts == {"fixext1", "fixext2", "fixext4", "fixext8", "fixext16"}
Exts == {"ext8", "ext16", "ext32"}
Width(t) == CASE t \in {"u8", "s8", "str8", "bin8", "ext8"} -> 1
              [] t \in {"u16", "s16", "str16", "bin16", "array16", "map16", "ext16"} -> 2
              [] t \in {"u32", "s32", "str32", "bin32", "array32", "map32", "ext32", "float"} -> 4
              [] t \in {"u64", "s64", "double"} -> 8
FixLimit(t) == CASE t = "fixstr" -> FixStrMax [] t \in {"fixarray", "fixmap"} -> FixListMax
FixExtSize(t) == CASE t = "fixext1" -> 1 [] t = "fixext2" -> 2 [] t = "fixext4" -> 4
                   [] t = "fixext8" -> 8 [] t = "fixext16" -> 16

(* The values that n bytes tell apart.                                     *)
Power[n \in 0..8] == IF n = 0 THEN 1 ELSE Base * Power[n - 1]
Greatest(n) == Power[n] - 1
Signed(u, n) == IF u > Greatest(n) \div 2 THEN u - Power[n] ELSE u

(* A cell of the buffer: a marker with the low bits of a one-byte form, or *)
(* a byte of data.                                                         *)
Marker(t, low) == <<[mark |-> t, byte |-> low]>>
Data(b) == [i \in DOMAIN b |-> [mark |-> "data", byte |-> b[i]]]

(* A number of n bytes as it lies in the memory of the little-endian host. *)
Memory(v, n) == [i \in 1..n |-> (v \div Power[i - 1]) % Base]

(* be16, be32, be64, befloat, bedouble: first and last byte change places, *)
(* and so on to the middle.                                                *)
be(b) == Reverse(b)

Wire(t, v) == Marker(t, 0) \o Data(be(Memory(v, Width(t))))
Contents(size) == Data([i \in 1..size |-> i % Base])

(* No cell is written when the value does not fit the form.                *)
Refused == <<>>

-----------------------------------------------------------------------------
(* Writers of one form.                                                    *)
WriteNumber(t, v) ==
    CASE t = "pfix" -> IF v <= PosFixMax THEN Marker("pfix", v) ELSE Refused
      [] t = "nfix" -> IF v \in NegFixMin..-1 THEN Marker("nfix", v) ELSE Refused
      [] t \in UInts \cup SInts -> Wire(t, v)
WriteScalar(t, v) ==
    CASE t \in {"float", "double"} -> Wire(t, v)
      [] t = "boolean" -> Marker(IF v = 0 THEN "false" ELSE "true", 0)
      [] t = "nil" -> Marker("nil", 0)
StrMarker(t, size) ==
    IF t # "fixstr" THEN Wire(t, size)
    ELSE IF size <= FixStrMax THEN Marker(t, size) ELSE Refused
BinMarker(t, size) == Wire(t, size)
WriteList(t, size) ==
    IF t \notin {"fixarray", "fixmap"} THEN Wire(t, size)
    ELSE IF size <= FixListMax THEN Marker(t, size) ELSE Refused
FixExtMarker(t, tp) == Marker(t, 0) \o Data(<<tp>>)
ExtMarker(t, tp, size) == Wire(t, size) \o Data(<<tp>>)

(* Writers that choose the form by the value.                              *)
cmp_write_uinteger(u) ==
    WriteNumber(CASE u <= PosFixMax -> "pfix" [] u > PosFixMax /\ u <= Greatest(1) -> "u8"
                  [] u > Greatest(1) /\ u <= Greatest(2) -> "u16"
                  [] u > Greatest(2) /\ u <= Greatest(4) -> "u32" [] OTHER -> "u64", u)

Lowest(n) == -((Greatest(n) + 1) \div 2)

(* Slip: the border between s8 and s16 is off by one.                      *)
cmp_write_integerOffByOne(d) ==
    IF d >= 0 THEN cmp_write_uinteger(d)
    ELSE WriteNumber(CASE d >= NegFixMin -> "nfix"
                       [] d < NegFixMin /\ d >= Lowest(1) - 1 -> "s8"
                       [] d < Lowest(1) - 1 /\ d >= Lowest(2) -> "s16"
                       [] d < Lowest(2) /\ d >= Lowest(4) -> "s32" [] OTHER -> "s64", d)
cmp_write_integer(d) ==
    IF d >= 0 THEN cmp_write_uinteger(d)
    ELSE WriteNumber(CASE d >= NegFixMin -> "nfix" [] d < NegFixMin /\ d >= Lowest(1) -> "s8"
                       [] d < Lowest(1) /\ d >= Lowest(2) -> "s16"
                       [] d < Lowest(2) /\ d >= Lowest(4) -> "s32" [] OTHER -> "s64", d)

StrForm(size) ==
    CASE size <= FixStrMax -> "fixstr" [] size > FixStrMax /\ size <= Greatest(1) -> "str8"
      [] size > Greatest(1) /\ size <= Greatest(2) -> "str16" [] OTHER -> "str32"
StrFormV4(size) == IF StrForm(size) = "str8" THEN "str16" ELSE StrForm(size)
cmp_write_str(size) == StrMarker(StrForm(size), size) \o Contents(size)
cmp_write_str_v4(size) == StrMarker(StrFormV4(size), size) \o Contents(size)
BinForm(size) ==
    CASE size <= Greatest(1) -> "bin8" [] size > Greatest(1) /\ size <= Greatest(2) -> "bin16"
      [] OTHER -> "bin32"
cmp_write_bin(size) == BinMarker(BinForm(size), size) \o Contents(size)
cmp_write_array(size) ==
    WriteList(CASE size <= FixListMax -> "fixarray"
                [] size > FixListMax /\ size <= Greatest(2) -> "array16" [] OTHER -> "array32", size)
cmp_write_map(size) ==
    WriteList(CASE size <= FixListMax -> "fixmap"
                [] size > FixListMax /\ size <= Greatest(2) -> "map16" [] OTHER -> "map32", size)
cmp_write_ext(tp, size) ==
    (IF \E t \in FixExts : FixExtSize(t) = size
     THEN FixExtMarker(CHOOSE t \in FixExts : FixExtSize(t) = size, tp)
     ELSE ExtMarker(CASE size <= Greatest(1) -> "ext8"
                      [] size > Greatest(1) /\ size <= Greatest(2) -> "ext16"
                      [] OTHER -> "ext32", tp, size)) \o Contents(size)

(* cmp_write_object writes the form the object names, and of a string,     *)
(* binary or extension the marker alone; the v4 writer knows no str8.      *)
cmp_write_object(o) ==
    CASE o.type \in {"pfix", "nfix"} \cup UInts \cup SInts -> WriteNumber(o.type, o.val)
      [] o.type \in {"float", "double", "boolean", "nil"} -> WriteScalar(o.type, o.val)
      [] o.type \in Strs -> StrMarker(o.type, o.val)
      [] o.type \in Bins -> BinMarker(o.type, o.val)
      [] o.type \in Arrays \cup Maps -> WriteList(o.type, o.val)
      [] o.type \in FixExts -> FixExtMarker(o.type, o.tp)
      [] o.type \in Exts -> ExtMarker(o.type, o.tp, o.val)
cmp_write_object_v4(o) == IF o.type = "str8" THEN Refused ELSE cmp_write_object(o)

-----------------------------------------------------------------------------
(* cmp_read_object.  It never looks for the end of the buffer: a reader is *)
(* told how much it has read, not how much there is.                       *)
numberUpTo(p, n) ==
    LET number[i \in 0..n] ==
            IF i = 0 THEN 0 ELSE number[i - 1] * Base + buf[p + i - 1].byte
    IN number
Number(p, n) == numberUpTo(p, n)[n]
Object(t, v, tp, next) == [type |-> t, val |-> v, tp |-> tp, next |-> next]
Nothing(p) == Object("none", 0, 0, p)

ReadShort(p) ==
    LET c == buf[p] IN
    CASE c.mark \in {"pfix", "nfix", "fixmap", "fixarray", "fixstr"} ->
            Object(c.mark, c.byte, 0, p + 1)
      [] c.mark = "nil" -> Object("nil", 0, 0, p + 1)
      [] c.mark \in {"false", "true"} ->
            Object("boolean", IF c.mark = "true" THEN 1 ELSE 0, 0, p + 1)
BinOrExt(t, n, size, p) ==
    IF t \in Bins THEN Object(t, size, 0, p + 1 + n)
    ELSE Object(t, size, buf[p + 1 + n].byte, p + 2 + n)
ReadBinOrExt(p) ==
    LET n == Width(buf[p].mark) IN BinOrExt(buf[p].mark, n, Number(p + 1, n), p)

NumberObject(t, n, u, p) == Object(t, IF t \in SInts THEN Signed(u, n) ELSE u, 0, p + 1 + n)
ReadNumber(p) ==
    LET n == Width(buf[p].mark) IN NumberObject(buf[p].mark, n, Number(p + 1, n), p)
ReadFixExt(p) == Object(buf[p].mark, FixExtSize(buf[p].mark), buf[p + 1].byte, p + 2)
ReadLength(p) ==
    LET n == Width(buf[p].mark) IN Object(buf[p].mark, Number(p + 1, n), 0, p + 1 + n)

cmp_read_object(p) ==
    LET t == buf[p].mark IN
    CASE t \in Bins \cup Exts -> ReadBinOrExt(p)
      [] t \in UInts \cup SInts \cup {"float", "double"} -> ReadNumber(p)
      [] t \in FixExts -> ReadFixExt(p)
      [] t \in {"str8", "str16", "str32", "array16", "array32", "map16", "map32"} -> ReadLength(p)
      [] t = "data" -> Nothing(p)
      [] OTHER -> ReadShort(p)

-----------------------------------------------------------------------------
(* Conversions of an object to a C type: which forms are taken, and up to  *)
(* which value the unsigned form of the same width is.                     *)
Upto(n, forms) == UNION {{t \in forms : t \notin {"pfix", "nfix"} /\ Width(t) <= n},
                         forms \cap {"pfix", "nfix"}}
CWidth(f) == CASE f \in {"char", "uchar"} -> 1 [] f \in {"short", "ushort"} -> 2
               [] f \in {"int", "uint"} -> 4 [] f \in {"long", "ulong"} -> 8
object_as_signed(f, o) ==
    LET n == CWidth(f) IN
    /\ o.type \in {"pfix", "nfix"} \cup Upto(n, SInts \cup UInts)
    /\ o.type \in UInts /\ Width(o.type) = n => o.val <= Greatest(n) \div 2
object_as_unsigned(f, o) == o.type \in {"pfix"} \cup Upto(CWidth(f), UInts)
object_as_list(f, o) ==
    o.type \in CASE f = "str" -> Strs [] f = "bin" -> Bins [] f = "array" -> Arrays
                 [] f = "map" -> Maps [] f = "ext" -> FixExts \cup Exts
object_is_number(f, o) ==
    o.type \in IF f \in {"char", "short", "int", "long"}
               THEN {"nfix"} \cup Upto(CWidth(f), SInts)
               ELSE {"pfix"} \cup Upto(CWidth(f), UInts)
object_is(f, o) ==
    IF f \in {"float", "double", "nil", "boolean"} THEN o.type = f ELSE object_as_list(f, o)

(* Typed readers: the object, and whether the call returns true.  An       *)
(* object of the wrong type has been read all the same.                    *)
Result(o, ok, next) == [ok |-> ok, val |-> o.val, tp |-> o.tp, next |-> next]
cmp_read_exact(t, p) ==
    LET o == cmp_read_object(p) IN Result(o, o.type = t, o.next)
cmp_read_sfix(p) ==
    LET o == cmp_read_object(p) IN Result(o, o.type \in {"pfix", "nfix"}, o.next)
cmp_read_signed(f, p) ==
    LET o == cmp_read_object(p) IN Result(o, object_as_signed(f, o), o.next)
cmp_read_unsigned(f, p) ==
    LET o == cmp_read_object(p) IN Result(o, object_as_unsigned(f, o), o.next)
cmp_read_decimal(p) ==
    LET o == cmp_read_object(p) IN Result(o, o.type \in {"float", "double"}, o.next)

(* Readers of contents, which read them only if all is well.               *)
WithContents(o, ok) == Result(o, ok, o.next + IF ok THEN o.val ELSE 0)
cmp_read_str(p) ==
    LET o == cmp_read_object(p)
    IN WithContents(o, object_as_list("str", o) /\ o.val + 1 <= StrBuffer)
cmp_read_bin(p) ==
    LET o == cmp_read_object(p)
    IN WithContents(o, object_as_list("bin", o) /\ o.val <= StrBuffer)
cmp_read_list(f, p) ==
    LET o == cmp_read_object(p) IN Result(o, object_as_list(f, o), o.next)
cmp_read_fixext(t, p) ==
    LET o == cmp_read_object(p) IN WithContents(o, o.type = t)
cmp_read_extsize(t, p) ==
    LET o == cmp_read_object(p) IN WithContents(o, o.type = t)
cmp_read_ext(p) ==
    LET o == cmp_read_object(p) IN WithContents(o, object_as_list("ext", o))

-----------------------------------------------------------------------------
(* A writer's call is a function, or the type of an object, and its        *)
(* argument; the contents of an object's string are written behind it.     *)
Typed(o, old) ==
    LET head == IF old THEN cmp_write_object_v4(o) ELSE cmp_write_object(o)
    IN IF head # Refused /\ o.type \in Strs \cup Bins \cup FixExts \cup Exts
       THEN head \o Contents(o.val) ELSE head
Cells(c) ==
    CASE c.fn = "integer" -> cmp_write_integer(c.arg)
      [] c.fn = "uinteger" -> cmp_write_uinteger(c.arg)
      [] c.fn = "str" -> IF c.old THEN cmp_write_str_v4(c.arg) ELSE cmp_write_str(c.arg)
      [] c.fn = "bin" -> cmp_write_bin(c.arg)
      [] c.fn = "array" -> cmp_write_array(c.arg)
      [] c.fn = "map" -> cmp_write_map(c.arg)
      [] c.fn = "ext" -> cmp_write_ext(1, c.arg)
      [] OTHER -> Typed([type |-> c.fn, val |-> c.arg, tp |-> 1], c.old)
Call(fns, args) == [fn : fns, arg : args, old : {FALSE}]
Extremes ==
    {[fn |-> t, arg |-> FixExtSize(t), old |-> FALSE] : t \in FixExts}
    \cup {[fn |-> t, arg |-> Greatest(Width(t)), old |-> FALSE] : t \in UInts \cup {"float", "double"}}
    \cup {[fn |-> t, arg |-> Lowest(Width(t)), old |-> FALSE] : t \in SInts}
Calls ==
    Call({"integer"}, Numbers) \cup Call({"uinteger"}, Numbers \cap Nat)
    \cup Call({"str", "bin", "array", "map", "ext"}, Sizes)
    \cup [fn : {"str"}, arg : Sizes, old : {TRUE}] \cup [fn : Strs, arg : {2}, old : BOOLEAN]
    \cup Call(Arrays \cup Maps \cup Bins \cup Exts, {2})
    \cup Call({"boolean"}, {0, 1}) \cup Call({"nil"}, {0}) \cup Extremes
CInts == {"char", "short", "int", "long", "uchar", "ushort", "uint", "ulong"}
Readers ==
    CInts \cup UInts \cup SInts \cup FixExts \cup Exts
    \cup {"sfix", "decimal", "nil", "boolean", "str", "bin", "array", "map", "ext"}
Return(f, p) ==
    CASE f \in {"char", "short", "int", "long"} -> cmp_read_signed(f, p)
      [] f \in {"uchar", "ushort", "uint", "ulong"} -> cmp_read_unsigned(f, p)
      [] f \in UInts \cup SInts \cup {"nil", "boolean"} -> cmp_read_exact(f, p)
      [] f = "sfix" -> cmp_read_sfix(p)
      [] f = "decimal" -> cmp_read_decimal(p)
      [] f = "str" -> cmp_read_str(p)
      [] f = "bin" -> cmp_read_bin(p)
      [] f \in {"array", "map"} -> cmp_read_list(f, p)
      [] f \in FixExts -> cmp_read_fixext(f, p)
      [] f \in Exts -> cmp_read_extsize(f, p)
      [] f = "ext" -> cmp_read_ext(p)

(* What the predicate of the reader's type says of the object.             *)
Is(f, o) ==
    CASE f \in CInts -> object_is_number(f, o)
      [] f \in {"nil", "boolean", "array", "map", "ext"} -> object_is(f, o)
      [] OTHER -> FALSE

MpInit == buf = <<>> /\ calls = <<>> /\ at = 1 /\ reads = <<>>
Write ==
    \E c \in Calls :
        /\ Len(calls) < MaxObjects /\ reads = <<>> /\ Cells(c) # Refused
        /\ buf' = buf \o Cells(c)
        /\ calls' = Append(calls, c)
        /\ UNCHANGED <<at, reads>>

(* The next object is read by any reader; the users of the library stop at *)
(* the first false.                                                        *)
Read ==
    \E f \in Readers :
        /\ Len(reads) < Len(calls)
        /\ \A i \in DOMAIN reads : reads[i].ok
        /\ LET r == Return(f, at) IN
           /\ reads' = Append(reads, [fn |-> f, ok |-> r.ok, val |-> r.val,
                                      is |-> Is(f, cmp_read_object(at))])
           /\ at' = r.next
        /\ UNCHANGED <<buf, calls>>
MpNext == Write \/ Read
MpSpec == MpInit /\ [][MpNext]_mpVars

-----------------------------------------------------------------------------
Fits(v, f) ==
    CASE f \in {"char", "short", "int", "long"} ->
            v \in Lowest(CWidth(f))..(Greatest(CWidth(f)) \div 2)
      [] f \in {"uchar", "ushort", "uint", "ulong"} -> v \in 0..Greatest(CWidth(f))

(* Whatever sequence of objects was written, a reader that answers true    *)
(* returns the number or length written in that place, and all of the      *)
(* buffer has been read when the last object has (cmp_read_object against  *)
(* the writers, be16 .. be64, lib/cmp.c).                                  *)
WrittenIsRead ==
    /\ \A i \in DOMAIN reads : reads[i].ok => reads[i].val = calls[i].arg
    /\ Len(reads) = Len(calls) /\ (\A i \in DOMAIN reads : reads[i].ok) => at = Len(buf) + 1

(* A number written in its shortest form is taken by exactly the C types   *)
(* that can hold it: neither is a value refused at a border of two forms,  *)
(* nor one cut off; and what a predicate calls a type, its reader takes    *)
(* (cmp_write_integer against cmp_read_char .. ulong, cmp_object_is_char   *)
(* ..).                                                                    *)
ReadersTakeWhatFits ==
    \A i \in DOMAIN reads :
        /\ calls[i].fn \in {"integer", "uinteger"} /\ reads[i].fn \in CInts
              => reads[i].ok = Fits(calls[i].arg, reads[i].fn)
        /\ reads[i].is => reads[i].ok
=============================================================================
