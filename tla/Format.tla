-------------------------------- MODULE Format --------------------------------
(***************************************************************************)
(* npf_vsnprintf (src/include/lib/nanoprintf.h) as src/lib/string.c builds *)
(* it: field width, precision, small and binary formats, %n and '#'; no    *)
(* floats and no long long.  A format is a sequence of characters, an      *)
(* argument a number, a string or NULL; a number is IntBits wide whether   *)
(* it is an int, a long or a pointer.                                      *)
(*                                                                         *)
(* A step is a turn of npf_vpprintf's loop: it writes a character of the   *)
(* format or converts one argument.                                        *)
(***************************************************************************)
EXTENDS Integers, Sequences, SequencesExt, FiniteSetsExt

CONSTANTS
    IntBits, ShortBits, CharBits, \* the widths of the three kinds of number
    Character, \* what texts are made of; the NUL that ends them is not one
    Calls   \* [items, tail, bufsz, buffer]: the directives of a format with
            \* their arguments, what follows them, and the buffer, if any

ASSUME WidthsAssumption ==
    /\ IntBits \in Nat /\ ShortBits \in Nat /\ CharBits \in Nat
    /\ 0 < CharBits /\ CharBits <= ShortBits /\ ShortBits <= IntBits
    /\ IntBits % 4 = 0

VARIABLES
    call,    \* the call
    cur,     \* index into the format
    args,    \* the arguments not yet extracted
    out,     \* what is written: characters in the buffer, and the count n
    stored,  \* what %n has stored
    done

vars == <<call, cur, args, out, stored, done>>

NUL  == "nul"
NULL == <<"NULL">>

\* An argument: a number, or a string that may be NULL.
Num(n) == [num |-> n, str |-> <<>>]
Str(s) == [num |-> 0, str |-> s]

Digits == <<"0", "1", "2", "3", "4", "5", "6", "7", "8", "9",
            "a", "b", "c", "d", "e", "f">>
UpperDigits == SubSeq(Digits, 1, 10) \o <<"A", "B", "C", "D", "E", "F">>
Decimal == ToSet(SubSeq(Digits, 1, 10))
------------------------------------------------------------------------------
(* npf_parse_format_spec. *)

Char(f, i) == IF i <= Len(f) THEN f[i] ELSE NUL

\* The first index from i on whose character is not in S.
Past(f, i, S) == CHOOSE j \in i .. Len(f) + 1 :
                     /\ Char(f, j) \notin S
                     /\ \A k \in i .. j - 1 : Char(f, k) \in S

Number(s) ==
    LET digit(c) == CHOOSE d \in 0 .. 9 : Digits[d + 1] = c
        value[k \in 0 .. Len(s)] ==
            IF k = 0 THEN 0 ELSE 10 * value[k - 1] + digit(s[k])
    IN  value[Len(s)]

\* '+' counts more than ' '.
Prepend(flags) == IF Contains(flags, "+") THEN "+"
                  ELSE IF Contains(flags, " ") THEN " " ELSE NUL

\* A field width or precision at index i: where it ends, what kind it is.
Amount(f, i) ==
    IF Char(f, i) = "*" THEN [next |-> i + 1, opt |-> "STAR", n |-> 0]
    ELSE LET next == Past(f, i, Decimal)
         IN  [next |-> next, opt |-> IF next = i THEN "NONE" ELSE "LITERAL",
              n |-> Number(SubSeq(f, i, next - 1))]

\* A '.' alone is a precision of 0, and one below zero is none.
Precision(f, i) ==
    IF Char(f, i) # "." THEN [next |-> i, opt |-> "NONE", n |-> 0]
    ELSE IF Char(f, i + 1) = "-" THEN [Amount(f, i + 2) EXCEPT !.opt = "NONE"]
    ELSE [Amount(f, i + 1) EXCEPT !.opt = IF @ = "STAR" THEN @ ELSE "LITERAL"]

LengthModifier(f, i) ==
    IF Char(f, i) = "l" THEN <<"l">>
    ELSE IF Char(f, i) # "h" THEN <<>>
    ELSE IF Char(f, i + 1) = "h" THEN <<"h", "h">> ELSE <<"h">>

FlagChars   == {"-", "0", "+", " ", "#"}
Conversions == {"%", "c", "s", "i", "d", "o", "u", "x", "X", "n", "p", "b", "B"}

ASSUME CharacterAssumption ==
    /\ NUL \notin Character
    /\ ToSet(UpperDigits) \cup ToSet(Digits) \cup FlagChars \cup Conversions
           \subseteq Character

\* The conversion at index i, a '%', and where the format goes on.
npf_parse_format_spec(f, i) ==
    LET flagsEnd == Past(f, i + 1, FlagChars)
        flags    == SubSeq(f, i + 1, flagsEnd - 1)
        width    == Amount(f, flagsEnd)
        prec     == Precision(f, width.next)
        len      == LengthModifier(f, prec.next)
        conv     == Char(f, prec.next + Len(len))
    IN  [ok |-> conv \in Conversions, next |-> prec.next + Len(len) + 1,
         left_justified |-> Contains(flags, "-"),
         leading_zero_pad |-> Contains(flags, "0"),
         prepend |-> Prepend(flags), alt_form |-> Contains(flags, "#"),
         field_width |-> width.n, field_width_opt |-> width.opt,
         prec |-> prec.n, prec_opt |-> prec.opt, length_modifier |-> len,
         conv_spec |-> IF conv = "i" THEN "d" ELSE conv]
------------------------------------------------------------------------------
(* The conversion of one argument. *)

\* Takes the arguments a '*' stands for: the width, then the precision.
StarWidth(r) ==
    IF r.fs.field_width_opt # "STAR" THEN r
    ELSE LET w == Head(r.args).num
         IN  [args |-> Tail(r.args),
              fs |-> [r.fs EXCEPT !.field_width = IF w < 0 THEN -w ELSE w,
                                  !.left_justified = @ \/ w < 0]]

StarPrecision(r) ==
    IF r.fs.prec_opt # "STAR" THEN r
    ELSE LET p == Head(r.args).num
         IN  [args |-> Tail(r.args),
              fs |-> [r.fs EXCEPT !.prec = IF p < 0 THEN 0 ELSE p,
                                  !.prec_opt = IF p < 0 THEN "NONE" ELSE @]]

\* A pointer has all its digits.
DefaultPrecision(fs) ==
    IF fs.prec_opt = "NONE" /\ fs.conv_spec = "p"
    THEN [fs EXCEPT !.prec = (IntBits + 3) \div 4] ELSE fs

\* Mutant: the '0' flag counts beside a precision as well.
IgnoreZeroFlag_Never(fs) == fs

IgnoreZeroFlag(fs) ==
    IF fs.prec_opt # "NONE" /\ fs.conv_spec \in {"d", "o", "x", "X", "u"}
    THEN [fs EXCEPT !.leading_zero_pad = FALSE] ELSE fs

Completed(r) == [r EXCEPT !.fs = IgnoreZeroFlag(DefaultPrecision(@))]

\* (type) v, for the length modifier; the argument was passed as an int.
Bits(len) == CASE len = <<"h", "h">> -> CharBits
               [] len = <<"h">>      -> ShortBits
               [] OTHER              -> IntBits
Unsigned(v, bits) == v % 2^bits
Signed(v, bits) == IF v % 2^bits < 2^(bits - 1) THEN v % 2^bits
                   ELSE (v % 2^bits) - 2^bits

\* The digits of a number, the last one first.
npf_utoa_rev(val, base, upper) ==
    LET digit(d) == IF upper THEN UpperDigits[d + 1] ELSE Digits[d + 1]
        rev[v \in 0 .. val] == <<digit(v % base)>>
                               \o IF v < base THEN <<>> ELSE rev[v \div base]
    IN  rev[val]

IsNumber(fs) == fs.conv_spec \in {"d", "o", "u", "x", "X", "b", "B", "p"}
Upper(fs)    == fs.conv_spec \in {"X", "B"}
Base(fs) == CASE fs.conv_spec \in {"b", "B"} -> 2
              [] fs.conv_spec = "o" -> 8
              [] fs.conv_spec \in {"u", "d"} -> 10
              [] OTHER -> 16

\* A pointer is extracted whole, whatever the length modifier.
Width(fs) == IF fs.conv_spec = "p" THEN IntBits ELSE Bits(fs.length_modifier)
Value(fs, arg) == IF fs.conv_spec = "d" THEN Signed(arg.num, Width(fs))
                  ELSE Unsigned(arg.num, Width(fs))

\* The value 0 with a precision of 0 has no digits, but for "%#.0o".
Nothing(fs, val) == val = 0 /\ fs.prec_opt # "NONE" /\ fs.prec = 0

\* The argument as text, the other way round for a number.
cbuf(fs, arg) ==
    CASE fs.conv_spec = "%" -> <<"%">>
      [] fs.conv_spec = "c" -> arg.str
      [] fs.conv_spec = "s" ->
             IF arg.str = NULL THEN <<>>
             ELSE IF fs.prec_opt = "NONE" THEN arg.str
             ELSE SubSeq(arg.str, 1, Min({fs.prec, Len(arg.str)}))
      [] fs.conv_spec = "n" -> <<>>
      [] IsNumber(fs) ->
             LET val == Value(fs, arg)
             IN  IF Nothing(fs, val) THEN <<>>
                 ELSE npf_utoa_rev(IF val < 0 THEN Unsigned(-val, IntBits) ELSE val,
                                   Base(fs), Upper(fs))
                      \o IF val # 0 /\ fs.alt_form /\ fs.conv_spec = "o"
                         THEN <<"0">> ELSE <<>>

sign_c(fs, arg) ==
    IF fs.conv_spec # "d" THEN <<>>
    ELSE IF Value(fs, arg) < 0 THEN <<"-">>
    ELSE IF fs.prepend = NUL THEN <<>> ELSE <<fs.prepend>>

need_0x(fs, arg) ==
    IF ~(fs.alt_form /\ IsNumber(fs) /\ Value(fs, arg) # 0) THEN <<>>
    ELSE CASE fs.conv_spec \in {"x", "p"} -> <<"0", "x">>
           [] fs.conv_spec \in {"X", "b", "B"} -> <<"0", fs.conv_spec>>
           [] OTHER -> <<>>

\* The digits a precision asks for beyond the ones there are.
prec_pad(fs, arg) ==
    LET octal == /\ fs.conv_spec = "o" /\ fs.alt_form
                 /\ Nothing(fs, Value(fs, arg))
    IN  IF fs.conv_spec = "s" THEN 0
        ELSE Max({0, (IF octal THEN 1 ELSE fs.prec) - Len(cbuf(fs, arg))})

pad_c(fs, arg) ==
    IF /\ fs.leading_zero_pad /\ ~fs.left_justified
       /\ ~(IsNumber(fs) /\ Nothing(fs, Value(fs, arg)))
    THEN "0" ELSE " "

\* The room the field leaves; without a width there is none.
field_pad(fs, arg) ==
    IF fs.field_width_opt = "NONE" THEN 0
    ELSE Max({0, fs.field_width - Len(cbuf(fs, arg)) - Len(sign_c(fs, arg))
                     - Len(need_0x(fs, arg)) - prec_pad(fs, arg)})

Times(n, c) == [i \in 1 .. n |-> c]

\* Zeros for the width go behind the sign and the prefix, spaces before them.
Converted(fs, arg) ==
    LET prefix  == sign_c(fs, arg) \o need_0x(fs, arg)
        payload == Times(prec_pad(fs, arg), "0")
                   \o IF IsNumber(fs) THEN Reverse(cbuf(fs, arg))
                      ELSE cbuf(fs, arg)
        pad     == Times(field_pad(fs, arg), pad_c(fs, arg))
    IN  IF fs.left_justified THEN prefix \o payload \o pad
        ELSE IF pad_c(fs, arg) = "0" THEN prefix \o pad \o payload
        ELSE pad \o prefix \o payload
------------------------------------------------------------------------------
(* npf_vpprintf and npf_vsnprintf. *)

Has(item, flag) == Contains(item.flags, flag)

\* A directive as it is written, and the arguments passed for it; the
\* characters in front of it are not its own.
DecimalText(n) == IF n < 10 THEN <<Digits[n + 1]>>
                  ELSE <<Digits[n \div 10 + 1], Digits[(n % 10) + 1]>>
AmountText(amount) == CASE amount.kind = "star"    -> <<"*">>
                        [] amount.kind = "literal" -> DecimalText(amount.n)
                        [] OTHER                   -> <<>>
Dot(amount)   == IF amount.kind = "none" THEN <<>> ELSE <<".">>
Spelled(item) == <<"%">> \o (item.flags \o (AmountText(item.width)
                 \o (Dot(item.prec) \o (AmountText(item.prec)
                 \o (item.len \o <<item.conv>>)))))
Text(item)    == item.before \o Spelled(item)
StarPassed(amount) == IF amount.kind = "star" THEN <<Num(amount.n)>> ELSE <<>>
Passed(item) == StarPassed(item.width) \o StarPassed(item.prec) \o item.arg

Amount_ == [kind : {"none"}, n : {0}] \cup [kind : {"literal"}, n : 0 .. 99]
             \cup [kind : {"star"}, n : Int]
NumArg  == [num : Int, str : {<<>>}]
TextArg == [num : {0}, str : Seq(Character) \cup {NULL}]

\* A '%' that begins no directive.
Lone(s, i) ==
    i < Len(s) => s[i + 1] \notin FlagChars \cup Decimal \cup Conversions
                                  \cup {"*", ".", "h", "l"}

\* A directive C or nanoprintf defines, with its argument.
Directive(item) ==
    /\ item.before \in Seq(Character)
    /\ \A i \in 1 .. Len(item.before) :
           item.before[i] = "%" => i < Len(item.before) /\ Lone(item.before, i)
    /\ item.flags \in Seq(FlagChars)
    /\ item.width \in Amount_ /\ (item.width.kind = "literal" => item.width.n > 0)
    /\ item.prec \in Amount_
    /\ item.len \in {<<>>, <<"l">>, <<"h">>, <<"h", "h">>}
    /\ item.conv \in Conversions
    /\ item.conv = "p" => item.len = <<>>
    /\ item.conv \in {"%", "n"} =>
           item.arg = <<>> /\ item.flags = <<>> /\ item.width.kind = "none"
    /\ item.conv \in {"c", "s"} =>
           /\ item.arg \in Seq(TextArg) /\ Len(item.arg) = 1
           /\ item.flags \in Seq({"-"})
    /\ item.conv = "c" => item.arg[1].str # NULL /\ Len(item.arg[1].str) = 1
    /\ item.conv \notin {"%", "n", "c", "s"} =>
           item.arg \in Seq(NumArg) /\ Len(item.arg) = 1
    /\ item.conv \in {"%", "n", "c", "p", "b", "B"} => item.prec.kind = "none"

\* A call of npf_vsnprintf with as many arguments as its format asks for.
Formed(c) ==
    /\ c.items \in Seq({c.items[i] : i \in DOMAIN c.items})
    /\ \A i \in DOMAIN c.items : Directive(c.items[i])
    /\ c.tail \in Seq(Character)
    /\ \A i \in 1 .. Len(c.tail) : c.tail[i] = "%" => Lone(c.tail, i)
    /\ c.bufsz \in Nat /\ c.buffer \in BOOLEAN

ASSUME CallsAssumption == \A c \in Calls : Formed(c)

Joined(items, Part(_)) == FlattenSeq([i \in DOMAIN items |-> Part(items[i])])
format == Joined(call.items, Text) \o call.tail

Room == IF call.buffer THEN call.bufsz ELSE 0

\* npf_putc_cnt with npf_bufputc: characters that find no room are counted.
Put(o, text) ==
    [dst |-> o.dst \o SubSeq(text, 1, Min({Len(text), Room - Len(o.dst)})),
     n   |-> o.n + Len(text)]

Init ==
    /\ call \in Calls
    /\ cur = 1 /\ args = Joined(call.items, Passed) /\ done = FALSE
    /\ out = [dst |-> <<>>, n |-> 0] /\ stored = <<>>

AtDirective == /\ Char(format, cur) = "%"
               /\ npf_parse_format_spec(format, cur).ok

Literal ==
    /\ cur <= Len(format) /\ ~AtDirective
    /\ out' = Put(out, <<format[cur]>>)
    /\ cur' = cur + 1
    /\ UNCHANGED <<call, args, stored, done>>

Convert ==
    /\ cur <= Len(format) /\ AtDirective
    /\ LET fs  == npf_parse_format_spec(format, cur)
           r   == Completed(StarPrecision(StarWidth([fs |-> fs, args |-> args])))
           arg == IF fs.conv_spec \in {"%", "n"} THEN Num(0) ELSE Head(r.args)
       IN  /\ cur' = fs.next
           /\ args' = IF fs.conv_spec \in {"%", "n"} THEN r.args
                      ELSE Tail(r.args)
           /\ out' = Put(out, Converted(r.fs, arg))
           /\ stored' = IF fs.conv_spec = "n"
                        THEN Append(stored, Signed(out.n, Bits(fs.length_modifier)))
                        ELSE stored
    /\ UNCHANGED <<call, done>>

\* Mutant: the NUL of a string that is too long goes behind the buffer.
Terminated_Behind(o) == Append(o.dst, NUL)

\* The NUL goes behind the text or to the last place of the buffer.
Terminated(o) == IF Room = 0 THEN o.dst
                 ELSE Append(SubSeq(o.dst, 1, Min({o.n, Room - 1})), NUL)

Return ==
    /\ cur > Len(format) /\ ~done
    /\ out' = [out EXCEPT !.dst = Terminated(out)]
    /\ done' = TRUE
    /\ UNCHANGED <<call, cur, args, stored>>

Next == Literal \/ Convert \/ Return

Spec == Init /\ [][Next]_vars
------------------------------------------------------------------------------
(* What the C standard says of the directives it defines, and the comments *)
(* of nanoprintf of the rest.                                              *)

Given(amount)   == amount.kind \notin {"none"} /\ amount.n >= 0
Left(item)      == Has(item, "-") \/ item.width.n < 0
SignedNum(item) == item.conv \in {"d", "i"}
Numeric(item)   == item.conv \notin {"%", "c", "s", "n"}

Number_(item) == IF SignedNum(item) THEN Signed(item.arg[1].num, Bits(item.len))
                 ELSE Unsigned(item.arg[1].num, Bits(item.len))
Magnitude(n)  == IF n < 0 THEN -n ELSE n
BaseOf(item)  == CASE item.conv \in {"d", "i", "u"} -> 10
                   [] item.conv = "o" -> 8
                   [] item.conv \in {"b", "B"} -> 2
                   [] OTHER -> 16

Power(base, n) ==
    LET power[k \in 0 .. n] == IF k = 0 THEN 1 ELSE base * power[k - 1]
    IN  power[n]

\* At least as many digits as the precision says, 1 by default, for a pointer
\* all it has; '#' makes the first digit of an octal number a zero.
DigitsOf(item) ==
    LET v      == Magnitude(Number_(item))
        base   == BaseOf(item)
        own    == Cardinality({n \in 0 .. IntBits - 1 : Power(base, n) <= v})
        least  == IF Given(item.prec) THEN item.prec.n
                  ELSE IF item.conv = "p" THEN IntBits \div 4 ELSE 1
        count  == Max({own, least})
        table  == IF item.conv = "X" THEN UpperDigits ELSE Digits
        text   == [i \in 1 .. count |->
                      table[((v \div Power(base, count - i)) % base) + 1]]
    IN  IF item.conv = "o" /\ Has(item, "#") /\ (text = <<>> \/ text[1] # "0")
        THEN <<"0">> \o text ELSE text

Prefix(item) ==
    IF SignedNum(item)
    THEN IF Number_(item) < 0 THEN <<"-">>
         ELSE IF Has(item, "+") THEN <<"+">>
         ELSE IF Has(item, " ") THEN <<" ">> ELSE <<>>
    ELSE IF ~Has(item, "#") \/ Number_(item) = 0 \/ item.conv \in {"o", "u"}
    THEN <<>>
    ELSE <<"0", IF item.conv = "p" THEN "x" ELSE item.conv>>

Body(item) ==
    CASE item.conv = "%" -> <<"%">>
      [] item.conv = "c" -> item.arg[1].str
      [] item.conv = "n" -> <<>>
      [] item.conv = "s" ->
             IF item.arg[1].str = NULL THEN <<>>
             ELSE IF Given(item.prec)
             THEN SubSeq(item.arg[1].str, 1,
                         Min({item.prec.n, Len(item.arg[1].str)}))
             ELSE item.arg[1].str
      [] OTHER -> DigitsOf(item)

Field(item) ==
    LET prefix == IF Numeric(item) THEN Prefix(item) ELSE <<>>
        pad    == Max({0, Magnitude(item.width.n)
                              - Len(prefix) - Len(Body(item))})
    IN  IF Left(item) THEN prefix \o Body(item) \o Times(pad, " ")
        ELSE IF Has(item, "0") /\ Numeric(item) /\ ~Given(item.prec)
        THEN prefix \o Times(pad, "0") \o Body(item)
        ELSE Times(pad, " ") \o prefix \o Body(item)

Meant(item) == item.before \o Field(item)

Whole == Joined(call.items, Meant) \o call.tail
------------------------------------------------------------------------------
(* Properties. *)

\* The string in the buffer is the beginning of what the directives mean, the
\* whole of it when it fits (nanoprintf.h:952-1314).
FormatsAsC ==
    done /\ Room > 0 =>
        Front(out.dst) = SubSeq(Whole, 1, Min({Room - 1, Len(Whole)}))

\* What the kth directive stores.
Stored(k) ==
    IF call.items[k].conv # "n" THEN <<>>
    ELSE <<Signed(Len(Joined(SubSeq(call.items, 1, k), Meant)),
                  Bits(call.items[k].len))>>

\* What is returned is the length of the whole text, fit or not, and %n stores
\* the length of the text before it in a number of the width it is asked for
\* (nanoprintf.h:918-938, 1153-1170, 1339).
CountsWhole ==
    done =>
        /\ out.n = Len(Whole)
        /\ stored = FlattenSeq([k \in DOMAIN call.items |-> Stored(k)])

\* No character is ever put behind the buffer, and a buffer that has room for
\* one holds a string in the end (nanoprintf.h:911-916, 1331-1337).
StaysInBuffer ==
    /\ Len(out.dst) <= Room
    /\ done /\ Room > 0 => Last(out.dst) = NUL /\ ~Contains(Front(out.dst), NUL)

Behind(k) == Len(Joined(SubSeq(call.items, 1, k), Text))

\* A directive is understood as it was written, the stars not looked up yet,
\* and the loop goes on right behind it (nanoprintf.h:407-571).
ParserFindsSpec ==
    \A k \in DOMAIN call.items :
        LET item == call.items[k]
            fs   == npf_parse_format_spec(format, cur)
            Is(amount, n, opt) == /\ amount.kind = "star" <=> opt = "STAR"
                                  /\ amount.kind = "none" <=> opt = "NONE"
                                  /\ amount.kind = "literal" => n = amount.n
        IN  cur = Behind(k - 1) + Len(item.before) + 1 =>
                /\ fs.ok /\ fs.next = Behind(k) + 1
                /\ fs.left_justified <=> Has(item, "-")
                /\ fs.leading_zero_pad <=> Has(item, "0")
                /\ fs.alt_form <=> Has(item, "#")
                /\ fs.prepend = "+" <=> Has(item, "+")
                /\ fs.prepend = " " <=> Has(item, " ") /\ ~Has(item, "+")
                /\ Is(item.width, fs.field_width, fs.field_width_opt)
                /\ Is(item.prec, fs.prec, fs.prec_opt)

\* A format is understood, its text is what C says it means and its length is
\* counted whole (nanoprintf.h:407-571, 918-1314, 1339).
FormatterAsC == ParserFindsSpec /\ FormatsAsC /\ CountsWhole
==============================================================================
