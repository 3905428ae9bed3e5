------------------------------ MODULE Toolbox ------------------------------
(***************************************************************************)
(* The functions of the toolbox, which format the tables of all nodes and  *)
(* convert what is read from registers and chips.  They have no state: a   *)
(* call is one step.  A text is represented by what a property needs: the  *)
(* width of a line, the ranges of a list, the numbers in it.               *)
(***************************************************************************)
EXTENDS NodeCalls, FiniteSetsExt

CONSTANTS
  Width,     \* one more than an element of a list holds, 2^32 in the code
  Mantissa,  \* the bits of the mantissa of a number, 23 or 52 in the code
  Exponent   \* the bits of its exponent, 8 or 11 in the code

VARIABLE result  \* what the call returned

ToolInit == result = <<>>

Wider(a, b) == IF a > b THEN a ELSE b
Widest(widths, least) == FoldSet(Wider, least, {widths[i] : i \in DOMAIN widths})

(* The width of a number in decimal, and in hexadecimal with its prefix.   *)
Digits(v, base, most) == 1 + Cardinality({i \in 1 .. most : base ^ i <= v})
format_reg_value(v, base) == IF base = 16 THEN 2 + Digits(v, 16, 7) ELSE Digits(v, 10, 9)

(* How wide a text of width n comes out in a column: it is never cut.      *)
InColumn(n, width) == Wider(n, width)

-----------------------------------------------------------------------------
(* format_reg_table, of pairs of widths: the width of each of its lines.   *)
RegRow(row, reg, val) == InColumn(row[1], reg) + InColumn(row[2], val) + 7

format_reg_table(rows, title, headers) ==
  LET reg == Widest([i \in DOMAIN rows |-> rows[i][1]], headers[1])
      val == Wider(Widest([i \in DOMAIN rows |-> rows[i][2]], 3), headers[2])
  IN  [title |-> title, width |-> 7 + reg + val,
       lines |-> {7 + reg + val, RegRow(headers, reg, val)}
                   \cup {RegRow(rows[i], reg, val) : i \in DOMAIN rows}]

(* Mutant of TitleSize: an odd width is left odd.                          *)
TitleSizeOdd(title, dec, hex) == IF title > dec + hex + 3 THEN title ELSE dec + hex + 3

(* The width of a pair of columns under a title of some width: that of the *)
(* title, made such that the columns share it evenly, if it is wider.      *)
TitleSize(title, dec, hex) ==
  IF title > dec + hex + 3 THEN title + ((title - 3) % 2) ELSE dec + hex + 3

(* format_counters_table, of lists of counters with titles and labels of   *)
(* some widths: how it ends, and the width of each of its lines.           *)
Columns(counters, title) ==
  LET dec == Widest([i \in DOMAIN counters |-> format_reg_value(counters[i], 10)], 5)
      hex == Widest([i \in DOMAIN counters |-> format_reg_value(counters[i], 16)], 5)
      half == (TitleSize(title, dec, hex) - 3) \div 2
  IN  IF title > dec + hex + 3 THEN [title |-> title, size |-> TitleSize(title, dec, hex), dec |-> half, hex |-> half]
      ELSE [title |-> title, size |-> dec + hex + 3, dec |-> dec, hex |-> hex]

SumOver(f) == MapThenSumSet(LAMBDA i : f[i], DOMAIN f)

CountersRow(cols, label, counters, i) ==
  label + 4 + SumOver([j \in DOMAIN cols |->
                         InColumn(format_reg_value(counters[j][i], 10), cols[j].dec)
                         + InColumn(format_reg_value(counters[j][i], 16), cols[j].hex) + 6])

format_counters_table(counters, titles, labels, header) ==
  LET used == IF titles = <<>> THEN [j \in DOMAIN counters |-> 8] ELSE titles
      cols == [j \in DOMAIN counters |-> Columns(counters[j], used[j])]
      label == Wider(Widest(labels, 0), header)
  IN  IF titles # <<>> /\ Len(titles) # Len(counters)
      THEN [fate |-> "FormatCountersTableNodesTitlesMismatch"]
      ELSE IF \E j \in DOMAIN counters : Len(counters[j]) < Len(labels)
      THEN [fate |-> "out_of_range"]
      ELSE [fate |-> "ok",
            width |-> 4 + (3 * Len(counters)) + label + SumOver([j \in DOMAIN cols |-> cols[j].size]),
            lines |->
              { 4 + label + SumOver([j \in DOMAIN cols |-> InColumn(cols[j].title, cols[j].size) + 3]),
                4 + label + SumOver([j \in DOMAIN cols |-> cols[j].size + 3]),
                4 + label + SumOver([j \in DOMAIN cols |-> cols[j].dec + cols[j].hex + 6]) }
              \cup {CountersRow(cols, label, counters, i) : i \in DOMAIN labels}]

-----------------------------------------------------------------------------
(* Lists.  short_vec_fmt writes runs of successive numbers as ranges; the  *)
(* successor of the largest number is 0.                                   *)
short_vec_fmt(vec) ==
  LET ranges[i \in 0 .. Len(vec)] ==
        IF i = 0 THEN <<>>
        ELSE LET before == ranges[i - 1]
             IN  IF i > 1 /\ vec[i] = (vec[i - 1] + 1) % Width
                 THEN [before EXCEPT ![Len(before)] = <<@[1], vec[i]>>]
                 ELSE Append(before, <<vec[i], vec[i]>>)
  IN  ranges[Len(vec)]

(* vec_fmt writes a comma after each element and the closing bracket over  *)
(* the last character, which for an empty list is the opening bracket.     *)
vec_fmt(vec) ==
  LET upTo[i \in 0 .. Len(vec)] == IF i = 0 THEN <<"[">> ELSE upTo[i - 1] \o <<vec[i], ",">>
      text == upTo[Len(vec)]
  IN  [text EXCEPT ![Len(text)] = "]"]

join(strings, delimiter) ==
  LET upTo[i \in 0 .. Len(strings)] ==
        IF i = 0 THEN <<>>
        ELSE (IF i = 1 THEN <<>> ELSE Append(upTo[i - 1], delimiter)) \o <<strings[i]>>
  IN  upTo[Len(strings)]

(* sanitize sorts, and removes duplicates that follow each other.          *)
Sorted(vec) ==
  CHOOSE p \in [DOMAIN vec -> {vec[i] : i \in DOMAIN vec}] :
    /\ \A i, j \in DOMAIN vec : i < j => p[i] <= p[j]
    /\ \A v \in {vec[i] : i \in DOMAIN vec} :
         Cardinality({i \in DOMAIN vec : vec[i] = v}) = Cardinality({i \in DOMAIN vec : p[i] = v})

sanitize(vec) ==
  LET s == Sorted(vec)
      upTo[i \in 0 .. Len(s)] ==
        IF i = 0 THEN <<>>
        ELSE IF i > 1 /\ s[i] = s[i - 1] THEN upTo[i - 1] ELSE Append(upTo[i - 1], s[i])
  IN  upTo[Len(s)]

-----------------------------------------------------------------------------
(* Numbers.  dec_rng takes nbits bits from bit ibit on.                    *)
dec_rng(word, ibit, nbits) == (word \div 2 ^ ibit) % 2 ^ nbits

(* convert_bits_to_float: the mantissa bit by bit, with a leading 1 unless *)
(* the exponent is 0, which stands for 1 then.  The value is in units of   *)
(* the smallest mantissa times the smallest exponent, its half.  There are *)
(* no infinities: the largest exponent is one like the others.             *)
MantissaBits(bits) ==
  MapThenSumSet(LAMBDA i : ((bits \div 2 ^ (Mantissa - i - 1)) % 2) * 2 ^ (Mantissa - i - 1),
                0 .. Mantissa - 1)

convert_bits_to_float(bits) ==
  LET sign == (bits \div 2 ^ (Mantissa + Exponent)) % 2
      exponent == (bits \div 2 ^ Mantissa) % 2 ^ Exponent
      value == IF exponent = 0 THEN 2 * MantissaBits(bits)
               ELSE (MantissaBits(bits) + 2 ^ Mantissa) * 2 ^ exponent
  IN  IF sign = 1 THEN -value ELSE value

(* locate: where x lies in a sorted table, by bisection between 0 and n+1. *)
Bisect(xx, x) ==
  LET ascending == xx[Len(xx)] >= xx[1]
      between[l \in 0 .. Len(xx), u \in 1 .. Len(xx) + 1] ==
        IF u - l <= 1 THEN l
        ELSE LET m == (u + l) \div 2
             IN  IF (x >= xx[m]) = ascending THEN between[m, u] ELSE between[l, m]
  IN  between[0, Len(xx) + 1]

locate(xx, x) ==
  IF x = xx[1] THEN 1 ELSE IF x = xx[Len(xx)] THEN Len(xx) - 1 ELSE Bisect(xx, x)

-----------------------------------------------------------------------------
Returned(r) ==
  CASE r.op = "format_reg_table"      -> format_reg_table(r.rows, r.title, r.headers)
    [] r.op = "format_counters_table" -> format_counters_table(r.counters, r.titles, r.labels, r.header)
    [] r.op = "lists"   -> [short |-> short_vec_fmt(r.vec), long |-> vec_fmt(r.vec),
                            joined |-> join(r.vec, ","), sane |-> sanitize(r.vec)]
    [] r.op = "dec_rng" -> dec_rng(r.word, r.ibit, r.nbits)
    [] r.op = "convert_bits_to_float" -> convert_bits_to_float(r.bits)
    [] r.op = "locate"  -> locate(r.xx, r.x)

(* The functions have no state, so one call shows all they do.             *)
ToolCall(c, r) ==
  /\ node = "tool"
  /\ asks[c] \in {NoCall, r} /\ \A d \in Callers \ {c} : asks[d] = NoCall
  /\ Begin(c, r, "tool")
  /\ result' = <<>>

ToolReturns(c) ==
  /\ at[c] = "tool"
  /\ result' = Returned(asks[c])
  /\ GoOn(c, "idle")

ToolNext == \E c \in Callers : (\E r \in Asks[node][c] : ToolCall(c, r)) \/ ToolReturns(c)

-----------------------------------------------------------------------------
(* Every line of a table is as wide as the others, whatever the widths of  *)
(* titles, labels and counters; a title may be wider than its table.       *)
LinesUp(r) ==
  /\ r.op = "format_reg_table" => result.lines = {result.width}
  /\ r.op = "format_counters_table" /\ result.fate = "ok" => result.lines = {result.width}

(* The ranges of short_vec_fmt, spelled out.                               *)
SpelledOut(ranges) ==
  LET length(p) == 1 + ((p[2] - p[1]) % Width)
      upTo[i \in 0 .. Len(ranges)] ==
        IF i = 0 THEN <<>>
        ELSE upTo[i - 1] \o [k \in 1 .. length(ranges[i]) |-> (ranges[i][1] + k - 1) % Width]
  IN  upTo[Len(ranges)]

(* A list reads back from each of its forms, except the empty one from     *)
(* vec_fmt; a sane one holds the same numbers, each once, in order.        *)
ListsReadBack(r) ==
  r.op = "lists" =>
    /\ SpelledOut(result.short) = r.vec
    /\ r.vec # <<>> =>
         result.long = <<"[">> \o result.joined \o <<"]">>
    /\ {result.sane[i] : i \in DOMAIN result.sane} = {r.vec[i] : i \in DOMAIN r.vec}
    /\ \A i, j \in DOMAIN result.sane : i < j => result.sane[i] < result.sane[j]

(* The bits below, of and above a range make up the word; numbers of one   *)
(* sign are in the order of their bits, without gaps where the exponent    *)
(* becomes 0; and the place that locate returns has x between its          *)
(* neighbours.                                                             *)
NumbersReadBack(r) ==
  /\ r.op = "dec_rng" =>
       r.word = (r.word % 2 ^ r.ibit) + (result * 2 ^ r.ibit)
                + ((r.word \div 2 ^ (r.ibit + r.nbits)) * 2 ^ (r.ibit + r.nbits))
  /\ r.op = "convert_bits_to_float" /\ r.bits % 2 ^ Mantissa > 0 =>
       LET step == result - convert_bits_to_float(r.bits - 1)
           exponent == (r.bits \div 2 ^ Mantissa) % 2 ^ Exponent
           sign == IF r.bits >= 2 ^ (Mantissa + Exponent) THEN -1 ELSE 1
       IN  step = sign * 2 ^ Wider(exponent, 1)
  /\ r.op = "locate" =>
       LET n == Len(r.xx)
           before(i) == IF r.xx[n] >= r.xx[1] THEN r.xx[i] <= r.x ELSE r.xx[i] >= r.x
           after(i) == IF r.xx[n] >= r.xx[1] THEN r.xx[i] >= r.x ELSE r.xx[i] <= r.x
       IN  /\ result \in 1 .. n => before(result)
           /\ result + 1 \in 1 .. n => after(result + 1)

(* What the toolbox returns says what was meant: tables line up, lists and *)
(* numbers read back.                                                      *)
ShownAsMeant ==
  \A c \in Callers :
    at[c] = "idle" /\ node = "tool" =>
      LinesUp(asks[c]) /\ ListsReadBack(asks[c]) /\ NumbersReadBack(asks[c])
=============================================================================
