------------------------------ MODULE DriversProofs -----------------------------
(***************************************************************************)
(* Proofs about the units that MCDrivers checks side by side and that have *)
(* no module of proofs of their own.  Each section is about one of them    *)
(* and its own specification: the units share no variable.                 *)
(***************************************************************************)
EXTENDS CanDriver, EventList, Tm1668, Modbus, UniBus, SequenceTheorems,
        FiniteSetTheorems, WellFoundedInduction, TLAPS

--------------------------------------------------------------------------------
(* Natural numbers                                                         *)

Less == {ss \in Nat \X Nat : ss[1] < ss[2]}

LEMMA LessIsWellFounded == IsWellFoundedOn(Less, Nat)
BY NatLessThanWellFounded DEF OpToRel, Less

LEMMA Least ==
  ASSUME NEW T, T \subseteq Nat, T # {}
  PROVE  \E x \in T : \A y \in T : x <= y
<1>1. PICK x \in T : \A y \in T : ~ (<<y, x>> \in Less)
  BY LessIsWellFounded, WFMin
<1>2. ASSUME NEW y \in T PROVE x <= y
  <2>1. x \in Nat /\ y \in Nat /\ ~ (<<y, x>> \in Less)
    BY <1>1
  <2>2. ~ (y < x)
    BY <2>1 DEF Less
  <2>3. QED
    BY <2>1, <2>2
<1>3. QED
  BY <1>2

LEMMA Induct ==
  ASSUME NEW S, 0 \in S, \A n \in Nat : n \in S => n + 1 \in S
  PROVE  Nat \subseteq S
<1> SUFFICES ASSUME Nat \ S # {} PROVE FALSE
  OBVIOUS
<1>1. PICK x \in Nat \ S : \A y \in Nat \ S : x <= y
  BY Least
<1>2. x # 0 /\ x - 1 \in Nat
  BY <1>1
<1>3. x - 1 \in S
  BY <1>1, <1>2
<1>4. QED
  BY <1>1, <1>2, <1>3

--------------------------------------------------------------------------------
(* The TM1668 display                                                      *)

IconsAt(a) == {i \in Icons : Address(i) = a}

Chips ==
  [reg : [Addresses -> SUBSET Icons], brightness : Int,
   ram : [Addresses -> [icons : SUBSET Icons, digit : (0 .. 9) \cup {BLANK}]]]

Knowns == [on : SUBSET Icons, known : SUBSET Icons]

\* What is known of the icons is true of the shadow and of the chip, and no
\* address has icons of another.
TmHolds(c, h) ==
  /\ h.on \subseteq h.known
  /\ \A a \in Addresses : c.reg[a] \subseteq IconsAt(a) /\ c.ram[a].icons \subseteq IconsAt(a)
  /\ \A i \in h.known : /\ i \in c.reg[Address(i)] <=> i \in h.on
                        /\ i \in c.ram[Address(i)].icons <=> i \in h.on

TmInv == tm \in Chips /\ tm_last \in Knowns /\ TmHolds(tm, tm_last)

LEMMA IconHasAddress ==
  ASSUME NEW i \in Icons
  PROVE  Address(i) \in Addresses
<1>1. /\ i \in 40 .. 47 => Address(i) = 8
      /\ i \in 48 .. 55 => Address(i) = 10
      /\ i \in 56 .. 63 => Address(i) = 12
      /\ i = 64 => Address(i) = 2
      /\ i = 65 => Address(i) = 4
      /\ i = 66 => Address(i) = 6
      /\ i = 67 => Address(i) = 0
  BY DEF Address, Icons
<1>2. QED
  BY <1>1 DEF Addresses, Icons

IconSets == SUBSET Icons

\* d is c with the icons of on switched on and those of off switched off.
IsPrinted(c, d, on, off) ==
  /\ d.brightness = c.brightness
  /\ \A a \in Addresses :
       /\ d.reg[a] = (c.reg[a] \cup (on \cap IconsAt(a))) \ (off \cap IconsAt(a))
       /\ d.ram[a] = IF (on \cup off) \cap IconsAt(a) = {} THEN c.ram[a]
                     ELSE [icons |-> d.reg[a], digit |-> BLANK]

Switched(h, on, off) == [h EXCEPT !.on = (@ \cup on) \ off, !.known = @ \cup on \cup off]

\* The shadow and the memory of the chip after some icons were printed.
LEMMA PrintIconsIs ==
  ASSUME NEW c \in Chips, NEW on \in IconSets, NEW off \in IconSets
  PROVE  /\ PrintIcons(c, on, off) \in Chips
         /\ IsPrinted(c, PrintIcons(c, on, off), on, off)
<1> DEFINE d == PrintIcons(c, on, off)
           reg == [a \in Addresses |-> (c.reg[a] \cup {i \in on : Address(i) = a})
                                         \ {i \in off : Address(i) = a}]
           changed == {Address(i) : i \in on \cup off}
           ram == [a \in Addresses |->
                     IF a \in changed THEN [icons |-> reg[a], digit |-> BLANK] ELSE c.ram[a]]
<1>1. /\ c.reg \in [Addresses -> SUBSET Icons] /\ c.brightness \in Int
      /\ c.ram \in [Addresses -> [icons : SUBSET Icons, digit : (0 .. 9) \cup {BLANK}]]
  BY DEF Chips
<1>2. d = [c EXCEPT !.reg = reg, !.ram = ram]
  BY DEF PrintIcons
<1>3. reg \in [Addresses -> SUBSET Icons]
  BY <1>1 DEF IconSets
<1>4. ram \in [Addresses -> [icons : SUBSET Icons, digit : (0 .. 9) \cup {BLANK}]]
  BY <1>1, <1>3
<1>5. \A a \in Addresses :
        /\ reg[a] = (c.reg[a] \cup (on \cap IconsAt(a))) \ (off \cap IconsAt(a))
        /\ a \in changed <=> (on \cup off) \cap IconsAt(a) # {}
  <2> SUFFICES ASSUME NEW a \in Addresses
               PROVE  /\ reg[a] = (c.reg[a] \cup (on \cap IconsAt(a))) \ (off \cap IconsAt(a))
                      /\ a \in changed <=> (on \cup off) \cap IconsAt(a) # {}
    OBVIOUS
  <2>1. /\ {i \in on : Address(i) = a} = on \cap IconsAt(a)
        /\ {i \in off : Address(i) = a} = off \cap IconsAt(a)
    BY DEF IconSets, IconsAt
  <2>2. a \in changed <=> \E i \in on \cup off : Address(i) = a
    OBVIOUS
  <2>3. QED
    BY <2>1, <2>2 DEF IconSets, IconsAt
<1>6. \A a \in Addresses :
        ram[a] = IF a \in changed THEN [icons |-> reg[a], digit |-> BLANK] ELSE c.ram[a]
  OBVIOUS
<1> HIDE DEF d, reg, ram, changed
<1>7. d \in Chips /\ d.reg = reg /\ d.ram = ram /\ d.brightness = c.brightness
  BY <1>2, <1>3, <1>4 DEF Chips
<1>8. QED
  BY <1>5, <1>6, <1>7 DEF d, IsPrinted

LEMMA SameChip ==
  ASSUME NEW c \in Chips, NEW d \in Chips, c.brightness = d.brightness,
         \A a \in Addresses : c.reg[a] = d.reg[a] /\ c.ram[a] = d.ram[a]
  PROVE  c = d
<1>1. c.reg = d.reg /\ c.ram = d.ram
  BY DEF Chips
<1>2. QED
  BY <1>1 DEF Chips

\* A single icon is printed the same way, ...
LEMMA PrintIconIs ==
  ASSUME NEW c \in Chips, NEW icon \in Icons, NEW display \in BOOLEAN
  PROVE  tm1668_print_icon(c, icon, display) =
           PrintIcons(c, IF display THEN {icon} ELSE {}, IF display THEN {} ELSE {icon})
<1> DEFINE a == Address(icon)
           new == IF display THEN c.reg[a] \cup {icon} ELSE c.reg[a] \ {icon}
           on == IF display THEN {icon} ELSE {}
           off == IF display THEN {} ELSE {icon}
           d == PrintIcons(c, on, off)
           e == tm1668_print_icon(c, icon, display)
<1>1. /\ a \in Addresses /\ icon \in IconsAt(a) /\ \A b \in Addresses \ {a} : icon \notin IconsAt(b)
      /\ c.reg \in [Addresses -> SUBSET Icons]
      /\ c.ram \in [Addresses -> [icons : SUBSET Icons, digit : (0 .. 9) \cup {BLANK}]]
  BY IconHasAddress DEF Chips, IconsAt
<1>2. e = [[c EXCEPT !.reg[a] = new] EXCEPT !.ram[a] = [icons |-> new, digit |-> BLANK]]
  BY DEF tm1668_print_icon, tm1668_send
<1>3. new \in SUBSET Icons
  BY <1>1
<1> HIDE DEF a, new, e
<1>4. /\ e \in Chips /\ e.brightness = c.brightness /\ e.reg = [c.reg EXCEPT ![a] = new]
      /\ e.ram = [c.ram EXCEPT ![a] = [icons |-> new, digit |-> BLANK]]
  BY <1>1, <1>2, <1>3 DEF Chips
<1>5. on \in IconSets /\ off \in IconSets
  BY DEF IconSets
<1> HIDE DEF on, off, d
<1>6. d \in Chips /\ IsPrinted(c, d, on, off)
  BY <1>5, PrintIconsIs DEF d
<1>7. d.reg[a] = new /\ \A b \in Addresses \ {a} : d.reg[b] = c.reg[b]
  <2>1. d.reg[a] = (c.reg[a] \cup (on \cap IconsAt(a))) \ (off \cap IconsAt(a))
    BY <1>1, <1>6 DEF IsPrinted
  <2>2. display => on \cap IconsAt(a) = {icon} /\ off \cap IconsAt(a) = {}
    BY <1>1 DEF on, off
  <2>3. ~display => on \cap IconsAt(a) = {} /\ off \cap IconsAt(a) = {icon}
    BY <1>1 DEF on, off
  <2>4. d.reg[a] = new
    BY <2>1, <2>2, <2>3 DEF new
  <2>5. ASSUME NEW b \in Addresses \ {a} PROVE d.reg[b] = c.reg[b]
    <3>1. d.reg[b] = (c.reg[b] \cup (on \cap IconsAt(b))) \ (off \cap IconsAt(b))
      BY <1>6 DEF IsPrinted
    <3>2. on \cap IconsAt(b) = {} /\ off \cap IconsAt(b) = {}
      BY <1>1 DEF on, off
    <3>3. QED
      BY <3>1, <3>2
  <2>6. QED
    BY <2>4, <2>5
<1>8. (on \cup off) \cap IconsAt(a) # {} /\ \A b \in Addresses \ {a} : (on \cup off) \cap IconsAt(b) = {}
  BY <1>1 DEF on, off
<1>9. \A b \in Addresses : e.reg[b] = d.reg[b] /\ e.ram[b] = d.ram[b]
  <2>1. \A b \in Addresses : e.reg[b] = d.reg[b]
    BY <1>1, <1>4, <1>7
  <2>2. /\ d.ram[a] = [icons |-> d.reg[a], digit |-> BLANK]
        /\ \A b \in Addresses \ {a} : d.ram[b] = c.ram[b]
    BY <1>1, <1>6, <1>8 DEF IsPrinted
  <2>3. \A b \in Addresses : e.ram[b] = d.ram[b]
    BY <1>1, <1>4, <1>7, <2>2
  <2>4. QED
    BY <2>1, <2>3
<1>10. e = d
  <2>1. e \in Chips /\ d \in Chips /\ e.brightness = d.brightness
    BY <1>4, <1>6 DEF IsPrinted
  <2>2. QED
    BY <1>9, <2>1, SameChip
<1>11. QED
  BY <1>10 DEF d, e, on, off

\* ... and one more icon is one more call, last.
LEMMA PrintIconsOneByOne ==
  ASSUME NEW c \in Chips, NEW on \in IconSets, NEW off \in IconSets, NEW icon \in Icons
  PROVE  /\ icon \notin off =>
              PrintIcons(c, on \cup {icon}, off) = PrintIcons(PrintIcons(c, on, off), {icon}, {})
         /\ icon \notin on =>
              PrintIcons(c, on, off \cup {icon}) = PrintIcons(PrintIcons(c, on, off), {}, {icon})
<1>1. ASSUME NEW on1 \in SUBSET {icon}, NEW off1 \in SUBSET {icon}, on1 \cap off = {}, off1 \cap on = {},
             on1 \cap off1 = {}
      PROVE  PrintIcons(c, on \cup on1, off \cup off1) = PrintIcons(PrintIcons(c, on, off), on1, off1)
  <2> DEFINE d == PrintIcons(c, on, off)
             e == PrintIcons(d, on1, off1)
             f == PrintIcons(c, on \cup on1, off \cup off1)
  <2>1. /\ on1 \in IconSets /\ off1 \in IconSets
        /\ on \cup on1 \in IconSets /\ off \cup off1 \in IconSets
    BY DEF IconSets
  <2> HIDE DEF d, e, f
  <2>2. d \in Chips /\ IsPrinted(c, d, on, off)
    BY PrintIconsIs DEF d
  <2>3. e \in Chips /\ IsPrinted(d, e, on1, off1)
    BY <2>1, <2>2, PrintIconsIs DEF e
  <2>4. f \in Chips /\ IsPrinted(c, f, on \cup on1, off \cup off1)
    BY <2>1, PrintIconsIs DEF f
  <2>5. \A a \in Addresses : f.reg[a] = e.reg[a]
    <3> SUFFICES ASSUME NEW a \in Addresses PROVE f.reg[a] = e.reg[a]
      OBVIOUS
    <3> DEFINE here == IconsAt(a)
               old == c.reg[a]
    <3>1. d.reg[a] = (old \cup (on \cap here)) \ (off \cap here)
      BY <2>2 DEF IsPrinted
    <3>2. e.reg[a] = (d.reg[a] \cup (on1 \cap here)) \ (off1 \cap here)
      BY <2>3 DEF IsPrinted
    <3>3. f.reg[a] = (old \cup ((on \cup on1) \cap here)) \ ((off \cup off1) \cap here)
      BY <2>4 DEF IsPrinted
    <3> HIDE DEF here, old
    <3>4. QED
      BY <1>1, <3>1, <3>2, <3>3
  <2>6. \A a \in Addresses : f.ram[a] = e.ram[a]
    <3> SUFFICES ASSUME NEW a \in Addresses PROVE f.ram[a] = e.ram[a]
      OBVIOUS
    <3>1. CASE (on1 \cup off1) \cap IconsAt(a) # {}
      BY <2>3, <2>4, <2>5, <3>1 DEF IsPrinted
    <3>2. CASE (on1 \cup off1) \cap IconsAt(a) = {}
      <4>1. e.reg[a] = d.reg[a]
        BY <2>3, <3>2 DEF IsPrinted
      <4>2. ((on \cup on1) \cup (off \cup off1)) \cap IconsAt(a) = (on \cup off) \cap IconsAt(a)
        BY <3>2
      <4>3. QED
        <5>1. /\ e.ram[a] = d.ram[a]
              /\ d.ram[a] = IF (on \cup off) \cap IconsAt(a) = {} THEN c.ram[a]
                            ELSE [icons |-> d.reg[a], digit |-> BLANK]
          BY <2>2, <2>3, <3>2 DEF IsPrinted
        <5>2. f.ram[a] = IF (on \cup off) \cap IconsAt(a) = {} THEN c.ram[a]
                         ELSE [icons |-> f.reg[a], digit |-> BLANK]
          BY <2>4, <4>2 DEF IsPrinted
        <5>3. QED
          BY <2>5, <4>1, <5>1, <5>2
    <3>3. QED
      BY <3>1, <3>2
  <2>7. f = e
    BY <2>2, <2>3, <2>4, <2>5, <2>6, SameChip DEF IsPrinted
  <2>8. QED
    BY <2>7 DEF d, e, f
<1>2. icon \notin off =>
        PrintIcons(c, on \cup {icon}, off \cup {}) = PrintIcons(PrintIcons(c, on, off), {icon}, {})
  BY <1>1
<1>3. icon \notin on =>
        PrintIcons(c, on \cup {}, off \cup {icon}) = PrintIcons(PrintIcons(c, on, off), {}, {icon})
  BY <1>1
<1>4. on \cup {} = on /\ off \cup {} = off
  OBVIOUS
<1>5. QED
  BY <1>2, <1>3, <1>4

\* What a call prints is known afterwards, and what was known stays so.
LEMMA PrintIconsHolds ==
  ASSUME NEW c \in Chips, NEW h \in Knowns, TmHolds(c, h),
         NEW on \in IconSets, NEW off \in IconSets, on \cap off = {}
  PROVE  /\ PrintIcons(c, on, off) \in Chips
         /\ Switched(h, on, off) \in Knowns
         /\ TmHolds(PrintIcons(c, on, off), Switched(h, on, off))
<1> DEFINE d == PrintIcons(c, on, off)
           k == Switched(h, on, off)
<1>1. k \in Knowns /\ k.on = (h.on \cup on) \ off /\ k.known = h.known \cup on \cup off
  BY DEF Switched, Knowns, IconSets
<1> HIDE DEF d, k
<1>2. d \in Chips /\ IsPrinted(c, d, on, off)
  BY PrintIconsIs DEF d
<1>3. k.on \subseteq k.known
  BY <1>1 DEF TmHolds
<1>4. \A a \in Addresses : d.reg[a] \subseteq IconsAt(a)
  BY <1>2 DEF TmHolds, IsPrinted
<1>5. ASSUME NEW a \in Addresses PROVE d.ram[a].icons \subseteq IconsAt(a)
  <2> DEFINE shown == [icons |-> d.reg[a], digit |-> BLANK]
  <2>1. shown.icons = d.reg[a]
    OBVIOUS
  <2>2. d.ram[a] = c.ram[a] \/ d.ram[a] = shown
    BY <1>2 DEF IsPrinted
  <2> HIDE DEF shown
  <2>3. QED
    BY <1>4, <2>1, <2>2 DEF TmHolds
<1>6. ASSUME NEW i \in k.known
      PROVE  /\ i \in d.reg[Address(i)] <=> i \in k.on
             /\ i \in d.ram[Address(i)].icons <=> i \in k.on
  <2> DEFINE a == Address(i)
  <2>1. i \in Icons /\ a \in Addresses /\ i \in IconsAt(a)
    BY <1>1, IconHasAddress DEF Knowns, IconsAt
  <2>2. i \in h.known => /\ i \in c.reg[a] <=> i \in h.on
                         /\ i \in c.ram[a].icons <=> i \in h.on
    BY DEF TmHolds
  <2>3. (i \notin h.known => i \notin h.on) /\ (i \in h.known \/ i \in on \/ i \in off)
    BY <1>1 DEF TmHolds
  <2> HIDE DEF a
  <2>4. i \in d.reg[a] <=> i \in k.on
    BY <1>1, <1>2, <2>1, <2>2, <2>3 DEF IsPrinted
  <2>5. i \in d.ram[a].icons <=> i \in k.on
    <3>1. CASE (on \cup off) \cap IconsAt(a) # {}
      <4> DEFINE shown == [icons |-> d.reg[a], digit |-> BLANK]
      <4>1. shown.icons = d.reg[a]
        OBVIOUS
      <4>2. d.ram[a] = shown
        BY <1>2, <2>1, <3>1 DEF IsPrinted
      <4> HIDE DEF shown
      <4>3. QED
        BY <2>4, <4>1, <4>2
    <3>2. CASE (on \cup off) \cap IconsAt(a) = {}
      <4>1. i \notin on /\ i \notin off
        BY <2>1, <3>2
      <4>2. QED
        BY <1>1, <1>2, <2>1, <2>2, <2>3, <3>2, <4>1 DEF IsPrinted
    <3>3. QED
      BY <3>1, <3>2
  <2>6. QED
    BY <2>4, <2>5 DEF a
<1>7. QED
  BY <1>1, <1>2, <1>3, <1>4, <1>5, <1>6 DEF TmHolds, d, k

\* A digit blanks no icon and lights none.
LEMMA PrintNumHolds ==
  ASSUME NEW c \in Chips, NEW h \in Knowns, TmHolds(c, h), NEW character \in Nat
  PROVE  /\ tm1668_print_num(c, character) \in Chips
         /\ TmHolds(tm1668_print_num(c, character), h)
<1> DEFINE a == DigitAddress(character)
           shown == [icons |-> c.reg[a], digit |-> character % 10]
           d == tm1668_print_num(c, character)
<1>1. a \in Addresses /\ character % 10 \in 0 .. 9
  BY DEF DigitAddress, Addresses
<1>2. d = [c EXCEPT !.ram[a] = shown]
  BY DEF tm1668_print_num, tm1668_send
<1>3. shown \in [icons : SUBSET Icons, digit : (0 .. 9) \cup {BLANK}] /\ shown.icons = c.reg[a]
  BY <1>1 DEF Chips
<1> HIDE DEF a, shown, d
<1>4. d \in Chips /\ d.reg = c.reg /\ d.ram = [c.ram EXCEPT ![a] = shown]
  BY <1>1, <1>2, <1>3 DEF Chips
<1>5. \A b \in Addresses : d.ram[b].icons = IF b = a THEN c.reg[a] ELSE c.ram[b].icons
  BY <1>1, <1>3, <1>4 DEF Chips
<1>6. h.known \subseteq Icons
  BY DEF Knowns
<1>7. TmHolds(d, h)
  BY <1>4, <1>5, <1>6, IconHasAddress DEF TmHolds
<1>8. QED
  BY <1>4, <1>7 DEF d

LEMMA TmInitKeepsInv ==
  /\ TmInit => TmInv
  /\ TmInv /\ tm1668_init => TmInv'
<1>1. ASSUME NEW ram \in [Addresses -> [icons : SUBSET Icons, digit : (0 .. 9) \cup {BLANK}]],
             \A a \in Addresses : ram[a].icons \subseteq IconsAt(a), NEW wraps \in BOOLEAN
      PROVE  /\ Cleared(ram, wraps) \in [Addresses -> [icons : SUBSET Icons, digit : (0 .. 9) \cup {BLANK}]]
             /\ \A a \in Addresses : Cleared(ram, wraps)[a].icons \subseteq IconsAt(a)
  <2> DEFINE none == [icons |-> {}, digit |-> BLANK]
  <2>1. none \in [icons : SUBSET Icons, digit : (0 .. 9) \cup {BLANK}] /\ none.icons = {}
    OBVIOUS
  <2>2. Cleared(ram, wraps) = [a \in Addresses |-> IF wraps \/ a = 12 THEN none ELSE ram[a]]
    BY DEF Cleared
  <2> HIDE DEF none
  <2>3. QED
    BY <1>1, <2>1, <2>2
<1> DEFINE nothing == [on |-> {}, known |-> {}]
<1>2. nothing \in Knowns /\ nothing.on = {} /\ nothing.known = {}
  BY DEF Knowns
<1> HIDE DEF nothing
<1>3. ASSUME TmInit PROVE TmInv
  <2> DEFINE ram == [a \in Addresses |-> [icons |-> {i \in Icons : Address(i) = a}, digit |-> BLANK]]
             reg == [a \in Addresses |-> {}]
  <2>1. /\ ram \in [Addresses -> [icons : SUBSET Icons, digit : (0 .. 9) \cup {BLANK}]]
        /\ \A a \in Addresses : ram[a].icons \subseteq IconsAt(a)
    BY DEF IconsAt
  <2>2. reg \in [Addresses -> SUBSET Icons] /\ \A a \in Addresses : reg[a] = {}
    OBVIOUS
  <2>3. PICK wraps \in BOOLEAN :
          tm = [reg |-> reg, brightness |-> 1, ram |-> Cleared(ram, wraps)]
    BY <1>3 DEF TmInit
  <2> DEFINE new == Cleared(ram, wraps)
  <2> HIDE DEF ram
  <2>4. /\ new \in [Addresses -> [icons : SUBSET Icons, digit : (0 .. 9) \cup {BLANK}]]
        /\ \A a \in Addresses : new[a].icons \subseteq IconsAt(a)
    BY <1>1, <2>1
  <2> HIDE DEF new, reg
  <2>5. tm = [reg |-> reg, brightness |-> 1, ram |-> new]
    BY <2>3 DEF new
  <2>6. tm \in Chips /\ tm.reg = reg /\ tm.ram = new
    BY <2>2, <2>4, <2>5 DEF Chips
  <2>7. tm_last = nothing
    BY <1>3 DEF TmInit, nothing
  <2>8. QED
    BY <1>2, <2>2, <2>4, <2>6, <2>7 DEF TmInv, TmHolds
<1>4. ASSUME TmInv, tm1668_init PROVE TmInv'
  <2>1. PICK wraps \in BOOLEAN :
          tm' = [tm EXCEPT !.ram = Cleared(tm.ram, wraps), !.brightness = 1, !.reg[0] = {}]
    BY <1>4 DEF tm1668_init
  <2> DEFINE new == Cleared(tm.ram, wraps)
  <2>2. /\ tm \in Chips /\ 0 \in Addresses
        /\ tm.ram \in [Addresses -> [icons : SUBSET Icons, digit : (0 .. 9) \cup {BLANK}]]
        /\ \A a \in Addresses : tm.ram[a].icons \subseteq IconsAt(a) /\ tm.reg[a] \subseteq IconsAt(a)
    BY <1>4 DEF TmInv, TmHolds, Chips, Addresses
  <2>3. /\ new \in [Addresses -> [icons : SUBSET Icons, digit : (0 .. 9) \cup {BLANK}]]
        /\ \A a \in Addresses : new[a].icons \subseteq IconsAt(a)
    BY <1>1, <2>2
  <2> DEFINE reg == [tm.reg EXCEPT ![0] = {}]
  <2>4. tm' = [tm EXCEPT !.ram = new, !.brightness = 1, !.reg = reg]
    BY <2>1
  <2>5. reg \in [Addresses -> SUBSET Icons] /\ tm.reg \in [Addresses -> SUBSET Icons]
    BY <2>2 DEF Chips
  <2> HIDE DEF new, reg
  <2>6. tm' \in Chips /\ tm'.reg = reg /\ tm'.ram = new
    <3>1. tm' = [reg |-> reg, brightness |-> 1, ram |-> new]
      BY <2>2, <2>4 DEF Chips
    <3>2. QED
      BY <2>3, <2>5, <3>1 DEF Chips
  <2>7. \A a \in Addresses : tm'.reg[a] \subseteq IconsAt(a)
    BY <2>2, <2>5, <2>6 DEF reg
  <2>8. tm_last' = nothing
    BY <1>4 DEF tm1668_init, nothing
  <2>9. QED
    BY <1>2, <2>3, <2>6, <2>7, <2>8 DEF TmInv, TmHolds
<1>5. QED
  BY <1>3, <1>4

\* What the switches of a level switch on is what the level looks like, and they
\* switch off all the rest.
LEMMA BatteryIs ==
  ASSUME NEW bars \in 0 .. 5
  PROVE  /\ BatterySwitches(bars)[1] = BatteryLooks(bars)
         /\ BatterySwitches(bars)[2] = BatteryIcons \ BatteryLooks(bars)
         /\ BatteryLooks(bars) \in IconSets /\ BatteryIcons \ BatteryLooks(bars) \in IconSets
<1>1. /\ BatteryLooks(0) = {} /\ BatteryLooks(1) = {54} /\ BatteryLooks(2) = {54, 52}
      /\ BatteryLooks(3) = {55, 53, 59} /\ BatteryLooks(4) = {55, 53, 59, 58}
      /\ BatteryLooks(5) = {55, 53, 59, 58, 57}
  <2>1. /\ 1 .. 0 = {} /\ 1 .. 1 = {1} /\ 1 .. 2 = {1, 2} /\ 1 .. 3 = {1, 2, 3}
        /\ 1 .. 4 = {1, 2, 3, 4} /\ 1 .. 5 = {1, 2, 3, 4, 5}
    OBVIOUS
  <2>2. /\ White[1] = 55 /\ White[2] = 53 /\ White[3] = 59 /\ White[4] = 58 /\ White[5] = 57
        /\ Red[1] = 54 /\ Red[2] = 52
    BY DEF White, Red
  <2>3. /\ BatteryLooks(0) = {Red[k] : k \in 1 .. 0} /\ BatteryLooks(1) = {Red[k] : k \in 1 .. 1}
        /\ BatteryLooks(2) = {Red[k] : k \in 1 .. 2} /\ BatteryLooks(3) = {White[k] : k \in 1 .. 3}
        /\ BatteryLooks(4) = {White[k] : k \in 1 .. 4} /\ BatteryLooks(5) = {White[k] : k \in 1 .. 5}
    BY DEF BatteryLooks
  <2>4. QED
    BY <2>1, <2>2, <2>3
<1>2. CASE bars = 0
  BY <1>1, <1>2 DEF BatterySwitches, BatteryIcons, IconSets, Icons
<1>3. CASE bars = 1
  BY <1>1, <1>3 DEF BatterySwitches, BatteryIcons, IconSets, Icons
<1>4. CASE bars = 2
  BY <1>1, <1>4 DEF BatterySwitches, BatteryIcons, IconSets, Icons
<1>5. CASE bars = 3
  BY <1>1, <1>5 DEF BatterySwitches, BatteryIcons, IconSets, Icons
<1>6. CASE bars = 4
  BY <1>1, <1>6 DEF BatterySwitches, BatteryIcons, IconSets, Icons
<1>7. CASE bars = 5
  BY <1>1, <1>7 DEF BatterySwitches, BatteryIcons, IconSets, Icons
<1>8. QED
  BY <1>2, <1>3, <1>4, <1>5, <1>6, <1>7

\* No level is so high that btc, a uint8_t, wraps.
LevelsFit == \A percent \in Percents : percent < 15 * 256

LEMMA TmNextKeepsInv ==
  ASSUME LevelsFit, TmInv, TmNext
  PROVE  TmInv'
<1>1. tm \in Chips /\ tm_last \in Knowns /\ TmHolds(tm, tm_last)
  BY DEF TmInv
<1>2. ASSUME NEW on \in IconSets, NEW off \in IconSets, on \cap off = {},
             tm' = PrintIcons(tm, on, off), tm_last' = Printed(on, off)
      PROVE  TmInv'
  <2>1. Printed(on, off) = Switched(tm_last, on, off)
    BY DEF Printed, Switched
  <2>2. QED
    BY <1>1, <1>2, <2>1, PrintIconsHolds DEF TmInv
<1>3. CASE tm1668_init
  BY <1>3, TmInitKeepsInv
<1>4. CASE PrintAppIcon
  <2>1. PICK icon \in AppIcons, display \in BOOLEAN :
          /\ tm' = tm1668_print_icon(tm, icon, display)
          /\ tm_last' = IF display THEN Printed({icon}, {}) ELSE Printed({}, {icon})
    BY <1>4 DEF PrintAppIcon
  <2>2. icon \in Icons
    BY TmInputs
  <2>3. tm' = PrintIcons(tm, IF display THEN {icon} ELSE {}, IF display THEN {} ELSE {icon})
    BY <1>1, <2>1, <2>2, PrintIconIs
  <2>4. {icon} \in IconSets /\ {} \in IconSets /\ {icon} \cap {} = {} /\ {} \cap {icon} = {}
    BY <2>2 DEF IconSets
  <2>5. QED
    BY <1>2, <2>1, <2>3, <2>4
<1>5. CASE tm1668_print_speed
  <2>1. PICK speed \in Speeds : tm' = PrintSpeed(tm, speed) /\ tm_last' = tm_last
    BY <1>5 DEF tm1668_print_speed
  <2> DEFINE cut == Tens(speed) > 9
             tens == IF cut THEN 9 ELSE Tens(speed)
             units == (IF cut THEN 9 ELSE speed % 10) + 10
             c == tm1668_print_num(tm, tens)
  <2>2. tens \in Nat /\ units \in Nat
    BY TmInputs DEF Tens
  <2>3. tm' = tm1668_print_num(c, units)
    BY <2>1 DEF PrintSpeed
  <2> HIDE DEF tens, units
  <2>4. c \in Chips /\ TmHolds(c, tm_last)
    BY <1>1, <2>2, PrintNumHolds
  <2> HIDE DEF c
  <2>5. QED
    BY <1>1, <2>1, <2>2, <2>3, <2>4, PrintNumHolds DEF TmInv
<1>6. CASE tm1668_print_mode
  <2>1. PICK mode \in ModeIcons \cup {0} :
          /\ tm' = PrintMode(tm, mode)
          /\ tm_last' = IF mode = 0 THEN tm_last ELSE Printed({mode}, ModeIcons \ {mode})
    BY <1>6 DEF tm1668_print_mode
  <2>2. CASE mode = 0
    BY <1>1, <2>1, <2>2 DEF PrintMode, ModeIcons, TmInv
  <2>3. CASE mode \in ModeIcons
    <3>1. /\ {mode} \in IconSets /\ ModeIcons \ {mode} \in IconSets /\ mode # 0
          /\ {mode} \cap (ModeIcons \ {mode}) = {}
      BY <2>3 DEF ModeIcons, Icons, IconSets
    <3>2. QED
      BY <1>2, <2>1, <2>3, <3>1 DEF PrintMode
  <2>4. QED
    BY <2>2, <2>3
<1>7. CASE tm1668_print_battery
  <2>1. PICK percent \in Percents :
          /\ tm' = PrintBattery(tm, percent)
          /\ LET looks == BatteryLooks(IF percent >= 75 THEN 5 ELSE percent \div 15)
             IN  tm_last' = Printed(looks, BatteryIcons \ looks)
    BY <1>7 DEF tm1668_print_battery
  <2> DEFINE btc == (percent \div 15) % 256
             bars == IF btc > 5 THEN 5 ELSE btc
  <2>2. /\ percent \in Nat /\ bars \in 0 .. 5
        /\ bars = IF percent >= 75 THEN 5 ELSE percent \div 15
    <3>1. percent \in Nat /\ percent < 3840
      BY TmInputs DEF LevelsFit
    <3>2. btc = percent \div 15
      BY <3>1
    <3> HIDE DEF btc
    <3>3. percent \div 15 \in Nat /\ (percent \div 15 > 5 => percent >= 75) /\ (percent \div 15 < 5 => percent < 75)
      BY <3>1
    <3>4. QED
      BY <3>1, <3>2, <3>3
  <2>3. /\ tm' = PrintIcons(tm, BatterySwitches(bars)[1], BatterySwitches(bars)[2])
        /\ tm_last' = Printed(BatteryLooks(bars), BatteryIcons \ BatteryLooks(bars))
    BY <2>1, <2>2 DEF PrintBattery
  <2> HIDE DEF bars
  <2>4. BatteryLooks(bars) \cap (BatteryIcons \ BatteryLooks(bars)) = {}
    OBVIOUS
  <2>5. QED
    BY <1>2, <2>2, <2>3, <2>4, BatteryIs
<1>8. CASE tm1668_set_brightness
  <2>1. PICK b \in Brightnesses \cup {0} :
          /\ tm' = [tm EXCEPT !.brightness = IF b < 0 THEN 0 ELSE IF b > 8 THEN 8 ELSE b]
          /\ tm_last' = tm_last
    BY <1>8 DEF tm1668_set_brightness
  <2> DEFINE new == IF b < 0 THEN 0 ELSE IF b > 8 THEN 8 ELSE b
  <2>2. new \in Int
    BY TmInputs
  <2> HIDE DEF new
  <2>3. tm' = [tm EXCEPT !.brightness = new]
    BY <2>1 DEF new
  <2>4. tm' \in Chips /\ tm'.reg = tm.reg /\ tm'.ram = tm.ram
    BY <1>1, <2>2, <2>3 DEF Chips
  <2>5. QED
    BY <1>1, <2>1, <2>4 DEF TmInv, TmHolds
<1>9. QED
  BY <1>3, <1>4, <1>5, <1>6, <1>7, <1>8 DEF TmNext

\* For all inputs but battery levels of 3840 and more: each icon that was printed
\* since tm1668_init is as the last call that printed it left it, though calls
\* share addresses and the shadow survives tm1668_init.  (What the shadow that
\* survived does to icons not printed since, it does not say.)
THEOREM IconsStayAsPrinted ==
  ASSUME LevelsFit
  PROVE  TmSpec => []IconsAsLastPrinted
<1>1. TmInv => IconsAsLastPrinted
  <2> SUFFICES ASSUME TmInv PROVE Lit \cap tm_last.known = tm_last.on
    BY DEF IconsAsLastPrinted
  <2>1. ASSUME NEW i \in tm_last.known PROVE i \in Lit <=> i \in tm_last.on
    <3>1. i \in Icons /\ Address(i) \in Addresses
      BY IconHasAddress DEF TmInv, Knowns
    <3>2. \A a \in Addresses : i \in tm.ram[a].icons => a = Address(i)
      BY DEF TmInv, TmHolds, IconsAt
    <3>3. i \in Lit <=> i \in tm.ram[Address(i)].icons
      BY <3>1, <3>2 DEF Lit
    <3>4. QED
      BY <3>3 DEF TmInv, TmHolds
  <2>2. tm_last.on \subseteq tm_last.known
    BY DEF TmInv, TmHolds
  <2>3. QED
    BY <2>1, <2>2
<1>2. TmInv /\ [TmNext]_tm_vars => TmInv'
  <2>1. TmInv /\ UNCHANGED tm_vars => TmInv'
    BY DEF TmInv, tm_vars
  <2>2. QED
    BY <2>1, TmNextKeepsInv
<1>3. QED
  BY <1>1, <1>2, TmInitKeepsInv, PTL DEF TmSpec

--------------------------------------------------------------------------------
(* unibus: what is received                                                *)

UniBytes == [value : Nat, frame : Nat, pos : Nat, ok : BOOLEAN]

Opens(b) == b.pos = 1 /\ b.ok

\* Where frame f begins in stream s, and that one frame begins before another.
At(s, f) == {k \in DOMAIN s : s[k].pos = 1 /\ s[k].ok /\ s[k].frame = f}

Before(s, f, g) == \A a \in At(s, f), b \in At(s, g) : a < b

\* The bytes still to be read, all: their frames come in the order they were
\* sent in, after those that were had.
InOrder(s, had, all) ==
  /\ \A j \in DOMAIN all : Opens(all[j]) => At(s, all[j].frame) # {}
  /\ \A j, k \in DOMAIN all :
       j < k /\ Opens(all[j]) /\ Opens(all[k]) => Before(s, all[j].frame, all[k].frame)
  /\ \A d \in DOMAIN had, j \in DOMAIN all : Opens(all[j]) => Before(s, had[d], all[j].frame)

\* Byte b, which was read, lies between.
Between(s, had, b, all) ==
  Opens(b) =>
    /\ At(s, b.frame) # {}
    /\ \A d \in DOMAIN had : Before(s, had[d], b.frame)
    /\ \A j \in DOMAIN all : Opens(all[j]) => Before(s, b.frame, all[j].frame)

HadInOrder(s, had) ==
  /\ \A d \in DOMAIN had : At(s, had[d]) # {}
  /\ \A c, d \in DOMAIN had : c < d => Before(s, had[c], had[d])

\* thin is what is left of all when bytes are lost or taken.
Thinned(thin, all) ==
  \E at \in [DOMAIN thin -> DOMAIN all] :
    /\ \A j, k \in DOMAIN thin : j < k => at[j] < at[k]
    /\ \A j \in DOMAIN thin : thin[j] = all[at[j]]

LEMMA ThinnedStaysInOrder ==
  ASSUME NEW s, NEW had, NEW all, NEW thin, Thinned(thin, all)
  PROVE  /\ InOrder(s, had, all) => InOrder(s, had, thin)
         /\ \A b : Between(s, had, b, all) => Between(s, had, b, thin)
<1>1. PICK at \in [DOMAIN thin -> DOMAIN all] :
         /\ \A j, k \in DOMAIN thin : j < k => at[j] < at[k]
         /\ \A j \in DOMAIN thin : thin[j] = all[at[j]]
  BY DEF Thinned
<1>2. \A j \in DOMAIN thin : at[j] \in DOMAIN all
  OBVIOUS
<1>3. InOrder(s, had, all) => InOrder(s, had, thin)
  BY <1>1, <1>2 DEF InOrder
<1>4. \A b : Between(s, had, b, all) => Between(s, had, b, thin)
  BY <1>1, <1>2 DEF Between
<1>5. QED
  BY <1>3, <1>4

\* The first byte of all goes to the reader.
LEMMA FirstIsBetween ==
  ASSUME NEW s, NEW had, NEW all \in Seq(UniBytes), NEW thin, InOrder(s, had, all), all # <<>>, thin = Tail(all)
  PROVE  Between(s, had, all[1], thin)
<1>1. \A j \in DOMAIN thin : 1 \in DOMAIN all /\ j + 1 \in DOMAIN all /\ 1 < j + 1 /\ thin[j] = all[j + 1]
  OBVIOUS
<1>2. 1 \in DOMAIN all
  OBVIOUS
<1>3. QED
  BY <1>1, <1>2 DEF InOrder, Between

\* A frame that is delivered was between what was had and what is unread.
LEMMA DeliveredInOrder ==
  ASSUME NEW s, NEW had \in Seq(Nat), NEW all, NEW b \in UniBytes, Opens(b),
         InOrder(s, had, all), HadInOrder(s, had), Between(s, had, b, all)
  PROVE  HadInOrder(s, Append(had, b.frame)) /\ InOrder(s, Append(had, b.frame), all)
<1> DEFINE new == Append(had, b.frame)
<1>1. /\ DOMAIN new = 1 .. Len(had) + 1 /\ DOMAIN had = 1 .. Len(had) /\ Len(had) \in Nat
      /\ new[Len(had) + 1] = b.frame
      /\ \A d \in DOMAIN had : new[d] = had[d]
  BY DEF UniBytes
<1> HIDE DEF new
<1>2. \A d \in DOMAIN new : (d \in DOMAIN had /\ new[d] = had[d]) \/ (d = Len(had) + 1 /\ new[d] = b.frame)
  BY <1>1
<1>3. \A d \in DOMAIN new : At(s, new[d]) # {}
  BY <1>2 DEF HadInOrder, Between
<1>4. \A c, d \in DOMAIN new : c < d => Before(s, new[c], new[d])
  <2> SUFFICES ASSUME NEW c \in DOMAIN new, NEW d \in DOMAIN new, c < d PROVE Before(s, new[c], new[d])
    OBVIOUS
  <2>1. c \in DOMAIN had /\ new[c] = had[c]
    BY <1>1, <1>2
  <2>2. QED
    BY <1>2, <2>1 DEF HadInOrder, Between
<1>5. InOrder(s, new, all)
  BY <1>2 DEF InOrder, Between
<1>6. QED
  BY <1>3, <1>4, <1>5 DEF HadInOrder, new

\* What is dropped are d bytes at the front, or some behind the first cut.
LEMMA DroppedIsThinned ==
  ASSUME NEW all \in Seq(UniBytes), NEW thin \in Seq(UniBytes), NEW cut \in Nat, NEW d \in Nat, NEW e \in Nat,
         d <= e, Len(thin) + e = Len(all),
         \A j \in 1 .. Len(thin) : thin[j] = all[IF j <= cut THEN j + d ELSE j + e]
  PROVE  Thinned(thin, all)
<1> DEFINE at == [j \in DOMAIN thin |-> IF j <= cut THEN j + d ELSE j + e]
<1>1. DOMAIN thin = 1 .. Len(thin) /\ DOMAIN all = 1 .. Len(all) /\ Len(thin) \in Nat /\ Len(all) \in Nat
  OBVIOUS
<1>2. at \in [DOMAIN thin -> DOMAIN all]
  BY <1>1
<1>3. \A j, k \in DOMAIN thin : j < k => at[j] < at[k]
  BY <1>1
<1>4. \A j \in DOMAIN thin : thin[j] = all[at[j]]
  BY <1>1
<1> HIDE DEF at
<1>5. QED
  BY <1>2, <1>3, <1>4 DEF Thinned

LEMMA JoinIs ==
  ASSUME NEW left \in Seq(UniBytes), NEW right \in Seq(UniBytes)
  PROVE  /\ left \o right \in Seq(UniBytes)
         /\ Len(left \o right) = Len(left) + Len(right)
         /\ \A j \in 1 .. Len(left) + Len(right) :
              (left \o right)[j] = IF j <= Len(left) THEN left[j] ELSE right[j - Len(left)]
OBVIOUS

LEMMA RestIs ==
  ASSUME NEW all \in Seq(UniBytes), NEW d \in 0 .. Len(all)
  PROVE  LET rest == SubSeq(all, d + 1, Len(all))
         IN  /\ rest \in Seq(UniBytes) /\ Len(rest) = Len(all) - d
             /\ \A j \in 1 .. Len(all) - d : rest[j] = all[j + d]
OBVIOUS

\* The reader takes the first r bytes of the ring.
LEMMA TakenIsThinned ==
  ASSUME NEW fifo \in Seq(UniBytes), NEW coming \in Seq(UniBytes), NEW r \in 0 .. Len(fifo)
  PROVE  /\ SubSeq(fifo, r + 1, Len(fifo)) \in Seq(UniBytes)
         /\ Thinned(SubSeq(fifo, r + 1, Len(fifo)) \o coming, fifo \o coming)
<1> DEFINE left == SubSeq(fifo, r + 1, Len(fifo))
           thin == left \o coming
           all == fifo \o coming
           F == Len(fifo)
           C == Len(coming)
           p == F - r
<1>1. F \in Nat /\ C \in Nat /\ r \in 0 .. F /\ p \in Nat /\ p + r = F
  OBVIOUS
<1>2. left \in Seq(UniBytes) /\ Len(left) = p /\ \A j \in 1 .. p : left[j] = fifo[j + r]
  BY RestIs
<1> HIDE DEF left, p
<1>3. /\ thin \in Seq(UniBytes) /\ Len(thin) = p + C
      /\ \A j \in 1 .. p + C : thin[j] = IF j <= p THEN left[j] ELSE coming[j - p]
  BY <1>2, JoinIs
<1>4. /\ all \in Seq(UniBytes) /\ Len(all) = F + C
      /\ \A j \in 1 .. F + C : all[j] = IF j <= F THEN fifo[j] ELSE coming[j - F]
  BY <1>1, JoinIs
<1> HIDE DEF thin, all, F, C
<1>5. ASSUME NEW j \in 1 .. Len(thin) PROVE thin[j] = all[IF j <= 0 THEN j + r ELSE j + r]
  <2> DEFINE i == j + r
             k == j - p
  <2>1. j \in 1 .. p + C /\ i \in 1 .. F + C /\ k = i - F /\ (j <= p <=> i <= F) /\ ~(j <= 0)
    BY <1>1, <1>3
  <2>2. j <= p => j \in 1 .. p /\ left[j] = fifo[i]
    BY <1>1, <1>2, <2>1
  <2> HIDE DEF i
  <2>3. all[i] = IF i <= F THEN fifo[i] ELSE coming[i - F]
    BY <1>4, <2>1
  <2>4. thin[j] = IF j <= p THEN left[j] ELSE coming[k]
    BY <1>3, <2>1
  <2> HIDE DEF k
  <2>5. thin[j] = all[i]
    BY <2>1, <2>2, <2>3, <2>4
  <2>6. QED
    BY <2>1, <2>5 DEF i
<1>6. r \in Nat /\ r <= r /\ Len(thin) + r = Len(all) /\ 0 \in Nat
  BY <1>1, <1>3, <1>4
<1>7. Thinned(thin, all)
  BY <1>3, <1>4, <1>5, <1>6, DroppedIsThinned
<1>8. QED
  BY <1>2, <1>7 DEF thin, all, left

\* Of the first n bytes that come and those in the ring, the oldest are driven out.
LEMMA OverrunIsThinned ==
  ASSUME NEW fifo \in Seq(UniBytes), NEW coming \in Seq(UniBytes), NEW n \in 0 .. Len(coming),
         NEW d \in 0 .. Len(fifo) + n
  PROVE  LET held == fifo \o SubSeq(coming, 1, n)
             left == SubSeq(held, d + 1, Len(held))
             rest == SubSeq(coming, n + 1, Len(coming))
         IN  /\ held \in Seq(UniBytes) /\ Len(held) = Len(fifo) + n
             /\ left \in Seq(UniBytes) /\ rest \in Seq(UniBytes)
             /\ Thinned(left \o rest, fifo \o coming)
<1> DEFINE some == SubSeq(coming, 1, n)
           held == fifo \o some
           left == SubSeq(held, d + 1, Len(held))
           rest == SubSeq(coming, n + 1, Len(coming))
<1>1. some \in Seq(UniBytes) /\ Len(some) = n /\ \A j \in 1 .. n : some[j] = coming[j]
  OBVIOUS
<1>2. rest \in Seq(UniBytes)
  BY RestIs
<1>3. fifo \o coming = held \o rest
  <2> DEFINE F == Len(fifo)
             C == Len(coming)
             m == C - n
             h == F + n
  <2>1. F \in Nat /\ C \in Nat /\ n \in 0 .. C /\ m \in Nat /\ h \in Nat /\ m + n = C
    OBVIOUS
  <2>2. Len(rest) = m /\ \A j \in 1 .. m : rest[j] = coming[j + n]
    BY RestIs
  <2> HIDE DEF some, rest, m
  <2>3. /\ held \in Seq(UniBytes) /\ Len(held) = h
        /\ \A j \in 1 .. h : held[j] = IF j <= F THEN fifo[j] ELSE some[j - F]
    BY <1>1, <2>1, JoinIs
  <2> HIDE DEF held
  <2> DEFINE one == fifo \o coming
             two == held \o rest
  <2>4. /\ one \in Seq(UniBytes) /\ Len(one) = F + C
        /\ \A j \in 1 .. F + C : one[j] = IF j <= F THEN fifo[j] ELSE coming[j - F]
    BY <2>1, JoinIs
  <2> HIDE DEF h
  <2>5. /\ two \in Seq(UniBytes) /\ Len(two) = h + m
        /\ \A j \in 1 .. h + m : two[j] = IF j <= h THEN held[j] ELSE rest[j - h]
    BY <1>2, <2>1, <2>2, <2>3, JoinIs
  <2> HIDE DEF one, two, F, C
  <2>6. h = F + n /\ Len(one) = Len(two)
    <3>1. F + C = F + n + m
      BY <2>1
    <3>2. Len(one) = F + C /\ Len(two) = h + m
      BY <2>4, <2>5
    <3>3. QED
      BY <3>1, <3>2 DEF h
  <2>7. ASSUME NEW j \in 1 .. F + C PROVE one[j] = two[j]
    <3>1. j \in 1 .. h + m
      BY <2>1, <2>6
    <3>2. CASE j <= F
      <4>1. j <= h /\ j \in 1 .. h
        BY <2>1, <2>6, <3>2
      <4>2. QED
        BY <2>3, <2>4, <2>5, <3>1, <3>2, <4>1
    <3>3. CASE j > F /\ j <= h
      <4> DEFINE k == j - F
      <4>1. j \in 1 .. h /\ k \in 1 .. n /\ ~(j <= F)
        BY <2>1, <2>6, <3>3
      <4>2. two[j] = some[k] /\ one[j] = coming[k]
        BY <2>3, <2>4, <2>5, <3>1, <3>3, <4>1
      <4> HIDE DEF k
      <4>3. QED
        BY <1>1, <4>1, <4>2
    <3>4. CASE j > h
      <4> DEFINE k == j - h
                 i == j - F
      <4>1. k \in 1 .. m /\ i = k + n /\ ~(j <= F) /\ ~(j <= h)
        BY <2>1, <2>6, <3>1, <3>4
      <4>2. two[j] = rest[k] /\ one[j] = coming[i]
        BY <2>4, <2>5, <3>1, <4>1
      <4> HIDE DEF k, i
      <4>3. QED
        BY <2>2, <4>1, <4>2
    <3>5. QED
      BY <2>1, <2>6, <3>2, <3>3, <3>4
  <2>8. one = two
    BY <2>4, <2>5, <2>6, <2>7
  <2>9. QED
    BY <2>8 DEF one, two
<1>4. held \in Seq(UniBytes) /\ Len(held) = Len(fifo) + n
  BY <1>1
<1> HIDE DEF held, rest
<1>5. left \in Seq(UniBytes) /\ Thinned(left \o rest, held \o rest)
  BY <1>2, <1>4, TakenIsThinned
<1>6. QED
  BY <1>2, <1>3, <1>4, <1>5 DEF held, rest

\* A write that is refused is missing in the middle.
LEMMA RefusedIsThinned ==
  ASSUME NEW fifo \in Seq(UniBytes), NEW coming \in Seq(UniBytes), NEW n \in 0 .. Len(coming)
  PROVE  LET rest == SubSeq(coming, n + 1, Len(coming))
         IN  rest \in Seq(UniBytes) /\ Thinned(fifo \o rest, fifo \o coming)
<1> DEFINE rest == SubSeq(coming, n + 1, Len(coming))
           thin == fifo \o rest
           all == fifo \o coming
           F == Len(fifo)
           C == Len(coming)
           m == C - n
<1>1. F \in Nat /\ C \in Nat /\ n \in 0 .. C /\ m \in Nat /\ m + n = C
  OBVIOUS
<1>2. rest \in Seq(UniBytes) /\ Len(rest) = m /\ \A j \in 1 .. m : rest[j] = coming[j + n]
  BY RestIs
<1> HIDE DEF rest, m
<1>3. /\ thin \in Seq(UniBytes) /\ Len(thin) = F + m
      /\ \A j \in 1 .. F + m : thin[j] = IF j <= F THEN fifo[j] ELSE rest[j - F]
  BY <1>1, <1>2, JoinIs
<1>4. /\ all \in Seq(UniBytes) /\ Len(all) = F + C
      /\ \A j \in 1 .. F + C : all[j] = IF j <= F THEN fifo[j] ELSE coming[j - F]
  BY <1>1, JoinIs
<1> HIDE DEF thin, all, F, C
<1>5. ASSUME NEW j \in 1 .. Len(thin)
      PROVE  thin[j] = all[IF j <= F THEN j + 0 ELSE j + n]
  <2>1. j \in 1 .. F + m
    BY <1>3
  <2>2. CASE j <= F
    <3>1. j + 0 = j /\ j \in 1 .. F + C
      BY <1>1, <2>1, <2>2
    <3>2. QED
      BY <1>3, <1>4, <2>1, <2>2, <3>1
  <2>3. CASE j > F
    <3> DEFINE k == j - F
               i == j + n
               l == i - F
    <3>1. k \in 1 .. m /\ l = k + n /\ ~(i <= F) /\ i \in 1 .. F + C /\ ~(j <= F)
      BY <1>1, <2>1, <2>3
    <3>2. thin[j] = rest[k]
      BY <1>3, <2>1, <3>1
    <3> HIDE DEF k, i
    <3>3. all[i] = coming[l]
      BY <1>4, <3>1
    <3> HIDE DEF l
    <3>4. thin[j] = all[i]
      BY <1>2, <3>1, <3>2, <3>3
    <3>5. QED
      BY <3>1, <3>4 DEF i
  <2>4. QED
    BY <1>1, <2>1, <2>2, <2>3
<1>6. n \in Nat /\ 0 <= n /\ Len(thin) + n = Len(all) /\ 0 \in Nat /\ F \in Nat
  <2>1. F + m + n = F + C /\ n \in Nat /\ 0 <= n
    BY <1>1
  <2>2. Len(thin) = F + m /\ Len(all) = F + C
    BY <1>3, <1>4
  <2>3. QED
    BY <1>1, <2>1, <2>2
<1>7. Thinned(thin, all)
  BY <1>3, <1>4, <1>5, <1>6, DroppedIsThinned
<1>8. QED
  BY <1>2, <1>7 DEF thin, all, rest

--------------------------------------------------------------------------------
(* unibus: the invariants                                                  *)

PtDatas == [sum : Nat, timeout_ms : Int, remaining_len : Nat, step : {0, 1}, body_len : Nat]

ReaderPlaces == {"start", "loop", "yield", "stuck", "overrun"}

\* What the reader needs to be true of its variables: after the header the
\* first byte of the buffer is not written again.
ReaderTypes ==
  /\ uni_stream \in [{"port"} -> UniStreams]
  /\ uni_fifo \in [{"port"} -> Seq(UniBytes)]
  /\ uni_msg \in [{"port"} -> [1 .. UniMsgLen -> UniBytes]]
  /\ uni_pt_data \in PtDatas
  /\ uni_pt_data.step = 1 => uni_pt_data.sum > 0
  /\ uni_pc \in [{"port"} -> ReaderPlaces]
  /\ uni_delivered \in [{"port"} -> Seq(Nat)]

\* The buffer begins with a byte of the header.
Collecting == uni_pc["port"] # "start" /\ uni_pt_data.sum > 0

\* The frames had, the one that is collected and those to come are in order.
ReadsInOrder ==
  LET s    == uni_stream["port"]
      had  == uni_delivered["port"]
      left == uni_fifo["port"] \o uni_coming
  IN  /\ HadInOrder(s, had)
      /\ InOrder(s, had, left)
      /\ Collecting => Between(s, had, uni_msg["port"][1], left)

WasHad(f) == \E d \in DOMAIN uni_delivered["port"] : uni_delivered["port"][d] = f

PassedRight ==
  \A p \in uni_passed : /\ WasHad(p[1])
                        /\ FrameMeta[p[1]].dest # HOST
                        /\ FrameMeta[p[1]].dest \in SubIds[p[2]]

Answers == [frame : Nat, cmd : {"ACK_RD", "ACK_WR"}, index : Indices \cup {NOBODY}]

\* The answer in msg_body was had and given to no request.
AnswerWaits ==
  msg_body.body_recv =>
    /\ WasHad(msg_body.frame)
    /\ FrameMeta[msg_body.frame].dest = HOST
    /\ FrameMeta[msg_body.frame].cmd = msg_body.cmd_fun
    /\ FrameMeta[msg_body.frame].index = msg_body.cmd_index
    /\ \A k \in DOMAIN uni_got : uni_got[k].frame # msg_body.frame

\* The answers given were had, and are of the kind and the register asked for.
AnswersGiven ==
  \A k \in DOMAIN uni_got :
    /\ WasHad(uni_got[k].frame)
    /\ FrameMeta[uni_got[k].frame].dest = HOST
    /\ FrameMeta[uni_got[k].frame].cmd = uni_got[k].cmd
    /\ uni_got[k].cmd = "ACK_RD" => FrameMeta[uni_got[k].frame].index = uni_got[k].index
    /\ \A j \in DOMAIN uni_got : uni_got[j].frame = uni_got[k].frame => j = k

AnswerTypes ==
  /\ msg_body = [body_recv |-> msg_body.body_recv, cmd_fun |-> msg_body.cmd_fun,
                 cmd_index |-> msg_body.cmd_index, frame |-> msg_body.frame]
  /\ msg_body.frame \in Nat
  /\ uni_want \in [{"ACK_RD", "ACK_WR"} -> Indices \cup {NOBODY}]
  /\ uni_got \in Seq(Answers)

\* How much of a message its first c notifications hold.
Cut(bytes, c) == IF c <= Len(bytes) \div TrxMaxLen THEN c * TrxMaxLen ELSE Len(bytes)

\* Of a message to a subscriber, c notifications went out and the others wait.
NotesAreCut ==
  uni_air.steady =>
    /\ uni_out # <<>> => simulate
    /\ \E n \in {1, 2} :
         LET bytes == Reader!Frame(uni_air.meta, n, n, TRUE)
             notes == trx_notify(bytes)
         IN  \E c \in 0 .. Len(notes) :
               /\ uni_air.sent = SubSeq(bytes, 1, Cut(bytes, c))
               /\ uni_out = SubSeq(notes, c + 1, Len(notes))

UniInv ==
  /\ ReaderTypes /\ uni_coming \in Seq(UniBytes)
  /\ ReadsInOrder
  /\ PassedRight
  /\ AnswerTypes /\ AnswerWaits /\ AnswersGiven

\* What a step of the reader does: it takes r bytes; a frame it delivers begins
\* with the first byte of its buffer, and otherwise that byte stays, or is the
\* first of those it took.
LEMMA ReaderDoes ==
  ReaderTypes /\ Reader!apbus_serial_read("port") =>
    /\ ReaderTypes'
    /\ uni_stream' = uni_stream
    /\ \E r \in 0 .. Len(uni_fifo["port"]) :
         /\ uni_fifo'["port"] = SubSeq(uni_fifo["port"], r + 1, Len(uni_fifo["port"]))
         /\ \/ /\ uni_delivered' = uni_delivered
               /\ Collecting' =>
                    \/ Collecting /\ uni_msg'["port"][1] = uni_msg["port"][1]
                    \/ r = 1 /\ uni_msg'["port"][1] = uni_fifo["port"][1]
            \/ /\ Collecting
               /\ ~Collecting'
               /\ Opens(uni_msg["port"][1])
               /\ uni_delivered'["port"] = Append(uni_delivered["port"], uni_msg["port"][1].frame)
<1> SUFFICES ASSUME ReaderTypes, Reader!apbus_serial_read("port")
             PROVE  /\ ReaderTypes' /\ uni_stream' = uni_stream
                    /\ \E r \in 0 .. Len(uni_fifo["port"]) :
                         /\ uni_fifo'["port"] = SubSeq(uni_fifo["port"], r + 1, Len(uni_fifo["port"]))
                         /\ \/ /\ uni_delivered' = uni_delivered
                               /\ Collecting' =>
                                    \/ Collecting /\ uni_msg'["port"][1] = uni_msg["port"][1]
                                    \/ r = 1 /\ uni_msg'["port"][1] = uni_fifo["port"][1]
                            \/ /\ Collecting
                               /\ ~Collecting'
                               /\ Opens(uni_msg["port"][1])
                               /\ uni_delivered'["port"]
                                    = Append(uni_delivered["port"], uni_msg["port"][1].frame)
  OBVIOUS
<1> DEFINE fifo == uni_fifo["port"]
           msg == uni_msg["port"]
           sum == uni_pt_data.sum
           Goal == /\ ReaderTypes' /\ uni_stream' = uni_stream
                   /\ \E r \in 0 .. Len(fifo) :
                        /\ uni_fifo'["port"] = SubSeq(fifo, r + 1, Len(fifo))
                        /\ \/ /\ uni_delivered' = uni_delivered
                              /\ Collecting' =>
                                   \/ Collecting /\ uni_msg'["port"][1] = msg[1]
                                   \/ r = 1 /\ uni_msg'["port"][1] = fifo[1]
                           \/ /\ Collecting
                              /\ ~Collecting'
                              /\ Opens(msg[1])
                              /\ uni_delivered'["port"] = Append(uni_delivered["port"], msg[1].frame)
<1>1. /\ fifo \in Seq(UniBytes) /\ msg \in [1 .. UniMsgLen -> UniBytes] /\ UniMsgLen \in Nat \ {0}
      /\ sum \in Nat /\ uni_delivered["port"] \in Seq(Nat) /\ msg[1] \in UniBytes
      /\ msg[1].frame \in Nat /\ 1 \in 1 .. UniMsgLen
  BY UniNumbers DEF ReaderTypes, PtDatas, UniBytes
<1>2. 0 \in 0 .. Len(fifo) /\ fifo = SubSeq(fifo, 0 + 1, Len(fifo))
  BY <1>1
<1>3. \* How the protothread ends, with the buffer m of which the first byte was there.
      ASSUME NEW m, NEW rl \in Nat, m[1] = msg[1], Reader!EndRead("port", m, rl),
             rl > 0 => Collecting
      PROVE  /\ uni_pc' \in [{"port"} -> ReaderPlaces] /\ ~Collecting'
             /\ uni_delivered' \in [{"port"} -> Seq(Nat)]
             /\ \/ uni_delivered' = uni_delivered
                \/ /\ Collecting
                   /\ Opens(msg[1])
                   /\ uni_delivered'["port"] = Append(uni_delivered["port"], msg[1].frame)
  <2>1. uni_pc' \in [{"port"} -> ReaderPlaces] /\ uni_pc'["port"] = "start"
    BY <1>3 DEF Reader!EndRead, ReaderTypes, ReaderPlaces
  <2>2. CASE rl > 0 /\ Reader!check_integrity(m, rl)
    <3>1. m[1].frame = m[1].frame /\ m[1].pos = 1 /\ m[1].ok
      <4>1. 1 \in 1 .. rl
        BY <2>2
      <4>2. \A k \in 1 .. rl : m[k].frame = m[1].frame /\ m[k].pos = k /\ m[k].ok
        BY <2>2 DEF Reader!check_integrity
      <4>3. QED
        BY <4>1, <4>2
    <3>2. uni_delivered' = [uni_delivered EXCEPT !["port"] = Append(@, msg[1].frame)]
      BY <1>3, <2>2 DEF Reader!EndRead
    <3>3. uni_delivered'["port"] = Append(uni_delivered["port"], msg[1].frame)
      BY <3>2 DEF ReaderTypes
    <3>4. uni_delivered' \in [{"port"} -> Seq(Nat)]
      BY <1>1, <3>2 DEF ReaderTypes
    <3>5. QED
      BY <1>3, <2>1, <2>2, <3>1, <3>3, <3>4 DEF Opens, Collecting
  <2>3. CASE ~(rl > 0 /\ Reader!check_integrity(m, rl))
    <3>1. uni_delivered' = uni_delivered
      BY <1>3, <2>3 DEF Reader!EndRead, ReaderTypes
    <3>2. QED
      BY <2>1, <3>1 DEF Collecting, ReaderTypes
  <2>4. QED
    BY <2>2, <2>3
<1>4. CASE Reader!StartRead("port")
  <2>1. /\ uni_pt_data' = [[sum |-> 0, timeout_ms |-> 0, remaining_len |-> 0, step |-> 0, body_len |-> 0]
                             EXCEPT !.timeout_ms = UniTimeout]
        /\ uni_pc' = [uni_pc EXCEPT !["port"] = "loop"]
        /\ UNCHANGED <<uni_stream, uni_fifo, uni_msg, uni_delivered>>
    BY <1>4 DEF Reader!StartRead, Reader!FreshPtData
  <2>2. uni_pt_data' = [sum |-> 0, timeout_ms |-> UniTimeout, remaining_len |-> 0, step |-> 0, body_len |-> 0]
    BY <2>1
  <2>3. uni_pt_data' \in PtDatas /\ uni_pt_data'.sum = 0 /\ uni_pt_data'.step = 0
    BY <2>2, UniNumbers DEF PtDatas
  <2>4. ReaderTypes' /\ ~Collecting'
    BY <2>1, <2>3 DEF ReaderTypes, ReaderPlaces, Collecting
  <2>5. QED
    BY <1>2, <2>1, <2>4
<1>5. CASE Reader!SeekHeader("port")
  <2> DEFINE b == Head(fifo)
             m == [msg EXCEPT ![sum + 1] = b]
  <2>1. /\ uni_pt_data.step = 0 /\ sum # UniMsgLen /\ fifo # <<>>
        /\ uni_fifo' = [uni_fifo EXCEPT !["port"] = Tail(@)]
        /\ UNCHANGED <<uni_stream, uni_pc, uni_running, uni_delivered>>
        /\ uni_pc["port"] = "loop"
        /\ \/ /\ sum = 0
              /\ uni_pt_data' = [uni_pt_data EXCEPT !.sum = IF b.value = Reader!BC THEN 1 ELSE 0]
              /\ uni_msg' = [uni_msg EXCEPT !["port"] = m]
           \/ /\ sum = 1
              /\ uni_pt_data' = [uni_pt_data EXCEPT !.sum = Reader!AfterBC(b.value)]
              /\ uni_msg' = [uni_msg EXCEPT !["port"] = IF b.value = Reader!BC THEN [m EXCEPT ![1] = b] ELSE m]
           \/ /\ sum = 2
              /\ uni_pt_data' = [uni_pt_data EXCEPT !.sum = 3, !.body_len = b.value]
              /\ uni_msg' = [uni_msg EXCEPT !["port"] = m]
           \/ /\ sum = 3
              /\ uni_pt_data' = [uni_pt_data EXCEPT !.sum = 4, !.step = 1,
                                   !.body_len = @ + 256 * b.value,
                                   !.remaining_len = uni_pt_data.body_len + 256 * b.value + Reader!Fixed]
              /\ uni_msg' = [uni_msg EXCEPT !["port"] = m]
    BY <1>5 DEF Reader!SeekHeader, Reader!Continue
  <2>2. b \in UniBytes /\ b = fifo[1] /\ b.value \in Nat /\ 1 \in 0 .. Len(fifo)
        /\ Tail(fifo) \in Seq(UniBytes) /\ Tail(fifo) = SubSeq(fifo, 1 + 1, Len(fifo))
    <3>1. fifo \in Seq(UniBytes) /\ fifo # <<>>
      BY <1>1, <2>1
    <3> HIDE DEF fifo
    <3>2. b \in UniBytes /\ b = fifo[1] /\ 1 \in 0 .. Len(fifo)
      BY <3>1
    <3>3. Tail(fifo) \in Seq(UniBytes) /\ Tail(fifo) = SubSeq(fifo, 2, Len(fifo))
      BY <3>1, HeadTailProperties, TailIsSubSeq
    <3>4. QED
      BY <3>2, <3>3 DEF UniBytes
  <2>3. uni_fifo' \in [{"port"} -> Seq(UniBytes)] /\ uni_fifo'["port"] = SubSeq(fifo, 1 + 1, Len(fifo))
    BY <2>1, <2>2 DEF ReaderTypes
  <2> HIDE DEF b
  <2>4. m \in [1 .. UniMsgLen -> UniBytes] /\ [m EXCEPT ![1] = b] \in [1 .. UniMsgLen -> UniBytes]
    BY <1>1, <2>2
  <2>5. [m EXCEPT ![1] = b][1] = b /\ (sum > 0 => m[1] = msg[1]) /\ (sum = 0 => m[1] = b)
    BY <1>1
  <2> HIDE DEF m
  <2>6. Reader!AfterBC(b.value) \in {0, 1, 2} /\ (Reader!AfterBC(b.value) = 1 => b.value = Reader!BC)
        /\ (b.value = Reader!BC => Reader!AfterBC(b.value) = 1)
    BY DEF Reader!AfterBC, Reader!BC, Reader!CB
  <2>7. /\ uni_pt_data' \in PtDatas /\ (uni_pt_data'.step = 1 => uni_pt_data'.sum > 0)
        /\ uni_msg' \in [{"port"} -> [1 .. UniMsgLen -> UniBytes]]
        /\ uni_pt_data'.sum > 0 => \/ sum > 0 /\ uni_msg'["port"][1] = msg[1]
                                   \/ uni_msg'["port"][1] = b
    <3>1. CASE sum = 0
      <4>1. uni_pt_data' = [uni_pt_data EXCEPT !.sum = IF b.value = Reader!BC THEN 1 ELSE 0]
            /\ uni_msg' = [uni_msg EXCEPT !["port"] = m]
        BY <2>1, <3>1
      <4>2. uni_pt_data' \in PtDatas /\ uni_pt_data'.step = 0
        BY <2>1, <4>1 DEF ReaderTypes, PtDatas
      <4>3. QED
        BY <2>4, <2>5, <3>1, <4>1, <4>2 DEF ReaderTypes
    <3>2. CASE sum = 1
      <4>1. uni_pt_data' = [uni_pt_data EXCEPT !.sum = Reader!AfterBC(b.value)]
            /\ uni_msg' = [uni_msg EXCEPT !["port"] = IF b.value = Reader!BC THEN [m EXCEPT ![1] = b] ELSE m]
        BY <2>1, <3>2
      <4>2. uni_pt_data' \in PtDatas /\ uni_pt_data'.step = 0
        <5> DEFINE new == Reader!AfterBC(b.value)
        <5>1. new \in Nat /\ uni_pt_data' = [uni_pt_data EXCEPT !.sum = new]
          BY <2>6, <4>1
        <5> HIDE DEF new
        <5>2. QED
          BY <2>1, <5>1 DEF ReaderTypes, PtDatas
      <4>3. QED
        BY <2>4, <2>5, <3>2, <4>1, <4>2 DEF ReaderTypes
    <3>3. CASE sum = 2
      <4>1. uni_pt_data' = [uni_pt_data EXCEPT !.sum = 3, !.body_len = b.value]
            /\ uni_msg' = [uni_msg EXCEPT !["port"] = m]
        BY <2>1, <3>3
      <4>2. uni_pt_data' \in PtDatas /\ uni_pt_data'.step = 0
        <5> DEFINE new == b.value
        <5>1. new \in Nat /\ uni_pt_data' = [uni_pt_data EXCEPT !.sum = 3, !.body_len = new]
          BY <2>2, <4>1
        <5> HIDE DEF new
        <5>2. QED
          BY <2>1, <5>1 DEF ReaderTypes, PtDatas
      <4>3. QED
        BY <2>4, <2>5, <3>3, <4>1, <4>2 DEF ReaderTypes
    <3>4. CASE sum = 3
      <4>1. uni_pt_data' = [uni_pt_data EXCEPT !.sum = 4, !.step = 1,
                                   !.body_len = @ + 256 * b.value,
                                   !.remaining_len = uni_pt_data.body_len + 256 * b.value + Reader!Fixed]
            /\ uni_msg' = [uni_msg EXCEPT !["port"] = m]
        BY <2>1, <3>4
      <4>2. uni_pt_data' \in PtDatas /\ uni_pt_data'.sum = 4
        <5> DEFINE body == uni_pt_data.body_len + 256 * b.value
                   new == body + Reader!Fixed
        <5>1. body \in Nat /\ new \in Nat
          BY <2>2 DEF ReaderTypes, PtDatas, Reader!Fixed
        <5>2. uni_pt_data' = [uni_pt_data EXCEPT !.sum = 4, !.step = 1, !.body_len = body,
                                                 !.remaining_len = new]
          BY <4>1
        <5> HIDE DEF body, new
        <5>3. QED
          BY <5>1, <5>2 DEF ReaderTypes, PtDatas
      <4>3. QED
        BY <2>4, <2>5, <3>4, <4>1, <4>2 DEF ReaderTypes
    <3>5. QED
      BY <2>1, <3>1, <3>2, <3>3, <3>4
  <2>8. ReaderTypes'
    BY <2>1, <2>3, <2>7 DEF ReaderTypes
  <2>9. Collecting' => \/ Collecting /\ uni_msg'["port"][1] = msg[1]
                       \/ uni_msg'["port"][1] = fifo[1]
    BY <2>1, <2>2, <2>7 DEF Collecting
  <2>10. Goal
    BY <2>1, <2>2, <2>3, <2>8, <2>9
  <2>11. QED
    BY <2>10
<1>6. CASE Reader!ReadRest("port")
  <2> DEFINE rl == Reader!Readable("port")
             after == sum + rl
             m == [k \in 1 .. UniMsgLen |-> IF k > sum /\ k <= after THEN fifo[k - sum] ELSE msg[k]]
  <2>1. /\ uni_pt_data.step = 1 /\ uni_pc["port"] = "loop"
        /\ uni_fifo' = [uni_fifo EXCEPT !["port"] = SubSeq(@, rl + 1, Len(@))]
        /\ uni_msg' = [uni_msg EXCEPT !["port"] = m]
        /\ uni_pt_data' = [uni_pt_data EXCEPT !.sum = after, !.remaining_len = @ - rl]
        /\ \/ Reader!EndRead("port", m, after)
           \/ UNCHANGED <<uni_pc, uni_running, uni_delivered>>
           \/ uni_pc' = [uni_pc EXCEPT !["port"] = "overrun"] /\ UNCHANGED uni_delivered
        /\ UNCHANGED uni_stream
    BY <1>6 DEF Reader!ReadRest, Reader!Continue, Reader!Overrun
  <2>2. rl \in 0 .. Len(fifo) /\ rl <= uni_pt_data.remaining_len /\ rl \in Nat
        /\ uni_pt_data.remaining_len \in Nat /\ sum > 0
    BY <1>1, <2>1 DEF Reader!Readable, ReaderTypes, PtDatas
  <2> HIDE DEF rl
  <2>3. after \in Nat /\ after > 0
    BY <1>1, <2>2
  <2>4. m \in [1 .. UniMsgLen -> UniBytes]
    <3>1. ASSUME NEW k \in 1 .. UniMsgLen, k > sum, k <= after PROVE fifo[k - sum] \in UniBytes
      <4>1. k - sum \in 1 .. Len(fifo)
        BY <1>1, <2>2, <3>1
      <4>2. QED
        BY <1>1, <4>1
    <3>2. QED
      BY <1>1, <3>1
  <2>5. m[1] = msg[1]
    BY <1>1, <2>2
  <2> HIDE DEF m, after
  <2>6. uni_pt_data' \in PtDatas /\ uni_pt_data'.sum > 0
    <3> DEFINE rest == uni_pt_data.remaining_len - rl
    <3>1. rest \in Nat
      BY <2>2
    <3>2. uni_pt_data' = [uni_pt_data EXCEPT !.sum = after, !.remaining_len = rest]
      BY <2>1
    <3> HIDE DEF rest
    <3>3. QED
      BY <2>3, <3>1, <3>2 DEF ReaderTypes, PtDatas
  <2>7. uni_msg' \in [{"port"} -> [1 .. UniMsgLen -> UniBytes]] /\ uni_msg'["port"][1] = msg[1]
    BY <2>1, <2>4, <2>5 DEF ReaderTypes
  <2>8. SubSeq(fifo, rl + 1, Len(fifo)) \in Seq(UniBytes)
    BY <1>1, <2>2
  <2>9. /\ uni_fifo' \in [{"port"} -> Seq(UniBytes)]
        /\ uni_fifo'["port"] = SubSeq(fifo, rl + 1, Len(fifo))
    BY <2>1, <2>8 DEF ReaderTypes
  <2>10. Collecting
    BY <2>1, <2>2 DEF Collecting
  <2>11. CASE Reader!EndRead("port", m, after)
    <3>1. /\ uni_pc' \in [{"port"} -> ReaderPlaces] /\ ~Collecting'
          /\ uni_delivered' \in [{"port"} -> Seq(Nat)]
          /\ \/ uni_delivered' = uni_delivered
             \/ /\ Collecting
                /\ Opens(msg[1])
                /\ uni_delivered'["port"] = Append(uni_delivered["port"], msg[1].frame)
      BY <1>3, <2>3, <2>5, <2>10, <2>11
    <3>2. ReaderTypes'
      BY <2>1, <2>6, <2>7, <2>9, <3>1 DEF ReaderTypes
    <3>3. Goal
      BY <2>1, <2>2, <2>9, <3>1, <3>2
    <3>4. QED
      BY <3>3
  <2>12. CASE \/ UNCHANGED <<uni_pc, uni_running, uni_delivered>>
              \/ uni_pc' = [uni_pc EXCEPT !["port"] = "overrun"] /\ UNCHANGED uni_delivered
    <3>0. uni_pc' \in [{"port"} -> ReaderPlaces] /\ uni_delivered' = uni_delivered
      BY <2>12 DEF ReaderTypes, ReaderPlaces
    <3>1. ReaderTypes'
      BY <2>1, <2>6, <2>7, <2>9, <3>0 DEF ReaderTypes
    <3>2. Goal
      BY <2>1, <2>2, <2>7, <2>9, <2>10, <3>0, <3>1
    <3>3. QED
      BY <3>2
  <2>13. QED
    BY <2>1, <2>11, <2>12
<1>7. \* The others leave the ring and the buffer as they are.
      ASSUME NEW rl \in Nat, UNCHANGED <<uni_stream, uni_fifo, uni_msg>>,
             uni_pt_data' \in PtDatas, uni_pt_data'.sum = sum, uni_pt_data'.step = uni_pt_data.step,
             rl > 0 => Collecting,
             \/ Reader!EndRead("port", msg, rl)
             \/ /\ uni_pc' \in [{"port"} -> ReaderPlaces \ {"start"}] /\ uni_pc["port"] # "start"
                /\ UNCHANGED uni_delivered
      PROVE  Goal
  <2>1. uni_fifo'["port"] = SubSeq(fifo, 0 + 1, Len(fifo)) /\ uni_msg'["port"][1] = msg[1]
    BY <1>2, <1>7
  <2>2. CASE Reader!EndRead("port", msg, rl)
    <3>1. /\ uni_pc' \in [{"port"} -> ReaderPlaces] /\ ~Collecting'
          /\ uni_delivered' \in [{"port"} -> Seq(Nat)]
          /\ \/ uni_delivered' = uni_delivered
             \/ /\ Collecting
                /\ Opens(msg[1])
                /\ uni_delivered'["port"] = Append(uni_delivered["port"], msg[1].frame)
      BY <1>3, <1>7, <2>2
    <3>2. ReaderTypes'
      BY <1>7, <3>1 DEF ReaderTypes
    <3>3. QED
      BY <1>2, <1>7, <2>1, <3>1, <3>2
  <2>3. CASE /\ uni_pc' \in [{"port"} -> ReaderPlaces \ {"start"}] /\ uni_pc["port"] # "start"
             /\ UNCHANGED uni_delivered
    <3>1. ReaderTypes'
      BY <1>7, <2>3 DEF ReaderTypes
    <3>2. Collecting' => Collecting
      BY <1>7, <2>3 DEF Collecting
    <3>3. QED
      BY <1>2, <1>7, <2>1, <2>3, <3>1, <3>2
  <2>4. QED
    BY <1>7, <2>2, <2>3
<1>8. CASE Reader!NothingToRead("port")
  <2>1. /\ UNCHANGED <<uni_stream, uni_fifo, uni_msg, uni_pt_data>> /\ uni_pc["port"] # "start"
        /\ \/ Reader!EndRead("port", msg, 0)
           \/ /\ \E at \in {"yield", "stuck"} : uni_pc' = [uni_pc EXCEPT !["port"] = at]
              /\ UNCHANGED uni_delivered
    BY <1>8 DEF Reader!NothingToRead, Reader!Yield
  <2>2. uni_pt_data' \in PtDatas /\ uni_pt_data'.sum = sum /\ uni_pt_data'.step = uni_pt_data.step
        /\ 0 \in Nat /\ ~(0 > 0)
    BY <2>1 DEF ReaderTypes
  <2>3. ASSUME NEW at \in {"yield", "stuck"}, uni_pc' = [uni_pc EXCEPT !["port"] = at]
        PROVE  uni_pc' \in [{"port"} -> ReaderPlaces \ {"start"}]
    BY <2>3 DEF ReaderTypes, ReaderPlaces
  <2>4. Goal
    BY <1>7, <2>1, <2>2, <2>3
  <2>5. QED
    BY <2>4
<1>9. CASE Reader!BufferFull("port")
  <2>1. /\ UNCHANGED <<uni_stream, uni_fifo, uni_msg, uni_pt_data>> /\ uni_pc["port"] = "loop"
        /\ Reader!EndRead("port", msg, sum)
    BY <1>9 DEF Reader!BufferFull
  <2>2. uni_pt_data' \in PtDatas /\ uni_pt_data'.sum = sum /\ uni_pt_data'.step = uni_pt_data.step
        /\ (sum > 0 => Collecting)
    BY <2>1 DEF ReaderTypes, Collecting
  <2>3. Goal
    BY <1>1, <1>7, <2>1, <2>2
  <2>4. QED
    BY <2>3
<1>10. CASE Reader!Resume("port")
  <2>1. /\ UNCHANGED <<uni_stream, uni_fifo, uni_msg>> /\ uni_pc["port"] = "yield"
        /\ uni_pt_data' = [uni_pt_data EXCEPT !.timeout_ms = @ - 1]
        /\ \/ Reader!EndRead("port", msg, sum)
           \/ uni_pc' = [uni_pc EXCEPT !["port"] = "loop"] /\ UNCHANGED uni_delivered
    BY <1>10 DEF Reader!Resume
  <2>2. uni_pt_data' \in PtDatas /\ uni_pt_data'.sum = sum /\ uni_pt_data'.step = uni_pt_data.step
    <3> DEFINE new == uni_pt_data.timeout_ms - 1
    <3>1. new \in Int /\ uni_pt_data' = [uni_pt_data EXCEPT !.timeout_ms = new]
      BY <2>1 DEF ReaderTypes, PtDatas
    <3> HIDE DEF new
    <3>2. QED
      BY <3>1 DEF ReaderTypes, PtDatas
  <2>3. uni_pc' = [uni_pc EXCEPT !["port"] = "loop"] => uni_pc' \in [{"port"} -> ReaderPlaces \ {"start"}]
    BY DEF ReaderTypes, ReaderPlaces
  <2>4. sum > 0 => Collecting
    BY <2>1 DEF Collecting
  <2>5. Goal
    BY <1>1, <1>7, <2>1, <2>2, <2>3, <2>4
  <2>6. QED
    BY <2>5
<1>11. QED
  BY <1>4, <1>5, <1>6, <1>8, <1>9, <1>10 DEF Reader!apbus_serial_read

\* Reading keeps the order, and a frame that is delivered was not had before.
LEMMA ReadKeepsOrder ==
  /\ ReaderTypes /\ uni_coming \in Seq(UniBytes) /\ ReadsInOrder
  /\ Reader!apbus_serial_read("port") /\ uni_coming' = uni_coming
  => /\ ReaderTypes' /\ ReadsInOrder'
     /\ \/ uni_delivered' = uni_delivered
        \/ \E f \in Nat : /\ ~WasHad(f)
                          /\ uni_delivered'["port"] = Append(uni_delivered["port"], f)
<1> SUFFICES ASSUME ReaderTypes, uni_coming \in Seq(UniBytes), ReadsInOrder,
                    Reader!apbus_serial_read("port"), uni_coming' = uni_coming
             PROVE  /\ ReaderTypes' /\ ReadsInOrder'
                    /\ \/ uni_delivered' = uni_delivered
                       \/ \E f \in Nat : /\ ~WasHad(f)
                                         /\ uni_delivered'["port"] = Append(uni_delivered["port"], f)
  OBVIOUS
<1> DEFINE s == uni_stream["port"]
           had == uni_delivered["port"]
           fifo == uni_fifo["port"]
           b == uni_msg["port"][1]
           all == fifo \o uni_coming
           Taken(r) == SubSeq(fifo, r + 1, Len(fifo)) \o uni_coming
<1>1. PICK r \in 0 .. Len(fifo) :
        /\ uni_fifo'["port"] = SubSeq(fifo, r + 1, Len(fifo))
        /\ \/ /\ uni_delivered' = uni_delivered
              /\ Collecting' => \/ Collecting /\ uni_msg'["port"][1] = b
                                \/ r = 1 /\ uni_msg'["port"][1] = fifo[1]
           \/ /\ Collecting
              /\ ~Collecting'
              /\ Opens(b)
              /\ uni_delivered'["port"] = Append(had, b.frame)
  BY ReaderDoes
<1>2. ReaderTypes' /\ uni_stream' = uni_stream
  BY ReaderDoes
<1>3. /\ fifo \in Seq(UniBytes) /\ had \in Seq(Nat) /\ b \in UniBytes /\ b.frame \in Nat
      /\ all \in Seq(UniBytes)
  <2>1. 1 \in 1 .. UniMsgLen
    BY UniNumbers
  <2>2. fifo \in Seq(UniBytes) /\ had \in Seq(Nat) /\ b \in UniBytes
    BY <2>1 DEF ReaderTypes
  <2>3. all \in Seq(UniBytes)
    BY <2>2, JoinIs
  <2>4. QED
    BY <2>2, <2>3 DEF UniBytes
<1>4. HadInOrder(s, had) /\ InOrder(s, had, all) /\ (Collecting => Between(s, had, b, all))
  BY DEF ReadsInOrder
<1> DEFINE thin == Taken(r)
<1>5. Thinned(thin, all)
  BY <1>3, TakenIsThinned
<1>6. uni_stream'["port"] = s /\ uni_fifo'["port"] \o uni_coming' = thin
  BY <1>1, <1>2
<1>7. r = 1 => Between(s, had, fifo[1], thin)
  <2> SUFFICES ASSUME r = 1 PROVE Between(s, had, fifo[1], thin)
    OBVIOUS
  <2>1. fifo # <<>> /\ all # <<>> /\ all[1] = fifo[1]
    BY <1>3
  <2>2. thin = Tail(all)
    <3>1. SubSeq(fifo, r + 1, Len(fifo)) = Tail(fifo)
      BY <1>3, <2>1, TailIsSubSeq
    <3>2. Tail(fifo \o uni_coming) = Tail(fifo) \o uni_coming
      <4>1. fifo = <<fifo[1]>> \o Tail(fifo) /\ Tail(fifo) \in Seq(UniBytes) /\ fifo[1] \in UniBytes
        BY <1>3, <2>1
      <4>2. fifo \o uni_coming = <<fifo[1]>> \o (Tail(fifo) \o uni_coming)
        <5> DEFINE one == <<fifo[1]>>
                   more == Tail(fifo)
        <5>1. one \in Seq(UniBytes) /\ more \in Seq(UniBytes) /\ fifo = one \o more
          BY <4>1
        <5> HIDE DEF one, more, fifo
        <5>2. (one \o more) \o uni_coming = one \o (more \o uni_coming)
          BY <5>1, ConcatAssociative
        <5>3. fifo \o uni_coming = one \o (more \o uni_coming)
          BY <5>1, <5>2
        <5>4. QED
          BY <5>3 DEF one, more
      <4>3. Tail(fifo) \o uni_coming \in Seq(UniBytes)
        BY <4>1, JoinIs
      <4> HIDE DEF fifo
      <4>4. \A x \in UniBytes, q \in Seq(UniBytes) : Tail(<<x>> \o q) = q
        OBVIOUS
      <4>5. QED
        BY <4>1, <4>2, <4>3, <4>4
    <3>3. QED
      BY <3>1, <3>2
  <2>3. QED
    BY <1>3, <1>4, <2>1, <2>2, FirstIsBetween
<1> HIDE DEF s, had, fifo, all, Taken, b, thin
<1>8. CASE /\ uni_delivered' = uni_delivered
           /\ Collecting' => \/ Collecting /\ uni_msg'["port"][1] = b
                             \/ r = 1 /\ uni_msg'["port"][1] = fifo[1]
  <2>1. HadInOrder(s, had) /\ InOrder(s, had, thin)
    BY <1>4, <1>5, ThinnedStaysInOrder
  <2>2. Collecting => Between(s, had, b, thin)
    BY <1>4, <1>5, ThinnedStaysInOrder
  <2>3. Collecting' => Between(s, had, uni_msg'["port"][1], thin)
    BY <1>7, <1>8, <2>2
  <2>4. ReadsInOrder'
    BY <1>6, <1>8, <2>1, <2>3 DEF ReadsInOrder, had
  <2>5. QED
    BY <1>2, <1>8, <2>4
<1>9. CASE /\ Collecting
           /\ ~Collecting'
           /\ Opens(b)
           /\ uni_delivered'["port"] = Append(had, b.frame)
  <2>1. HadInOrder(s, Append(had, b.frame)) /\ InOrder(s, Append(had, b.frame), all)
    BY <1>3, <1>4, <1>9, DeliveredInOrder
  <2>2. InOrder(s, Append(had, b.frame), thin)
    BY <1>5, <2>1, ThinnedStaysInOrder
  <2>3. ReadsInOrder'
    BY <1>6, <1>9, <2>1, <2>2 DEF ReadsInOrder
  <2>4. ~WasHad(b.frame)
    <3>1. At(s, b.frame) # {} /\ \A d \in DOMAIN had : Before(s, had[d], b.frame)
      BY <1>4, <1>9 DEF Between
    <3>2. ~Before(s, b.frame, b.frame)
      <4>1. PICK a : a \in At(s, b.frame)
        BY <3>1
      <4>2. a \in Nat
        <5>1. s \in Seq(UniBytes)
          BY UniStreamsAreBytes DEF s, ReaderTypes, UniBytes
        <5>2. QED
          BY <4>1, <5>1 DEF At
      <4>3. QED
        BY <4>1, <4>2 DEF Before
    <3>3. QED
      BY <3>1, <3>2 DEF WasHad, had
  <2>5. QED
    BY <1>2, <1>3, <1>9, <2>3, <2>4 DEF had
<1>10. QED
  BY <1>1, <1>8, <1>9

\* So does what the ring drops and what a write refuses.
LEMMA ArrivalKeepsOrder ==
  ASSUME NEW n \in Nat
  PROVE  /\ ReaderTypes /\ uni_coming \in Seq(UniBytes) /\ ReadsInOrder
         /\ n <= Len(uni_coming) /\ Arrived(n)
         /\ RingTakes(SubSeq(uni_coming, 1, n)) \/ UNCHANGED uni_fifo
         => ReaderTypes' /\ uni_coming' \in Seq(UniBytes) /\ ReadsInOrder'
<1> SUFFICES ASSUME ReaderTypes, uni_coming \in Seq(UniBytes), ReadsInOrder,
                    n <= Len(uni_coming), Arrived(n),
                    RingTakes(SubSeq(uni_coming, 1, n)) \/ UNCHANGED uni_fifo
             PROVE  ReaderTypes' /\ uni_coming' \in Seq(UniBytes) /\ ReadsInOrder'
  OBVIOUS
<1> DEFINE s == uni_stream["port"]
           had == uni_delivered["port"]
           fifo == uni_fifo["port"]
           b == uni_msg["port"][1]
           rest == SubSeq(uni_coming, n + 1, Len(uni_coming))
           some == SubSeq(uni_coming, 1, n)
           held == fifo \o some
<1>1. /\ uni_coming' = rest
      /\ UNCHANGED <<uni_stream, uni_msg, uni_pt_data, uni_pc, uni_delivered>>
  BY DEF Arrived
<1>2. fifo \in Seq(UniBytes) /\ n \in 0 .. Len(uni_coming) /\ uni_fifo \in [{"port"} -> Seq(UniBytes)]
  BY DEF ReaderTypes
<1>3. HadInOrder(s, had) /\ InOrder(s, had, fifo \o uni_coming)
      /\ (Collecting => Between(s, had, b, fifo \o uni_coming))
  BY DEF ReadsInOrder
<1>4. PICK left \in Seq(UniBytes) :
        /\ uni_fifo' = [uni_fifo EXCEPT !["port"] = left]
        /\ rest \in Seq(UniBytes)
        /\ Thinned(left \o rest, fifo \o uni_coming)
  <2>1. CASE RingTakes(some)
    <3> DEFINE d == IF Len(held) > FifoRoom THEN Len(held) - FifoRoom ELSE 0
               left == SubSeq(held, d + 1, Len(held))
    <3>1. some \in Seq(UniBytes) /\ Len(some) = n
      BY <1>2
    <3>2. held \in Seq(UniBytes) /\ Len(held) = Len(fifo) + n
      BY <1>2, <3>1, JoinIs
    <3>3. d \in 0 .. Len(fifo) + n
      BY <1>2, <3>2, UniNumbers
    <3>4. /\ left \in Seq(UniBytes) /\ rest \in Seq(UniBytes)
          /\ Thinned(left \o rest, fifo \o uni_coming)
      BY <1>2, <3>3, OverrunIsThinned
    <3>5. uni_fifo' = [uni_fifo EXCEPT !["port"] = left]
      <4>1. uni_fifo' = [uni_fifo EXCEPT !["port"] =
              IF Len(held) > FifoRoom THEN SubSeq(held, Len(held) - FifoRoom + 1, Len(held)) ELSE held]
        BY <2>1 DEF RingTakes
      <4>2. held = SubSeq(held, 0 + 1, Len(held))
        BY <3>2
      <4>3. QED
        BY <4>1, <4>2
    <3>6. QED
      BY <3>4, <3>5
  <2>2. CASE UNCHANGED uni_fifo
    <3>1. rest \in Seq(UniBytes) /\ Thinned(fifo \o rest, fifo \o uni_coming)
      BY <1>2, RefusedIsThinned
    <3>2. uni_fifo' = [uni_fifo EXCEPT !["port"] = fifo]
      BY <1>2, <2>2
    <3>3. QED
      BY <1>2, <3>1, <3>2
  <2>3. QED
    BY <2>1, <2>2
<1>5. uni_fifo' \in [{"port"} -> Seq(UniBytes)] /\ uni_fifo'["port"] = left
  BY <1>2, <1>4
<1>6. ReaderTypes'
  BY <1>1, <1>5 DEF ReaderTypes
<1>7. uni_fifo'["port"] \o uni_coming' = left \o rest
  BY <1>1, <1>5
<1> DEFINE all == fifo \o uni_coming
           thin == left \o rest
<1> HIDE DEF s, had, b, all, thin, rest, fifo
<1>8. HadInOrder(s, had) /\ InOrder(s, had, thin) /\ (Collecting => Between(s, had, b, thin))
  BY <1>3, <1>4, ThinnedStaysInOrder DEF all, thin
<1>9. ReadsInOrder'
  <2>1. Collecting' <=> Collecting
    BY <1>1 DEF Collecting
  <2>2. uni_stream'["port"] = s /\ uni_delivered'["port"] = had /\ uni_msg'["port"][1] = b
    BY <1>1 DEF s, had, b
  <2>3. QED
    BY <1>7, <1>8, <2>1, <2>2 DEF ReadsInOrder, thin
<1>10. QED
  BY <1>1, <1>4, <1>6, <1>9

\* Before anything is read the bytes to come are the stream.
LEMMA UniInitHolds == UniInit => UniInv
<1> SUFFICES ASSUME UniInit PROVE UniInv
  OBVIOUS
<1> DEFINE s == uni_stream["port"]
<1>1. /\ uni_stream \in [{"port"} -> UniStreams]
      /\ uni_fifo = [p \in {"port"} |-> <<>>]
      /\ uni_msg = [p \in {"port"} |-> [k \in 1 .. UniMsgLen |-> Reader!Noise(0)]]
      /\ uni_pt_data = [sum |-> 0, timeout_ms |-> 0, remaining_len |-> 0, step |-> 0, body_len |-> 0]
      /\ uni_pc = [p \in {"port"} |-> "start"]
      /\ uni_delivered = [p \in {"port"} |-> <<>>]
      /\ uni_coming = s
  BY DEF UniInit, Reader!Init, Reader!FreshPtData, Reader!Stale
<1>2. s \in UniStreams /\ s \in Seq(UniBytes)
  BY <1>1, UniStreamsAreBytes DEF UniBytes
<1>3. Reader!Noise(0) \in UniBytes
  BY DEF Reader!Noise, UniBytes
<1>4. ReaderTypes /\ uni_coming \in Seq(UniBytes)
  BY <1>1, <1>2, <1>3 DEF ReaderTypes, ReaderPlaces, PtDatas
<1>5. ReadsInOrder
  <2>1. uni_fifo["port"] \o uni_coming = s /\ uni_delivered["port"] = <<>> /\ ~Collecting
    BY <1>1, <1>2 DEF Collecting
  <2>2. \A j, k \in DOMAIN s : Opens(s[j]) /\ Opens(s[k]) /\ s[j].frame = s[k].frame => j = k
    BY <1>2, UniFramesDiffer DEF Opens
  <2> HIDE DEF s
  <2>3. \A j \in DOMAIN s : Opens(s[j]) => At(s, s[j].frame) = {j}
    BY <2>2 DEF At, Opens
  <2>4. InOrder(s, <<>>, s) /\ HadInOrder(s, <<>>)
    BY <2>3 DEF InOrder, HadInOrder, Before
  <2>5. QED
    BY <2>1, <2>4 DEF ReadsInOrder, s
<1>6. PassedRight /\ AnswerTypes /\ AnswerWaits /\ AnswersGiven
  BY DEF UniInit, PassedRight, AnswerTypes, AnswerWaits, AnswersGiven
<1>7. QED
  BY <1>4, <1>5, <1>6 DEF UniInv

\* What becomes of a frame f that was just delivered.
LEMMA DispatchDoes ==
  ASSUME NEW f \in Nat
  PROVE  \/ FrameMeta[f].dest = HOST /\ OwnCommand(f)
         \/ FrameMeta[f].dest # HOST /\ OtherCommand(f)
         => /\ \/ msg_body' = msg_body
               \/ /\ FrameMeta[f].dest = HOST
                  /\ msg_body' = [body_recv |-> TRUE, cmd_fun |-> FrameMeta[f].cmd,
                                  cmd_index |-> FrameMeta[f].index, frame |-> f]
            /\ \A p \in uni_passed' : \/ p \in uni_passed
                                      \/ /\ p[1] = f
                                         /\ FrameMeta[f].dest # HOST
                                         /\ FrameMeta[f].dest \in SubIds[p[2]]
<1>1. CASE FrameMeta[f].dest = HOST
  <2> DEFINE new == [body_recv |-> TRUE, cmd_fun |-> FrameMeta[f].cmd,
                     cmd_index |-> FrameMeta[f].index, frame |-> f]
  <2>1. FrameMeta[f].cmd \in {"ACK_RD", "ACK_WR"} /\ OwnCommand(f)
        => msg_body' = new /\ uni_passed' = uni_passed
    BY DEF OwnCommand, unibus_received_ack
  <2>2. FrameMeta[f].cmd \notin {"ACK_RD", "ACK_WR"} /\ OwnCommand(f)
        => msg_body' = msg_body /\ uni_passed' = uni_passed
    BY DEF OwnCommand
  <2> HIDE DEF new
  <2>3. OwnCommand(f) => (msg_body' = msg_body \/ msg_body' = new) /\ uni_passed' = uni_passed
    BY <2>1, <2>2
  <2>4. ASSUME uni_passed' = uni_passed, NEW p \in uni_passed' PROVE p \in uni_passed
    BY <2>4
  <2>5. QED
    BY <1>1, <2>3, <2>4 DEF new
<1>2. CASE FrameMeta[f].dest # HOST
  <2> DEFINE id == FrameMeta[f].dest
             devs == {k \in DOMAIN SubIds : id \in SubIds[k]}
             dev == unibus_find_dest_dev(id)
  <2>1. dev > 0 => id \in SubIds[dev]
    <3>1. dev = IF devs = {} THEN 0 ELSE CHOOSE k \in devs : \A j \in devs : k <= j
      BY DEF unibus_find_dest_dev
    <3>2. devs \subseteq Nat
      BY UniTable
    <3>3. CASE devs = {}
      BY <3>1, <3>3
    <3>4. CASE devs # {}
      <4>1. \E k \in devs : \A j \in devs : k <= j
        BY <3>2, <3>4, Least
      <4>2. dev \in devs
        BY <3>1, <3>4, <4>1
      <4>3. QED
        BY <4>2
    <3>5. QED
      BY <3>3, <3>4
  <2> HIDE DEF dev
  <2>2. OtherCommand(f) => /\ uni_passed' = IF dev > 0 THEN uni_passed \cup {<<f, dev>>} ELSE uni_passed
                           /\ msg_body' = msg_body
    BY DEF OtherCommand, dev
  <2>3. QED
    BY <1>2, <2>1, <2>2
<1>3. QED
  BY <1>1, <1>2

\* A frame that was not had is the answer to none of the requests.
LEMMA PollKeepsInv == UniInv /\ unibus_recv_poll => UniInv'
<1> SUFFICES ASSUME UniInv, unibus_recv_poll PROVE UniInv'
  OBVIOUS
<1> DEFINE had == uni_delivered["port"]
<1>1. /\ Reader!apbus_serial_read("port")
      /\ UNCHANGED <<uni_coming, uni_want, uni_got>>
      /\ IF uni_delivered' = uni_delivered
           THEN UNCHANGED <<msg_body, uni_passed>>
           ELSE LET f == Last(uni_delivered'["port"])
                IN  IF FrameMeta[f].dest = HOST THEN OwnCommand(f) ELSE OtherCommand(f)
  BY DEF unibus_recv_poll, unibus_receive_msg, unibus_serial_read, unibus_ble_read, send_vars
<1>2. /\ ReaderTypes' /\ ReadsInOrder' /\ uni_coming' \in Seq(UniBytes)
      /\ \/ uni_delivered' = uni_delivered
         \/ \E f \in Nat : ~WasHad(f) /\ uni_delivered'["port"] = Append(had, f)
  BY <1>1, ReadKeepsOrder DEF UniInv
<1>3. CASE uni_delivered' = uni_delivered
  <2>1. UNCHANGED <<uni_delivered, msg_body, uni_passed, uni_want, uni_got>>
    BY <1>1, <1>3
  <2>2. PassedRight' /\ AnswerTypes' /\ AnswerWaits' /\ AnswersGiven'
    BY <2>1 DEF UniInv, PassedRight, AnswerTypes, AnswerWaits, AnswersGiven, WasHad
  <2>3. QED
    BY <1>2, <2>2 DEF UniInv
<1>4. ASSUME NEW f \in Nat, ~WasHad(f), uni_delivered'["port"] = Append(had, f)
      PROVE  UniInv'
  <2>1. had \in Seq(Nat)
    BY DEF UniInv, ReaderTypes
  <2>2. /\ Last(uni_delivered'["port"]) = f /\ uni_delivered' # uni_delivered
        /\ WasHad(f)' /\ \A g : WasHad(g) => WasHad(g)'
    <3> HIDE DEF had
    <3> DEFINE new == Append(had, f)
    <3>1. /\ DOMAIN new = 1 .. Len(had) + 1 /\ DOMAIN had = 1 .. Len(had) /\ Len(had) \in Nat
          /\ new[Len(had) + 1] = f /\ Len(new) = Len(had) + 1
          /\ \A d \in DOMAIN had : new[d] = had[d]
      BY <2>1
    <3>2. Last(new) = f
      BY <3>1 DEF Last
    <3> HIDE DEF new
    <3>3. uni_delivered'["port"] = new
      BY <1>4 DEF new
    <3>4. Len(had) + 1 \in DOMAIN new /\ \A d \in DOMAIN had : d \in DOMAIN new
      BY <3>1
    <3>5. WasHad(f)'
      BY <3>1, <3>3, <3>4 DEF WasHad
    <3>6. ASSUME NEW g, WasHad(g) PROVE WasHad(g)'
      BY <3>1, <3>3, <3>4, <3>6 DEF WasHad, had
    <3>7. uni_delivered' # uni_delivered
      BY <1>4, <3>5 DEF WasHad
    <3>8. QED
      BY <3>2, <3>3, <3>5, <3>6, <3>7
  <2>3. /\ \/ msg_body' = msg_body
           \/ /\ FrameMeta[f].dest = HOST
              /\ msg_body' = [body_recv |-> TRUE, cmd_fun |-> FrameMeta[f].cmd,
                              cmd_index |-> FrameMeta[f].index, frame |-> f]
        /\ \A p \in uni_passed' : \/ p \in uni_passed
                                  \/ /\ p[1] = f
                                     /\ FrameMeta[f].dest # HOST
                                     /\ FrameMeta[f].dest \in SubIds[p[2]]
    <3>1. \/ FrameMeta[f].dest = HOST /\ OwnCommand(f)
          \/ FrameMeta[f].dest # HOST /\ OtherCommand(f)
      BY <1>1, <2>2
    <3>2. \/ FrameMeta[f].dest = HOST /\ OwnCommand(f)
          \/ FrameMeta[f].dest # HOST /\ OtherCommand(f)
          => /\ \/ msg_body' = msg_body
                \/ /\ FrameMeta[f].dest = HOST
                   /\ msg_body' = [body_recv |-> TRUE, cmd_fun |-> FrameMeta[f].cmd,
                                   cmd_index |-> FrameMeta[f].index, frame |-> f]
             /\ \A p \in uni_passed' : \/ p \in uni_passed
                                       \/ /\ p[1] = f
                                          /\ FrameMeta[f].dest # HOST
                                          /\ FrameMeta[f].dest \in SubIds[p[2]]
      BY <1>4, DispatchDoes
    <3>3. QED
      BY <3>1, <3>2
  <2>4. PassedRight'
    <3> SUFFICES ASSUME NEW p \in uni_passed'
                 PROVE  WasHad(p[1])' /\ FrameMeta[p[1]].dest # HOST /\ FrameMeta[p[1]].dest \in SubIds[p[2]]
      BY DEF PassedRight, WasHad
    <3>1. CASE p \in uni_passed
      BY <2>2, <3>1 DEF UniInv, PassedRight
    <3>2. CASE p \notin uni_passed
      BY <2>2, <2>3, <3>2
    <3>3. QED
      BY <3>1, <3>2
  <2>5. AnswerTypes'
    <3>1. CASE msg_body' = msg_body
      BY <1>1, <3>1 DEF UniInv, AnswerTypes
    <3>2. CASE msg_body' = [body_recv |-> TRUE, cmd_fun |-> FrameMeta[f].cmd,
                            cmd_index |-> FrameMeta[f].index, frame |-> f]
      BY <1>1, <3>2 DEF UniInv, AnswerTypes
    <3>3. QED
      BY <2>3, <3>1, <3>2
  <2>6. \A k \in DOMAIN uni_got : uni_got[k].frame # f
    BY <1>4 DEF UniInv, AnswersGiven
  <2>7. AnswerWaits'
    <3>1. CASE msg_body' = msg_body
      <4> SUFFICES ASSUME msg_body.body_recv
                   PROVE  /\ WasHad(msg_body.frame)'
                          /\ FrameMeta[msg_body.frame].dest = HOST
                          /\ FrameMeta[msg_body.frame].cmd = msg_body.cmd_fun
                          /\ FrameMeta[msg_body.frame].index = msg_body.cmd_index
                          /\ \A k \in DOMAIN uni_got : uni_got[k].frame # msg_body.frame
        BY <1>1, <3>1 DEF AnswerWaits, WasHad
      <4>1. /\ WasHad(msg_body.frame)
            /\ FrameMeta[msg_body.frame].dest = HOST
            /\ FrameMeta[msg_body.frame].cmd = msg_body.cmd_fun
            /\ FrameMeta[msg_body.frame].index = msg_body.cmd_index
            /\ \A k \in DOMAIN uni_got : uni_got[k].frame # msg_body.frame
        BY DEF UniInv, AnswerWaits
      <4>2. WasHad(msg_body.frame)'
        BY <2>2, <3>1, <4>1 DEF WasHad
      <4>3. QED
        BY <3>1, <4>1, <4>2
    <3>2. CASE FrameMeta[f].dest = HOST /\ msg_body' = [body_recv |-> TRUE, cmd_fun |-> FrameMeta[f].cmd,
                            cmd_index |-> FrameMeta[f].index, frame |-> f]
      BY <1>1, <2>2, <2>6, <3>2 DEF AnswerWaits, WasHad
    <3>3. QED
      BY <2>3, <3>1, <3>2
  <2>8. AnswersGiven'
    <3> SUFFICES ASSUME NEW k \in DOMAIN uni_got
                 PROVE  /\ WasHad(uni_got[k].frame)'
                        /\ FrameMeta[uni_got[k].frame].dest = HOST
                        /\ FrameMeta[uni_got[k].frame].cmd = uni_got[k].cmd
                        /\ uni_got[k].cmd = "ACK_RD" => FrameMeta[uni_got[k].frame].index = uni_got[k].index
                        /\ \A j \in DOMAIN uni_got : uni_got[j].frame = uni_got[k].frame => j = k
      BY <1>1 DEF AnswersGiven, WasHad
    <3>1. /\ WasHad(uni_got[k].frame)
          /\ FrameMeta[uni_got[k].frame].dest = HOST
          /\ FrameMeta[uni_got[k].frame].cmd = uni_got[k].cmd
          /\ uni_got[k].cmd = "ACK_RD" => FrameMeta[uni_got[k].frame].index = uni_got[k].index
          /\ \A j \in DOMAIN uni_got : uni_got[j].frame = uni_got[k].frame => j = k
      BY DEF UniInv, AnswersGiven
    <3>2. WasHad(uni_got[k].frame)'
      BY <1>1, <2>2, <3>1 DEF WasHad
    <3>3. QED
      BY <1>1, <3>1, <3>2
  <2>9. QED
    BY <1>2, <2>4, <2>5, <2>7, <2>8 DEF UniInv
<1>5. QED
  BY <1>2, <1>3, <1>4

\* A request takes the answer away when it is given it.
LEMMA AwaitedKeepsInv ==
  ASSUME NEW ack \in {"ACK_RD", "ACK_WR"}
  PROVE  UniInv /\ Awaited(ack) => UniInv'
<1> SUFFICES ASSUME UniInv, Awaited(ack) PROVE UniInv'
  OBVIOUS
<1>1. /\ uni_want' = [uni_want EXCEPT ![ack] = NOBODY]
      /\ UNCHANGED <<uni_stream, uni_fifo, uni_msg, uni_pt_data, uni_pc, uni_delivered,
                     uni_coming, uni_passed>>
      /\ IF unibus_body_get(ack)
           THEN /\ msg_body' = [msg_body EXCEPT !.body_recv = FALSE]
                /\ uni_got' = Append(uni_got, [frame |-> msg_body.frame, cmd |-> ack,
                                               index |-> uni_want[ack]])
           ELSE UNCHANGED <<msg_body, uni_got>>
  BY DEF Awaited, read_vars
<1>2. ReaderTypes' /\ uni_coming' \in Seq(UniBytes) /\ ReadsInOrder' /\ PassedRight'
  BY <1>1 DEF UniInv, ReaderTypes, ReadsInOrder, Collecting, PassedRight, WasHad
<1>3. uni_want' \in [{"ACK_RD", "ACK_WR"} -> Indices \cup {NOBODY}]
  BY <1>1 DEF UniInv, AnswerTypes
<1>4. CASE unibus_body_get(ack)
  <2> DEFINE new == [frame |-> msg_body.frame, cmd |-> ack, index |-> uni_want[ack]]
             n == Len(uni_got)
             all == Append(uni_got, new)
  <2>1. new \in Answers /\ uni_got \in Seq(Answers)
    BY DEF UniInv, AnswerTypes, Answers
  <2>2. /\ msg_body.body_recv /\ msg_body.cmd_fun = ack
        /\ ack = "ACK_RD" => msg_body.cmd_index = uni_want[ack]
    BY <1>4 DEF unibus_body_get
  <2>3. /\ new.frame = msg_body.frame /\ new.cmd = ack /\ new.index = uni_want[ack]
    OBVIOUS
  <2> HIDE DEF new
  <2>4. /\ WasHad(new.frame) /\ FrameMeta[new.frame].dest = HOST
        /\ FrameMeta[new.frame].cmd = new.cmd
        /\ new.cmd = "ACK_RD" => FrameMeta[new.frame].index = new.index
        /\ \A k \in DOMAIN uni_got : uni_got[k].frame # new.frame
    BY <2>2, <2>3 DEF UniInv, AnswerWaits
  <2>5. all \in Seq(Answers) /\ DOMAIN all = 1 .. n + 1 /\ DOMAIN uni_got = 1 .. n /\ n \in Nat
        /\ all[n + 1] = new /\ \A k \in 1 .. n : all[k] = uni_got[k]
    BY <2>1
  <2>6. uni_got' = all /\ msg_body' = [msg_body EXCEPT !.body_recv = FALSE]
    BY <1>1, <1>4 DEF new
  <2> HIDE DEF n, all
  <2>7. \A k \in DOMAIN all : \/ k \in DOMAIN uni_got /\ all[k] = uni_got[k]
                              \/ k = n + 1 /\ all[k] = new
    BY <2>5
  <2>8. AnswersGiven'
    <3>1. ASSUME NEW k \in DOMAIN all
          PROVE  /\ WasHad(all[k].frame)
                 /\ FrameMeta[all[k].frame].dest = HOST
                 /\ FrameMeta[all[k].frame].cmd = all[k].cmd
                 /\ all[k].cmd = "ACK_RD" => FrameMeta[all[k].frame].index = all[k].index
      BY <2>4, <2>7 DEF UniInv, AnswersGiven
    <3>2. ASSUME NEW k \in DOMAIN all, NEW j \in DOMAIN all, all[j].frame = all[k].frame PROVE j = k
      BY <2>4, <2>7, <3>2 DEF UniInv, AnswersGiven
    <3>3. \A g : WasHad(g)' <=> WasHad(g)
      BY <1>1 DEF WasHad
    <3>4. QED
      BY <2>6, <3>1, <3>2, <3>3 DEF AnswersGiven, WasHad
  <2>9. msg_body' = [body_recv |-> FALSE, cmd_fun |-> msg_body.cmd_fun,
                     cmd_index |-> msg_body.cmd_index, frame |-> msg_body.frame]
    BY <2>6 DEF UniInv, AnswerTypes
  <2>10. AnswerTypes' /\ AnswerWaits'
    BY <1>3, <2>5, <2>6, <2>9 DEF UniInv, AnswerTypes, AnswerWaits
  <2>11. QED
    BY <1>2, <2>8, <2>10 DEF UniInv
<1>5. CASE ~unibus_body_get(ack)
  <2>1. UNCHANGED <<msg_body, uni_got, uni_delivered>>
    BY <1>1, <1>5
  <2>2. AnswerTypes' /\ AnswerWaits' /\ AnswersGiven'
    BY <1>3, <2>1 DEF UniInv, AnswerTypes, AnswerWaits, AnswersGiven, WasHad
  <2>3. QED
    BY <1>2, <2>2 DEF UniInv
<1>6. QED
  BY <1>4, <1>5

LEMMA UniNextKeepsInv == UniInv /\ [UniNext]_uni_vars => UniInv'
<1> SUFFICES ASSUME UniInv, [UniNext]_uni_vars PROVE UniInv'
  OBVIOUS
<1>1. \* Steps that neither read nor ask.
      ASSUME UNCHANGED <<read_vars, ask_vars, uni_coming, uni_passed>> PROVE UniInv'
  BY <1>1 DEF UniInv, ReaderTypes, ReadsInOrder, Collecting, PassedRight, AnswerTypes,
              AnswerWaits, AnswersGiven, WasHad, read_vars, ask_vars
<1>2. ASSUME NEW n \in Bursts, UartBytes(n) \/ write_trx_c2s(n) PROVE UniInv'
  <2>1. /\ n \in Nat /\ n <= Len(uni_coming) /\ Arrived(n)
        /\ RingTakes(SubSeq(uni_coming, 1, n)) \/ UNCHANGED uni_fifo
    BY <1>2, UniNumbers DEF UartBytes, write_trx_c2s
  <2>2. ReaderTypes' /\ uni_coming' \in Seq(UniBytes) /\ ReadsInOrder'
    BY <2>1, ArrivalKeepsOrder DEF UniInv
  <2>3. UNCHANGED <<uni_delivered, uni_passed, msg_body, uni_want, uni_got>>
    BY <2>1 DEF Arrived, ask_vars
  <2>4. PassedRight' /\ AnswerTypes' /\ AnswerWaits' /\ AnswersGiven'
    BY <2>3 DEF UniInv, PassedRight, AnswerTypes, AnswerWaits, AnswersGiven, WasHad
  <2>5. QED
    BY <2>2, <2>4 DEF UniInv
<1>3. CASE Notify
  BY <1>1, <1>3 DEF Notify
<1>4. CASE trx_s2c_ccc_cfg_changed
  BY <1>1, <1>4 DEF trx_s2c_ccc_cfg_changed
<1>5. CASE unibus_recv_poll
  BY <1>5, PollKeepsInv
<1>6. ASSUME NEW ack \in {"ACK_RD", "ACK_WR"}, NEW cmd, NEW i \in Indices, Ask(cmd, ack, i, 2)
      PROVE  UniInv'
  <2>1. /\ uni_want' = [uni_want EXCEPT ![ack] = i]
        /\ UNCHANGED <<uni_stream, uni_fifo, uni_msg, uni_pt_data, uni_pc, uni_delivered,
                       uni_coming, uni_passed, msg_body, uni_got>>
    BY <1>6 DEF Ask, read_vars
  <2>2. ReaderTypes' /\ uni_coming' \in Seq(UniBytes) /\ ReadsInOrder' /\ PassedRight'
    BY <2>1 DEF UniInv, ReaderTypes, ReadsInOrder, Collecting, PassedRight, WasHad
  <2>3. AnswerTypes' /\ AnswerWaits' /\ AnswersGiven'
    BY <2>1 DEF UniInv, AnswerTypes, AnswerWaits, AnswersGiven, WasHad
  <2>4. QED
    BY <2>2, <2>3 DEF UniInv
<1>7. CASE unibus_read_reg_poll
  BY <1>6, <1>7, AwaitedKeepsInv DEF unibus_read_reg_poll, unibus_read_reg_send
<1>8. CASE unibus_write_reg_poll
  BY <1>6, <1>8, AwaitedKeepsInv DEF unibus_write_reg_poll, unibus_write_reg_send
<1>9. CASE UNCHANGED uni_vars
  BY <1>1, <1>9 DEF uni_vars
<1>10. QED
  BY <1>2, <1>3, <1>4, <1>5, <1>7, <1>8, <1>9 DEF UniNext

\* For all streams and rings: what unibus acts on is what was sent, in order.
THEOREM UnibusDeliversInOrder == UniSpec => []UniDeliversFramesSent
<1>1. UniInv => UniDeliversFramesSent
  <2>1. \A f : Openings(f) = At(uni_stream["port"], f)
    BY DEF Openings, At
  <2>2. QED
    BY <2>1 DEF UniInv, UniDeliversFramesSent, ReadsInOrder, HadInOrder, Before, PassedRight, WasHad
<1>2. QED
  BY <1>1, UniInitHolds, UniNextKeepsInv, PTL DEF UniSpec

\* For all of them: a request is given an answer to it, and no other is given it.
THEOREM UnibusAnswersOnce == UniSpec => []UniAnswerOnce
<1>1. UniInv => UniAnswerOnce
  BY DEF UniInv, UniAnswerOnce, AnswersGiven
<1>2. QED
  BY <1>1, UniInitHolds, UniNextKeepsInv, PTL DEF UniSpec

--------------------------------------------------------------------------------
(* unibus: what is sent                                                    *)

LEMMA Divided ==
  ASSUME NEW a \in Nat, NEW t \in Nat \ {0}
  PROVE  a \div t \in Nat /\ a % t \in 0 .. t - 1 /\ a = (a \div t) * t + (a % t)
BY SMT

LEMMA ProductsGrow ==
  ASSUME NEW t \in Nat, NEW a \in Nat, NEW b \in Nat, a <= b
  PROVE  a * t \in Nat /\ b * t \in Nat /\ a * t <= b * t /\ (a + 1) * t = a * t + t /\ 0 * t = 0
BY SMT

\* trx_notify cuts a message where the one notification ends and the next begins.
LEMMA NextNote ==
  ASSUME NEW S, NEW bytes \in Seq(S), NEW c \in 0 .. Len(trx_notify(bytes))
  PROVE  LET notes == trx_notify(bytes)
             N == Len(notes)
             out == SubSeq(notes, c + 1, N)
         IN  /\ N \in Nat /\ Cut(bytes, 0) = 0
             /\ c = N => SubSeq(bytes, 1, Cut(bytes, c)) = bytes /\ out = <<>>
             /\ c < N => /\ out # <<>>
                         /\ Tail(out) = SubSeq(notes, c + 2, N)
                         /\ SubSeq(bytes, 1, Cut(bytes, c)) \o Head(out) = SubSeq(bytes, 1, Cut(bytes, c + 1))
<1> DEFINE notes == trx_notify(bytes)
           N == Len(notes)
           out == SubSeq(notes, c + 1, N)
           L == Len(bytes)
           T == TrxMaxLen
           B == L \div T
           R == L % T
           last == IF R > 0 THEN 1 ELSE 0
           a == Cut(bytes, c)
           b == Cut(bytes, c + 1)
<1>1. L \in Nat /\ T \in Nat \ {0}
  BY UniNumbers
<1>2. B \in Nat /\ R \in 0 .. T - 1 /\ L = B * T + R /\ B * T \in Nat
  <2> HIDE DEF L
  <2>1. B \in Nat /\ R \in 0 .. T - 1 /\ L = B * T + R
    BY <1>1, Divided
  <2> HIDE DEF B, R
  <2>2. QED
    BY <1>1, <2>1, ProductsGrow
<1>3. /\ Len(notes) = B + last /\ DOMAIN notes = 1 .. B + last
      /\ \A i \in 1 .. B + last :
           notes[i] = IF i <= B THEN SubSeq(bytes, (i - 1) * T + 1, i * T)
                                ELSE SubSeq(bytes, B * T + 1, B * T + R)
  <2>1. notes = [i \in 1 .. B + last |->
                   IF i <= B THEN SubSeq(bytes, (i - 1) * T + 1, i * T)
                   ELSE SubSeq(bytes, B * T + 1, B * T + R)]
    BY DEF trx_notify
  <2>2. B + last \in Nat
    BY <1>2
  <2> HIDE DEF notes, B, R, last, T
  <2>3. QED
    BY <2>1, <2>2
<1>4. /\ a = IF c <= B THEN c * T ELSE L
      /\ b = IF c + 1 <= B THEN (c + 1) * T ELSE L
      /\ Cut(bytes, 0) = IF 0 <= B THEN 0 * T ELSE L
  BY DEF Cut
<1>5. last \in {0, 1} /\ (last = 0 <=> R = 0) /\ N = B + last /\ N \in Nat /\ c \in 0 .. N
  BY <1>2, <1>3
<1> HIDE DEF notes, B, R, last, T, L, a, b
<1>6. Cut(bytes, 0) = 0
  BY <1>1, <1>2, <1>4, ProductsGrow
<1>7. ASSUME c = N PROVE SubSeq(bytes, 1, a) = bytes /\ out = <<>>
  <2>1. a = L
    <3>1. CASE last = 0
      BY <1>1, <1>2, <1>4, <1>5, <1>7, <3>1
    <3>2. CASE last = 1
      BY <1>2, <1>4, <1>5, <1>7, <3>2
    <3>3. QED
      BY <1>5, <3>1, <3>2
  <2>2. out = <<>>
    BY <1>5, <1>7, SubSeqEmpty
  <2>3. QED
    BY <2>1, <2>2, SubSeqFull DEF L
<1>8. notes \in Seq(Seq(S))
  <2>1. ASSUME NEW i \in 1 .. B + last, i <= B PROVE SubSeq(bytes, (i - 1) * T + 1, i * T) \in Seq(S)
    <3> DEFINE m == (i - 1) * T
               n == i * T
    <3>1. i - 1 \in Nat /\ i \in Nat /\ i <= B /\ i - 1 <= i
      BY <1>2, <1>5, <2>1
    <3>2. m \in Nat /\ n \in Nat /\ n <= B * T
      BY <1>1, <1>2, <3>1, ProductsGrow
    <3> HIDE DEF m, n
    <3>3. \A k \in m + 1 .. n : bytes[k] \in S
      BY <1>2, <3>2 DEF L
    <3>4. m + 1 \in Int /\ n \in Int
      BY <3>2
    <3>5. SubSeq(bytes, m + 1, n) \in Seq(S)
      BY <3>3, <3>4, SubSeqProperties
    <3>6. QED
      BY <3>5 DEF m, n
  <2>2. SubSeq(bytes, B * T + 1, B * T + R) \in Seq(S)
    <3> DEFINE m == B * T
    <3>1. m \in Nat /\ m + R = L /\ R \in Nat
      BY <1>1, <1>2
    <3> HIDE DEF m
    <3>2. \A k \in m + 1 .. m + R : bytes[k] \in S
      BY <3>1 DEF L
    <3>3. m + 1 \in Int /\ m + R \in Int
      BY <3>1
    <3>4. SubSeq(bytes, m + 1, m + R) \in Seq(S)
      BY <3>2, <3>3, SubSeqProperties
    <3>5. QED
      BY <3>4 DEF m
  <2>3. \A i \in 1 .. B + last : notes[i] \in Seq(S)
    BY <1>3, <2>1, <2>2
  <2>4. B + last \in Nat
    BY <1>2, <1>5
  <2>5. notes = [i \in 1 .. B + last |-> notes[i]]
    BY <1>2 DEF trx_notify, notes, B, R, last, T, L
  <2> DEFINE M == B + last
             Q == Seq(S)
  <2>6. M \in Nat /\ notes = [i \in 1 .. M |-> notes[i]] /\ \A i \in 1 .. M : notes[i] \in Q
    BY <2>3, <2>4, <2>5
  <2> HIDE DEF M, Q
  <2>7. notes \in Seq(Q)
    BY <2>6
  <2>8. QED
    BY <2>7 DEF Q
<1>9. ASSUME c < N
      PROVE  /\ out # <<>> /\ Tail(out) = SubSeq(notes, c + 2, N)
             /\ SubSeq(bytes, 1, a) \o Head(out) = SubSeq(bytes, 1, b)
  <2>1. c + 1 \in 1 .. N /\ N \in c + 1 .. N /\ c + 1 + 1 = c + 2
    BY <1>5, <1>9
  <2>2. Head(out) = notes[c + 1] /\ Tail(out) = SubSeq(notes, c + 2, N)
    BY <1>8, <2>1, HeadTailOfSubSeq
  <2>3. out # <<>>
    <3> DEFINE Q == Seq(S)
    <3>1. notes \in Seq(Q) /\ c + 1 \in 1 .. Len(notes)
      BY <1>8, <2>1
    <3> HIDE DEF Q
    <3>2. QED
      BY <3>1
  <2>4. a \in Nat /\ b \in Nat /\ a <= b /\ b <= L /\ notes[c + 1] = SubSeq(bytes, a + 1, b)
    <3>1. CASE c + 1 <= B
      <4>1. c \in Nat /\ c + 1 \in Nat /\ c <= B /\ c + 1 <= B /\ c + 1 - 1 = c
        BY <1>5, <1>2, <3>1
      <4>2. a = c * T /\ b = (c + 1) * T
        BY <1>4, <4>1
      <4>3. a \in Nat /\ b \in Nat /\ b = a + T /\ b <= B * T
        BY <1>1, <1>2, <4>1, <4>2, ProductsGrow
      <4>4. notes[c + 1] = SubSeq(bytes, c * T + 1, (c + 1) * T)
        BY <1>3, <1>5, <2>1, <4>1
      <4>5. QED
        BY <1>1, <1>2, <4>2, <4>3, <4>4
    <3>2. CASE ~(c + 1 <= B)
      <4>1. c = B /\ last = 1
        BY <1>2, <1>5, <1>9, <3>2
      <4>2. a = B * T /\ b = L
        BY <1>2, <1>4, <3>2, <4>1
      <4>3. notes[c + 1] = SubSeq(bytes, B * T + 1, B * T + R)
        BY <1>3, <1>5, <2>1, <3>2
      <4>4. QED
        BY <1>1, <1>2, <4>2, <4>3
    <3>3. QED
      BY <3>1, <3>2
  <2>5. SubSeq(bytes, 1, a) \o SubSeq(bytes, a + 1, b) = SubSeq(bytes, 1, b)
    <3>1. 1 \in 1 .. Len(bytes) + 1 /\ a \in 1 - 1 .. Len(bytes) /\ b \in a .. Len(bytes)
      BY <1>1, <2>4 DEF L
    <3>2. QED
      BY <3>1, ConcatAdjacentSubSeq
  <2>6. QED
    BY <2>2, <2>3, <2>4, <2>5
<1>10. QED
  BY <1>5, <1>6, <1>7, <1>9 DEF a, b, notes

\* A message that is made for meta, and what is left to do of it.
MessageOf(meta, n) == Reader!Frame(meta, n, n, TRUE)

BytesOf(message) == {message[k] : k \in DOMAIN message}

NotesInv ==
  /\ uni_air = [meta |-> uni_air.meta, sent |-> uni_air.sent, steady |-> uni_air.steady]
  /\ NotesAreCut

LEMMA MessageIs ==
  ASSUME NEW meta, NEW n \in {1, 2}
  PROVE  LET bytes == MessageOf(meta, n)
         IN  /\ bytes \in Seq(BytesOf(bytes)) /\ Len(bytes) = n + 6
             /\ bytes[1].frame = meta /\ Reader!check_integrity(bytes, Len(bytes))
<1> DEFINE bytes == MessageOf(meta, n)
           S == BytesOf(bytes)
           L == n + 6
<1>1. L \in Nat /\ n \in Nat /\ L >= 6 /\ L = Reader!FrameLen(n) /\ Reader!FrameLen(0) = 6
  BY DEF Reader!FrameLen, Reader!Fixed
<1>2. bytes = [k \in 1 .. L |->
                 [value |-> CASE k = 1 -> 188 [] k = 2 -> 203 [] k = 3 -> n [] k = 4 -> 0 [] OTHER -> 1,
                  frame |-> meta, pos |-> k, ok |-> TRUE]]
  BY DEF MessageOf, Reader!Frame, Reader!FrameLen, Reader!Fixed, Reader!BC, Reader!CB
<1> HIDE DEF bytes
<1>3. DOMAIN bytes = 1 .. L /\ bytes = [k \in 1 .. L |-> bytes[k]]
  BY <1>2
<1>4. \A k \in 1 .. L : bytes[k].frame = meta /\ bytes[k].pos = k /\ bytes[k].ok
  BY <1>2
<1>5. /\ 1 \in 1 .. L /\ 2 \in 1 .. L /\ 3 \in 1 .. L /\ 4 \in 1 .. L
  BY <1>1
<1>6. bytes[1].value = 188 /\ bytes[2].value = 203 /\ bytes[3].value = n /\ bytes[4].value = 0
  BY <1>2, <1>5
<1>7. \A k \in 1 .. L : bytes[k] \in S
  BY <1>3 DEF BytesOf
<1> HIDE DEF S, L
<1>8. bytes \in Seq(S) /\ Len(bytes) = L
  BY <1>1, <1>3, <1>7
<1>9. Reader!check_integrity(bytes, L)
  <2>1. Reader!LengthAt(bytes, 1) = n
    <3>1. 1 + 2 = 3 /\ 1 + 3 = 4 /\ n + 256 * 0 = n
      BY <1>1
    <3>2. QED
      BY <1>6, <3>1 DEF Reader!LengthAt
  <2>2. QED
    BY <1>1, <1>4, <1>5, <1>6, <2>1 DEF Reader!check_integrity, Reader!BC, Reader!CB
<1>10. QED
  BY <1>1, <1>4, <1>5, <1>8, <1>9 DEF S, L, bytes

\* A message that is written is cut from its first byte on, or gone out whole.
LEMMA SendKeepsNotes ==
  ASSUME NEW meta, NEW n \in {1, 2}
  PROVE  uni_out = <<>> /\ SendMsg(meta, n) => NotesInv'
<1> SUFFICES ASSUME uni_out = <<>>, SendMsg(meta, n) PROVE NotesInv'
  OBVIOUS
<1> DEFINE bytes == MessageOf(meta, n)
           notes == trx_notify(bytes)
           N == Len(notes)
           S == BytesOf(bytes)
<1>1. bytes \in Seq(S)
  BY MessageIs
<1>2. notes = SubSeq(notes, 0 + 1, N) /\ N \in Nat /\ DOMAIN notes = 1 .. N
  <2> DEFINE M == Len(bytes) \div TrxMaxLen + (IF Len(bytes) % TrxMaxLen > 0 THEN 1 ELSE 0)
  <2>1. Len(bytes) \in Nat
    BY <1>1
  <2>2. M \in Nat
    <3> DEFINE L == Len(bytes)
    <3>1. L \in Nat /\ TrxMaxLen \in Nat \ {0}
      BY <2>1, UniNumbers
    <3> HIDE DEF L
    <3>2. L \div TrxMaxLen \in Nat
      BY <3>1, Divided
    <3>3. QED
      BY <3>2 DEF L
  <2>3. notes = [i \in 1 .. M |-> notes[i]]
    BY DEF trx_notify
  <2> HIDE DEF M, notes
  <2>4. QED
    BY <2>2, <2>3
<1> HIDE DEF bytes, S
<1>3. CASE uni_backend = "uart"
  <2>1. uni_air' = [meta |-> meta, sent |-> bytes, steady |-> TRUE] /\ uni_out' = <<>>
    BY <1>3 DEF SendMsg, unibus_serial_write, unibus_serial_make_msg, bytes, MessageOf
  <2>2. N \in 0 .. N /\ bytes = SubSeq(bytes, 1, Cut(bytes, N)) /\ SubSeq(notes, N + 1, N) = <<>>
    BY <1>1, <1>2, NextNote
  <2>3. NotesAreCut'
    BY <2>1, <2>2 DEF NotesAreCut, bytes, MessageOf
  <2>4. QED
    BY <2>1, <2>3 DEF NotesInv
<1>4. CASE uni_backend # "uart"
  <2>1. /\ uni_air' = [meta |-> meta, sent |-> <<>>, steady |-> simulate] /\ uni_out' = notes
        /\ simulate' = simulate
    BY <1>4 DEF SendMsg, unibus_ble_write, unibus_ble_make_msg, bytes, MessageOf
  <2>2. 0 \in 0 .. N /\ Cut(bytes, 0) = 0
    BY <1>1, <1>2, NextNote
  <2>3. SubSeq(bytes, 1, Cut(bytes, 0)) = <<>>
    BY <1>1, <2>2, SubSeqEmpty
  <2>4. NotesAreCut'
    BY <1>2, <2>1, <2>2, <2>3 DEF NotesAreCut, bytes, MessageOf
  <2>5. QED
    BY <2>1, <2>4 DEF NotesInv
<1>5. QED
  BY <1>3, <1>4

LEMMA NotifyKeepsNotes == NotesInv /\ Notify => NotesInv'
<1> SUFFICES ASSUME NotesInv, Notify PROVE NotesInv'
  OBVIOUS
<1>1. /\ uni_out # <<>> /\ uni_out' = Tail(uni_out) /\ simulate' = simulate
      /\ uni_air' = [uni_air EXCEPT !.sent = IF simulate THEN @ \o Head(uni_out) ELSE @]
  BY DEF Notify
<1>2. uni_air' = [meta |-> uni_air.meta, steady |-> uni_air.steady,
                  sent |-> IF simulate THEN uni_air.sent \o Head(uni_out) ELSE uni_air.sent]
  BY <1>1 DEF NotesInv
<1>3. uni_air'.meta = uni_air.meta /\ uni_air'.steady = uni_air.steady
      /\ (simulate => uni_air'.sent = uni_air.sent \o Head(uni_out))
      /\ uni_air' = [meta |-> uni_air'.meta, sent |-> uni_air'.sent, steady |-> uni_air'.steady]
  BY <1>2
<1>4. NotesAreCut'
  <2> SUFFICES ASSUME uni_air.steady PROVE NotesAreCut'
    BY <1>3 DEF NotesAreCut
  <2>1. simulate
    BY <1>1 DEF NotesInv, NotesAreCut
  <2>2. PICK n \in {1, 2} :
          \E c \in 0 .. Len(trx_notify(MessageOf(uni_air.meta, n))) :
            /\ uni_air.sent = SubSeq(MessageOf(uni_air.meta, n), 1, Cut(MessageOf(uni_air.meta, n), c))
            /\ uni_out = SubSeq(trx_notify(MessageOf(uni_air.meta, n)), c + 1,
                                Len(trx_notify(MessageOf(uni_air.meta, n))))
    BY DEF NotesInv, NotesAreCut, MessageOf
  <2> DEFINE bytes == MessageOf(uni_air.meta, n)
             notes == trx_notify(bytes)
             N == Len(notes)
             S == BytesOf(bytes)
  <2>3. PICK c \in 0 .. N : /\ uni_air.sent = SubSeq(bytes, 1, Cut(bytes, c))
                            /\ uni_out = SubSeq(notes, c + 1, N)
    BY <2>2
  <2>4. bytes \in Seq(S)
    BY MessageIs
  <2> HIDE DEF bytes, S
  <2>5. /\ N \in Nat
        /\ c = N => SubSeq(notes, c + 1, N) = <<>>
        /\ c < N => /\ Tail(SubSeq(notes, c + 1, N)) = SubSeq(notes, c + 2, N)
                    /\ SubSeq(bytes, 1, Cut(bytes, c)) \o Head(SubSeq(notes, c + 1, N))
                         = SubSeq(bytes, 1, Cut(bytes, c + 1))
    BY <2>4, NextNote
  <2>6. c < N /\ c + 1 \in 0 .. N /\ (c + 1) + 1 = c + 2
    BY <1>1, <2>3, <2>5
  <2>7. /\ uni_out' = SubSeq(notes, (c + 1) + 1, N)
        /\ uni_air'.sent = SubSeq(bytes, 1, Cut(bytes, c + 1))
    BY <1>1, <1>3, <2>1, <2>3, <2>5, <2>6
  <2>8. /\ bytes = Reader!Frame(uni_air'.meta, n, n, TRUE) /\ simulate'
    BY <1>1, <1>3, <2>1 DEF bytes, MessageOf
  <2> HIDE DEF notes
  <2>9. notes = trx_notify(bytes)
    BY DEF notes
  <2>10. QED
    BY <2>6, <2>7, <2>8, <2>9 DEF NotesAreCut
<1>5. QED
  BY <1>3, <1>4 DEF NotesInv

LEMMA UniNextKeepsNotes == NotesInv /\ [UniNext]_uni_vars => NotesInv'
<1> SUFFICES ASSUME NotesInv, [UniNext]_uni_vars PROVE NotesInv'
  OBVIOUS
<1>1. ASSUME UNCHANGED send_vars PROVE NotesInv'
  BY <1>1 DEF NotesInv, NotesAreCut, send_vars
<1>2. ASSUME NEW n \in Bursts, UartBytes(n) \/ write_trx_c2s(n) PROVE NotesInv'
  BY <1>1, <1>2 DEF UartBytes, write_trx_c2s, Arrived
<1>3. CASE Notify
  BY <1>3, NotifyKeepsNotes
<1>4. CASE trx_s2c_ccc_cfg_changed
  <2>1. CASE uni_out = <<>>
    <3>1. uni_air' = uni_air /\ uni_out' = uni_out
      BY <1>4, <2>1 DEF trx_s2c_ccc_cfg_changed
    <3>2. QED
      BY <2>1, <3>1 DEF NotesInv, NotesAreCut
  <2>2. CASE uni_out # <<>>
    <3>1. uni_air' = [uni_air EXCEPT !.steady = FALSE]
      BY <1>4, <2>2 DEF trx_s2c_ccc_cfg_changed
    <3>2. uni_air' = [meta |-> uni_air.meta, sent |-> uni_air.sent, steady |-> FALSE]
      BY <3>1 DEF NotesInv
    <3>3. QED
      BY <3>2 DEF NotesInv, NotesAreCut
  <2>3. QED
    BY <2>1, <2>2
<1>5. CASE unibus_recv_poll
  <2>1. uni_out = <<>>
    BY <1>5 DEF unibus_recv_poll
  <2>2. UNCHANGED send_vars \/ \E f : OwnCommand(f) \/ OtherCommand(f)
    BY <1>5 DEF unibus_recv_poll
  <2>3. ASSUME NEW f, OwnCommand(f) PROVE UNCHANGED send_vars \/ \E meta : \E n \in {1, 2} : SendMsg(meta, n)
    BY <2>3 DEF OwnCommand, unibus_send_read_ack, unibus_send_write_ack
  <2>4. ASSUME NEW f, OtherCommand(f) PROVE UNCHANGED send_vars
    BY <2>4 DEF OtherCommand
  <2>5. QED
    BY <1>1, <2>1, <2>2, <2>3, <2>4, SendKeepsNotes
<1>6. ASSUME NEW ack, NEW cmd, NEW i, Ask(cmd, ack, i, 2) PROVE NotesInv'
  <2>1. uni_out = <<>> /\ SendMsg([src |-> HOST, dest |-> 1, cmd |-> cmd, index |-> i], 2)
    BY <1>6 DEF Ask, Idle
  <2>2. QED
    BY <2>1, SendKeepsNotes
<1>7. ASSUME NEW ack, Awaited(ack) PROVE NotesInv'
  BY <1>1, <1>7 DEF Awaited
<1>8. CASE unibus_read_reg_poll
  BY <1>6, <1>7, <1>8 DEF unibus_read_reg_poll, unibus_read_reg_send
<1>9. CASE unibus_write_reg_poll
  BY <1>6, <1>7, <1>9 DEF unibus_write_reg_poll, unibus_write_reg_send
<1>10. CASE UNCHANGED uni_vars
  BY <1>1, <1>10 DEF uni_vars
<1>11. QED
  BY <1>2, <1>3, <1>4, <1>5, <1>8, <1>9, <1>10 DEF UniNext

\* For every length of a notification: a message comes out of the link whole.
THEOREM UnibusNotifiesWhole == UniSpec => []NotifiedWhole
<1>1. UniInit => NotesInv
  BY DEF UniInit, NotesInv, NotesAreCut
<1>2. NotesInv => NotifiedWhole
  <2> SUFFICES ASSUME NotesInv, uni_out = <<>>, uni_air.steady
               PROVE  /\ Reader!check_integrity(uni_air.sent, Len(uni_air.sent))
                      /\ uni_air.sent[1].frame = uni_air.meta
    BY DEF NotifiedWhole, unibus_serial_check_integrity, unibus_ble_check_integrity
  <2>1. PICK n \in {1, 2} :
          \E c \in 0 .. Len(trx_notify(MessageOf(uni_air.meta, n))) :
            /\ uni_air.sent = SubSeq(MessageOf(uni_air.meta, n), 1, Cut(MessageOf(uni_air.meta, n), c))
            /\ uni_out = SubSeq(trx_notify(MessageOf(uni_air.meta, n)), c + 1,
                                Len(trx_notify(MessageOf(uni_air.meta, n))))
    BY DEF NotesInv, NotesAreCut, MessageOf
  <2> DEFINE bytes == MessageOf(uni_air.meta, n)
             notes == trx_notify(bytes)
             N == Len(notes)
             S == BytesOf(bytes)
  <2>2. PICK c \in 0 .. N : /\ uni_air.sent = SubSeq(bytes, 1, Cut(bytes, c))
                            /\ uni_out = SubSeq(notes, c + 1, N)
    BY <2>1
  <2>3. /\ bytes \in Seq(S) /\ bytes[1].frame = uni_air.meta
        /\ Reader!check_integrity(bytes, Len(bytes))
    BY MessageIs
  <2> HIDE DEF bytes, S
  <2>4. /\ N \in Nat
        /\ c = N => SubSeq(bytes, 1, Cut(bytes, c)) = bytes
        /\ c < N => SubSeq(notes, c + 1, N) # <<>>
    BY <2>3, NextNote
  <2> HIDE DEF N, notes
  <2>5. uni_air.sent = bytes
    BY <2>2, <2>4
  <2>6. QED
    BY <2>3, <2>5
<1>3. QED
  BY <1>1, <1>2, UniNextKeepsNotes, PTL DEF UniSpec

--------------------------------------------------------------------------------
(* The doubly linked list and the scheduler that walks it                  *)

\* What is at place i of the ring of the nodes q and HEAD.
Stop(q, i) == IF i \in DOMAIN q THEN q[i] ELSE HEAD

Lists == [next : [DNodes -> DNodes], prev : [DNodes -> DNodes]]

\* The pointers of d link HEAD and the nodes q into a ring, each other node to itself.
Linked(d, q) ==
  /\ d \in Lists
  /\ q \in Seq(EventNodes)
  /\ \A i, j \in DOMAIN q : q[i] = q[j] => i = j
  /\ \A i \in 0 .. Len(q) : d.next[Stop(q, i)] = Stop(q, i + 1) /\ d.prev[Stop(q, i + 1)] = Stop(q, i)
  /\ \A n \in EventNodes : (\A i \in DOMAIN q : q[i] # n) => d.next[n] = n /\ d.prev[n] = n

\* No more nodes are queued than there are.
LEMMA QueueFits ==
  ASSUME NEW q \in Seq(EventNodes), \A i, j \in DOMAIN q : q[i] = q[j] => i = j
  PROVE  Cardinality(EventNodes) \in Nat /\ Len(q) <= Cardinality(EventNodes)
<1>1. q \in Injection(DOMAIN q, EventNodes)
  BY DEF Injection, IsInjective
<1>2. Cardinality(DOMAIN q) <= Cardinality(EventNodes)
  BY <1>1, ElNodes, FS_Injection
<1>3. DOMAIN q = 1 .. Len(q) /\ Len(q) \in Nat
  OBVIOUS
<1>4. Cardinality(1 .. Len(q)) = Len(q)
  BY <1>3, FS_Interval
<1>5. QED
  BY <1>2, <1>3, <1>4, ElNodes, FS_CardinalityType

\* Walking a ring by its next pointers visits its nodes in order.
LEMMA WalkIs ==
  ASSUME NEW d, NEW q, Linked(d, q)
  PROVE  Walk(d) = q
<1> DEFINE N == Cardinality(EventNodes)
           k == Len(q)
           Node(f) == [i \in 1 .. N |->
                         IF i = 1 THEN d.next[HEAD]
                         ELSE IF f[i - 1] = HEAD THEN HEAD ELSE d.next[f[i - 1]]]
           f == CHOOSE g : g = Node(g)
           w == [i \in 1 .. N |-> Stop(q, i)]
<1>1. /\ q \in Seq(EventNodes) /\ DOMAIN q = 1 .. k /\ k \in Nat /\ N \in Nat /\ k <= N
      /\ \A i \in 1 .. k : q[i] \in EventNodes
      /\ q = [i \in 1 .. k |-> q[i]]
  BY QueueFits DEF Linked
<1>2. \A i \in 1 .. N : Stop(q, i) # HEAD <=> i <= k
  BY <1>1, ElNodes DEF Stop
<1>3. \A i \in 0 .. k : d.next[Stop(q, i)] = Stop(q, i + 1)
  BY DEF Linked
<1>4. Stop(q, 0) = HEAD /\ \A i \in k + 1 .. N : Stop(q, i) = HEAD
  BY <1>1 DEF Stop
<1> HIDE DEF k, N
<1>5. w = Node(w)
  <2>1. ASSUME NEW i \in 1 .. N
        PROVE  w[i] = IF i = 1 THEN d.next[HEAD]
                      ELSE IF w[i - 1] = HEAD THEN HEAD ELSE d.next[w[i - 1]]
    <3>1. CASE i = 1
      <4>1. d.next[Stop(q, 0)] = Stop(q, 0 + 1)
        BY <1>1, <1>3
      <4>2. QED
        BY <1>4, <3>1, <4>1
    <3>2. CASE i # 1 /\ i - 1 <= k
      <4> DEFINE j == i - 1
      <4>1. j \in 0 .. k /\ j \in 1 .. N /\ j + 1 = i /\ j <= k
        BY <1>1, <3>2
      <4>2. w[j] # HEAD /\ w[i] = d.next[w[j]]
        <5> HIDE DEF j
        <5>1. d.next[Stop(q, j)] = Stop(q, i)
          BY <1>3, <4>1
        <5>2. QED
          BY <1>2, <4>1, <5>1
      <4>3. QED
        BY <3>2, <4>2
    <3>3. CASE i # 1 /\ i - 1 > k
      <4> DEFINE j == i - 1
      <4>1. j \in k + 1 .. N /\ i \in k + 1 .. N /\ j \in 1 .. N
        BY <1>1, <3>3
      <4> HIDE DEF j
      <4>2. w[j] = HEAD /\ w[i] = HEAD
        BY <1>4, <4>1
      <4>3. QED
        BY <3>3, <4>2 DEF j
    <3>4. QED
      BY <1>1, <3>1, <3>2, <3>3
  <2> HIDE DEF w
  <2>2. w = [i \in 1 .. N |-> w[i]]
    BY DEF w
  <2>3. QED
    BY <2>1, <2>2
<1> HIDE DEF w
<1>6. f = Node(f)
  BY <1>5
<1> HIDE DEF f
<1>7. \A i \in 1 .. N : f[i] = w[i]
  <2> DEFINE Same == {n \in Nat : n \in 1 .. N => f[n] = w[n]}
  <2>1. 0 \in Same
    OBVIOUS
  <2>2. ASSUME NEW n \in Nat, n \in Same PROVE n + 1 \in Same
    <3> SUFFICES ASSUME n + 1 \in 1 .. N PROVE f[n + 1] = w[n + 1]
      OBVIOUS
    <3> DEFINE m == n + 1
    <3>1. f[m] = (IF m = 1 THEN d.next[HEAD] ELSE IF f[m - 1] = HEAD THEN HEAD ELSE d.next[f[m - 1]])
      BY <1>6
    <3>2. w[m] = (IF m = 1 THEN d.next[HEAD] ELSE IF w[m - 1] = HEAD THEN HEAD ELSE d.next[w[m - 1]])
      BY <1>5
    <3>3. CASE n = 0
      BY <3>1, <3>2, <3>3
    <3>4. CASE n # 0
      <4>1. n \in 1 .. N /\ m - 1 = n /\ m # 1
        BY <1>1, <3>4
      <4>2. f[n] = w[n]
        BY <2>2, <4>1
      <4>3. QED
        BY <3>1, <3>2, <4>1, <4>2
    <3>5. QED
      BY <3>3, <3>4
  <2> HIDE DEF Same
  <2>3. Nat \subseteq Same
    BY <2>1, <2>2, Induct
  <2>4. QED
    BY <1>1, <2>3 DEF Same
<1>8. {j \in 1 .. N : f[j] # HEAD} = 1 .. k
  <2>1. \A j \in 1 .. N : f[j] # HEAD <=> j <= k
    BY <1>2, <1>7 DEF w
  <2>2. QED
    BY <1>1, <2>1
<1>9. Walk(d) = [i \in 1 .. Cardinality({j \in 1 .. N : f[j] # HEAD}) |-> f[i]]
  BY DEF Walk, f, N
<1>10. Cardinality(1 .. k) = k
  <2>1. k \in Nat /\ k \in Int /\ 1 \in Int
    BY <1>1
  <2>2. QED
    BY <2>1, FS_Interval
<1>11. \A i \in 1 .. k : f[i] = q[i]
  BY <1>1, <1>7 DEF w, Stop
<1>12. QED
  BY <1>1, <1>8, <1>9, <1>10, <1>11

\* A node that is put becomes the first.
LEMMA PutIs ==
  ASSUME NEW d, NEW q, Linked(d, q), NEW n \in EventNodes, \A i \in DOMAIN q : q[i] # n
  PROVE  Linked(sdk_dlist_insert_after(sdk_dlist_init(d, n), HEAD, n), <<n>> \o q)
<1> DEFINE k == Len(q)
           new == <<n>> \o q
           first == d.next[HEAD]
           e == [next |-> [d.next EXCEPT ![HEAD] = n, ![n] = first],
                 prev |-> [d.prev EXCEPT ![first] = n, ![n] = HEAD]]
<1>1. /\ d \in Lists /\ q \in Seq(EventNodes) /\ DOMAIN q = 1 .. k /\ k \in Nat
      /\ \A i, j \in DOMAIN q : q[i] = q[j] => i = j
      /\ \A i \in 0 .. k : d.next[Stop(q, i)] = Stop(q, i + 1) /\ d.prev[Stop(q, i + 1)] = Stop(q, i)
      /\ \A m \in EventNodes : (\A i \in DOMAIN q : q[i] # m) => d.next[m] = m /\ d.prev[m] = m
      /\ \A i \in DOMAIN q : q[i] \in EventNodes
      /\ d.next \in [DNodes -> DNodes] /\ d.prev \in [DNodes -> DNodes]
      /\ HEAD \in DNodes /\ n \in DNodes /\ HEAD # n
  BY ElNodes DEF Linked, Lists, DNodes
<1>2. sdk_dlist_insert_after(sdk_dlist_init(d, n), HEAD, n) = e
  <2>1. [d.next EXCEPT ![n] = n] = d.next /\ [d.prev EXCEPT ![n] = n] = d.prev
    BY <1>1
  <2>2. sdk_dlist_init(d, n) = [next |-> d.next, prev |-> d.prev]
    BY <2>1 DEF sdk_dlist_init
  <2>3. QED
    BY <2>2 DEF sdk_dlist_insert_after, sdk_dlist_insert
<1>3. /\ new \in Seq(EventNodes) /\ DOMAIN new = 1 .. k + 1 /\ Len(new) = k + 1
      /\ new[1] = n /\ \A i \in 1 .. k : new[i + 1] = q[i]
  BY <1>1
<1> HIDE DEF new, k
<1>4. \A i \in 2 .. k + 1 : new[i] = q[i - 1] /\ i - 1 \in DOMAIN q
  <2> SUFFICES ASSUME NEW i \in 2 .. k + 1 PROVE new[i] = q[i - 1] /\ i - 1 \in DOMAIN q
    OBVIOUS
  <2> DEFINE j == i - 1
  <2>1. j \in 1 .. k /\ j + 1 = i
    BY <1>1
  <2> HIDE DEF j
  <2>2. QED
    BY <1>1, <1>3, <2>1 DEF j
<1>5. /\ Stop(new, 0) = HEAD /\ Stop(new, 1) = n
      /\ \A i \in 1 .. k + 1 : Stop(new, i + 1) = Stop(q, i)
  <2>1. Stop(new, 0) = HEAD /\ Stop(new, 1) = n
    BY <1>1, <1>3 DEF Stop
  <2>2. ASSUME NEW i \in 1 .. k + 1 PROVE Stop(new, i + 1) = Stop(q, i)
    BY <1>1, <1>3 DEF Stop
  <2>3. QED
    BY <2>1, <2>2
<1>6. first = Stop(q, 1) /\ first \in DNodes /\ first # n
  <2>1. Stop(q, 0) = HEAD /\ 0 \in 0 .. k /\ 0 + 1 = 1
    BY <1>1 DEF Stop
  <2>2. first = Stop(q, 1)
    BY <1>1, <2>1
  <2>3. Stop(q, 1) \in DNodes /\ Stop(q, 1) # n
    BY <1>1 DEF Stop, DNodes
  <2>4. QED
    BY <2>2, <2>3
<1>7. /\ e.next \in [DNodes -> DNodes] /\ e.prev \in [DNodes -> DNodes]
      /\ e.next[HEAD] = n /\ e.next[n] = first /\ e.prev[first] = n /\ e.prev[n] = HEAD
      /\ \A m \in DNodes : m # HEAD /\ m # n => e.next[m] = d.next[m]
      /\ \A m \in DNodes : m # first /\ m # n => e.prev[m] = d.prev[m]
      /\ e \in Lists
  BY <1>1, <1>6 DEF Lists
<1> HIDE DEF e, first
<1>8. \A i, j \in DOMAIN new : new[i] = new[j] => i = j
  <2> SUFFICES ASSUME NEW i \in DOMAIN new, NEW j \in DOMAIN new, new[i] = new[j] PROVE i = j
    OBVIOUS
  <2>1. i = 1 \/ i \in 2 .. k + 1
    BY <1>1, <1>3
  <2>2. j = 1 \/ j \in 2 .. k + 1
    BY <1>1, <1>3
  <2>3. CASE i = 1
    BY <1>3, <1>4, <2>2, <2>3
  <2>4. CASE i \in 2 .. k + 1 /\ j = 1
    BY <1>3, <1>4, <2>4
  <2>5. CASE i \in 2 .. k + 1 /\ j \in 2 .. k + 1
    <3> DEFINE a == i - 1
               b == j - 1
    <3>1. a \in DOMAIN q /\ b \in DOMAIN q /\ q[a] = q[b]
      BY <1>4, <2>5
    <3> HIDE DEF a, b
    <3>2. a = b
      BY <1>1, <3>1
    <3>3. QED
      BY <1>1, <2>5, <3>2 DEF a, b
  <2>6. QED
    BY <2>1, <2>2, <2>3, <2>4, <2>5
<1>9. ASSUME NEW i \in 0 .. k + 1
      PROVE  e.next[Stop(new, i)] = Stop(new, i + 1) /\ e.prev[Stop(new, i + 1)] = Stop(new, i)
  <2>1. CASE i = 0
    BY <1>5, <1>7, <2>1
  <2>2. CASE i = 1
    <3>1. 1 \in 1 .. k + 1
      BY <1>1
    <3>2. Stop(new, 1 + 1) = first
      BY <1>5, <1>6, <3>1
    <3>3. QED
      BY <1>5, <1>7, <2>2, <3>2
  <2>3. CASE i > 1
    <3> DEFINE j == i - 1
    <3>1. j \in 1 .. k /\ j \in 0 .. k /\ j + 1 = i /\ j \in 1 .. k + 1 /\ i \in 1 .. k + 1
      BY <1>1, <2>3
    <3> HIDE DEF j
    <3>2. Stop(new, i) = Stop(q, j) /\ Stop(new, i + 1) = Stop(q, i)
      BY <1>5, <3>1
    <3>3. d.next[Stop(q, j)] = Stop(q, i) /\ d.prev[Stop(q, i)] = Stop(q, j)
      BY <1>1, <3>1
    <3>4. Stop(q, j) \in DNodes /\ Stop(q, j) # HEAD /\ Stop(q, j) # n
      <4>1. Stop(q, j) = q[j] /\ j \in DOMAIN q
        BY <1>1, <3>1 DEF Stop
      <4>2. QED
        BY <1>1, <4>1, ElNodes DEF DNodes
    <3>5. Stop(q, i) \in DNodes /\ Stop(q, i) # n /\ Stop(q, i) # first
      <4>1. Stop(q, i) \in DNodes /\ Stop(q, i) # n
        BY <1>1 DEF Stop, DNodes
      <4>2. Stop(q, i) # Stop(q, 1)
        <5>1. d.prev[Stop(q, 1)] = HEAD
          <6>1. 0 \in 0 .. k /\ Stop(q, 0) = HEAD /\ 0 + 1 = 1
            BY <1>1 DEF Stop
          <6>2. QED
            BY <1>1, <6>1
        <5>2. QED
          BY <3>3, <3>4, <5>1
      <4>3. QED
        BY <1>6, <4>1, <4>2
    <3>6. QED
      BY <1>7, <3>2, <3>3, <3>4, <3>5
  <2>4. QED
    BY <1>1, <2>1, <2>2, <2>3
<1>10. ASSUME NEW m \in EventNodes, \A i \in DOMAIN new : new[i] # m
       PROVE  e.next[m] = m /\ e.prev[m] = m
  <2>1. m # n /\ \A i \in DOMAIN q : q[i] # m
    <3>1. 1 \in DOMAIN new /\ \A i \in DOMAIN q : i + 1 \in DOMAIN new
      BY <1>1, <1>3
    <3>2. QED
      BY <1>1, <1>3, <1>10, <3>1
  <2>2. m \in DNodes /\ m # HEAD /\ m # first
    BY <1>1, <1>6, <2>1, ElNodes DEF DNodes, Stop
  <2>3. QED
    BY <1>1, <1>7, <2>1, <2>2
<1>11. Linked(e, new)
  BY <1>3, <1>7, <1>8, <1>9, <1>10 DEF Linked
<1>12. QED
  BY <1>2, <1>11 DEF new

LEMMA StopsDiffer ==
  ASSUME NEW d, NEW q, Linked(d, q)
  PROVE  /\ \A i \in 0 .. Len(q) + 1 : Stop(q, i) \in DNodes
         /\ \A i, j \in 0 .. Len(q) : Stop(q, i) = Stop(q, j) => i = j
         /\ \A i, j \in 1 .. Len(q) + 1 : Stop(q, i) = Stop(q, j) => i = j
<1> DEFINE k == Len(q)
<1>1. /\ DOMAIN q = 1 .. k /\ k \in Nat /\ \A i \in 1 .. k : q[i] \in DNodes /\ q[i] # HEAD
      /\ HEAD \in DNodes /\ \A i, j \in 1 .. k : q[i] = q[j] => i = j
  BY ElNodes DEF Linked, DNodes
<1> HIDE DEF k
<1>2. \A i \in 0 .. k + 1 : Stop(q, i) = IF i \in 1 .. k THEN q[i] ELSE HEAD
  BY <1>1 DEF Stop
<1>3. ASSUME NEW i \in 0 .. k + 1, NEW j \in 0 .. k + 1, Stop(q, i) = Stop(q, j),
             (i # 0 /\ j # 0) \/ (i # k + 1 /\ j # k + 1)
      PROVE  i = j
  BY <1>1, <1>2, <1>3
<1>4. QED
  BY <1>1, <1>2, <1>3 DEF k

\* A node that is removed leaves the others in their order.
LEMMA RemoveIs ==
  ASSUME NEW d, NEW q, Linked(d, q), NEW p \in 0 .. Len(q) - 1
  PROVE  Linked(sdk_dlist_remove(d, q[p + 1]),
                [j \in 1 .. Len(q) - 1 |-> IF j <= p THEN q[j] ELSE q[j + 1]])
<1> DEFINE k == Len(q)
           x == q[p + 1]
           a == Stop(q, p)
           b == Stop(q, p + 2)
           gone == [j \in 1 .. k - 1 |-> IF j <= p THEN q[j] ELSE q[j + 1]]
           e == [next |-> [d.next EXCEPT ![a] = b, ![x] = x],
                 prev |-> [d.prev EXCEPT ![b] = a, ![x] = x]]
<1>1. /\ d \in Lists /\ q \in Seq(EventNodes) /\ DOMAIN q = 1 .. k /\ k \in Nat
      /\ \A i, j \in DOMAIN q : q[i] = q[j] => i = j
      /\ \A i \in 0 .. k : d.next[Stop(q, i)] = Stop(q, i + 1) /\ d.prev[Stop(q, i + 1)] = Stop(q, i)
      /\ \A m \in EventNodes : (\A i \in DOMAIN q : q[i] # m) => d.next[m] = m /\ d.prev[m] = m
      /\ \A i \in DOMAIN q : q[i] \in EventNodes
      /\ d.next \in [DNodes -> DNodes] /\ d.prev \in [DNodes -> DNodes]
  BY ElNodes DEF Linked, Lists, DNodes
<1>2. /\ \A i \in 0 .. k + 1 : Stop(q, i) \in DNodes
      /\ \A i, j \in 0 .. k : Stop(q, i) = Stop(q, j) => i = j
      /\ \A i, j \in 1 .. k + 1 : Stop(q, i) = Stop(q, j) => i = j
  BY StopsDiffer
<1> HIDE DEF k
<1>3. /\ p \in 0 .. k - 1 /\ p + 1 \in 1 .. k /\ p \in 0 .. k /\ p + 2 \in 1 .. k + 1
      /\ p + 1 \in 0 .. k /\ p + 2 \in 0 .. k + 1 /\ (p + 1) + 1 = p + 2 /\ p + 1 \in 1 .. k + 1
  BY <1>1 DEF k
<1>4. x = Stop(q, p + 1) /\ d.next[x] = b /\ d.prev[x] = a
  <2>1. x = Stop(q, p + 1)
    BY <1>1, <1>3 DEF Stop
  <2>2. d.next[Stop(q, p + 1)] = Stop(q, (p + 1) + 1) /\ d.prev[Stop(q, p + 1)] = Stop(q, p)
    BY <1>1, <1>3
  <2>3. QED
    BY <1>3, <2>1, <2>2
<1>5. /\ a \in DNodes /\ b \in DNodes /\ x \in DNodes /\ a # x /\ b # x
  <2> DEFINE i == p + 1
             l == p + 2
  <2>1. /\ p \in 0 .. k /\ p \in 0 .. k + 1 /\ i \in 0 .. k /\ i \in 1 .. k + 1 /\ i \in 0 .. k + 1
        /\ l \in 1 .. k + 1 /\ l \in 0 .. k + 1 /\ p # i /\ l # i
    BY <1>1, <1>3
  <2>2. x = Stop(q, i) /\ a = Stop(q, p) /\ b = Stop(q, l)
    BY <1>4
  <2> HIDE DEF i, l, a, b, x
  <2>3. Stop(q, p) # Stop(q, i) /\ Stop(q, l) # Stop(q, i)
    BY <1>2, <2>1
  <2>4. Stop(q, p) \in DNodes /\ Stop(q, i) \in DNodes /\ Stop(q, l) \in DNodes
    BY <1>2, <2>1
  <2>5. QED
    BY <2>2, <2>3, <2>4
<1>6. sdk_dlist_remove(d, x) = e
  BY <1>4 DEF sdk_dlist_remove, sdk_dlist_init
<1> HIDE DEF x, a, b
<1>7. /\ e \in Lists
      /\ e.next[a] = b /\ e.prev[b] = a /\ e.next[x] = x /\ e.prev[x] = x
      /\ \A m \in DNodes : m # a /\ m # x => e.next[m] = d.next[m]
      /\ \A m \in DNodes : m # b /\ m # x => e.prev[m] = d.prev[m]
  BY <1>1, <1>5 DEF Lists
<1> HIDE DEF e
<1>8. /\ gone \in Seq(EventNodes) /\ Len(gone) = k - 1 /\ DOMAIN gone = 1 .. k - 1
      /\ \A j \in 1 .. k - 1 : gone[j] = IF j <= p THEN q[j] ELSE q[j + 1]
  <2>1. \A j \in 1 .. k - 1 : (IF j <= p THEN q[j] ELSE q[j + 1]) \in EventNodes
    BY <1>1, <1>3
  <2>2. k - 1 \in Nat
    BY <1>1, <1>3
  <2> DEFINE n == k - 1
             g(j) == IF j <= p THEN q[j] ELSE q[j + 1]
  <2>3. gone = [j \in 1 .. n |-> g(j)] /\ n \in Nat /\ \A j \in 1 .. n : g(j) \in EventNodes
    BY <2>1, <2>2
  <2> HIDE DEF g, n, gone
  <2>4. gone \in Seq(EventNodes) /\ Len(gone) = n /\ DOMAIN gone = 1 .. n /\ \A j \in 1 .. n : gone[j] = g(j)
    BY <2>3
  <2>5. QED
    BY <2>4 DEF n, g
<1> HIDE DEF gone
<1>9. \A i \in 0 .. k : Stop(gone, i) = IF i <= p THEN Stop(q, i) ELSE Stop(q, i + 1)
  BY <1>1, <1>3, <1>8 DEF Stop
<1>10. \A i, j \in DOMAIN gone : gone[i] = gone[j] => i = j
  <2> SUFFICES ASSUME NEW i \in 1 .. k - 1, NEW j \in 1 .. k - 1, gone[i] = gone[j] PROVE i = j
    BY <1>8
  <2> DEFINE s == IF i <= p THEN i ELSE i + 1
             t == IF j <= p THEN j ELSE j + 1
  <2>1. s \in DOMAIN q /\ t \in DOMAIN q /\ gone[i] = q[s] /\ gone[j] = q[t] /\ (s = t => i = j)
    BY <1>1, <1>3, <1>8
  <2> HIDE DEF s, t
  <2>2. QED
    BY <1>1, <2>1
<1>11. ASSUME NEW i \in 0 .. k - 1
       PROVE  e.next[Stop(gone, i)] = Stop(gone, i + 1) /\ e.prev[Stop(gone, i + 1)] = Stop(gone, i)
  <2> DEFINE j == i + 1
             l == i + 2
  <2>1. i \in 0 .. k /\ j \in 0 .. k /\ j \in 1 .. k + 1 /\ l \in 1 .. k + 1 /\ l \in 0 .. k + 1 /\ j + 1 = l
        /\ j \in 0 .. k + 1 /\ i \in 0 .. k + 1
    BY <1>1
  <2>2. CASE i < p
    <3>1. i <= p /\ j <= p /\ i # p /\ i # p + 1 /\ j # p + 1 /\ j # p + 2
      BY <1>3, <2>1, <2>2
    <3>2. Stop(gone, i) = Stop(q, i) /\ Stop(gone, j) = Stop(q, j)
      BY <1>9, <2>1, <3>1
    <3>3. d.next[Stop(q, i)] = Stop(q, j) /\ d.prev[Stop(q, j)] = Stop(q, i)
      BY <1>1, <2>1
    <3> HIDE DEF j, l
    <3>4. Stop(q, i) # a /\ Stop(q, i) # x /\ Stop(q, j) # b /\ Stop(q, j) # x
      BY <1>2, <1>3, <1>4, <2>1, <3>1 DEF a, b
    <3>5. e.next[Stop(q, i)] = Stop(q, j) /\ e.prev[Stop(q, j)] = Stop(q, i)
      BY <1>2, <1>7, <2>1, <3>3, <3>4
    <3>6. QED
      BY <3>2, <3>5 DEF j
  <2>3. CASE i = p
    <3>1. Stop(gone, i) = a /\ Stop(gone, j) = b
      BY <1>3, <1>9, <2>1, <2>3 DEF a, b
    <3>2. QED
      BY <1>7, <3>1
  <2>4. CASE i > p
    <3>1. ~(i <= p) /\ ~(j <= p) /\ j # p /\ j # p + 1 /\ l # p + 1 /\ l # p + 2
      BY <1>3, <2>1, <2>4
    <3>2. Stop(gone, i) = Stop(q, j) /\ Stop(gone, j) = Stop(q, l)
      BY <1>9, <2>1, <3>1
    <3>3. d.next[Stop(q, j)] = Stop(q, l) /\ d.prev[Stop(q, l)] = Stop(q, j)
      BY <1>1, <2>1
    <3> HIDE DEF j, l
    <3>4. Stop(q, j) # a /\ Stop(q, j) # x /\ Stop(q, l) # b /\ Stop(q, l) # x
      BY <1>2, <1>3, <1>4, <2>1, <3>1 DEF a, b
    <3>5. e.next[Stop(q, j)] = Stop(q, l) /\ e.prev[Stop(q, l)] = Stop(q, j)
      BY <1>2, <1>7, <2>1, <3>3, <3>4
    <3>6. QED
      BY <3>2, <3>5 DEF j
  <2>5. QED
    BY <1>3, <2>2, <2>3, <2>4
<1>12. ASSUME NEW m \in EventNodes, \A i \in DOMAIN gone : gone[i] # m
       PROVE  e.next[m] = m /\ e.prev[m] = m
  <2>1. CASE m = x
    BY <1>7, <2>1
  <2>2. CASE m # x
    <3>1. ASSUME NEW i \in DOMAIN q PROVE q[i] # m
      <4> DEFINE j == i - 1
      <4>1. CASE i <= p
        BY <1>1, <1>3, <1>8, <1>12, <4>1
      <4>2. CASE i = p + 1
        BY <2>2, <4>2 DEF x
      <4>3. CASE i > p + 1
        <5>1. j \in 1 .. k - 1 /\ ~(j <= p) /\ j + 1 = i
          BY <1>1, <1>3, <4>3
        <5> HIDE DEF j
        <5>2. QED
          BY <1>8, <1>12, <5>1
      <4>4. QED
        BY <1>1, <1>3, <4>1, <4>2, <4>3
    <3>2. m \in DNodes /\ m # a /\ m # b
      BY <3>1, ElNodes DEF DNodes, a, b, Stop
    <3>3. QED
      BY <1>1, <1>7, <2>2, <3>1, <3>2
  <2>3. QED
    BY <2>1, <2>2
<1>13. \A i \in 0 .. Len(gone) :
         e.next[Stop(gone, i)] = Stop(gone, i + 1) /\ e.prev[Stop(gone, i + 1)] = Stop(gone, i)
  BY <1>8, <1>11
<1>14. Linked(e, gone)
  BY <1>7, <1>8, <1>10, <1>12, <1>13 DEF Linked
<1>15. QED
  BY <1>6, <1>14 DEF gone, k, x

\* The call still has to execute the nodes of q behind the first p, which
\* handlers put since it began.
StillDue(q, p) ==
  /\ Len(el_due) = Len(el_ran) + (Len(q) - p)
  /\ \A j \in 1 .. Len(el_ran) : el_due[j] = el_ran[j]
  /\ \A j \in 1 .. Len(q) - p : el_due[Len(el_ran) + j] = q[p + j]

Executes(q) ==
  \/ el_pc = "idle" /\ el_due = el_ran
  \/ /\ el_pc = "loop"
     /\ \E p \in 0 .. Len(q) - 1 :
          el_pos = q[p + 1] /\ el_tmp = Stop(q, p + 2) /\ StillDue(q, p)
  \/ /\ el_pc = "handler"
     /\ \E p \in 0 .. Len(q) : el_tmp = Stop(q, p + 1) /\ StillDue(q, p)

ElInv ==
  /\ el_due \in Seq(EventNodes) /\ el_ran \in Seq(EventNodes)
  /\ \E q : Linked(dlist, q) /\ Executes(q)

LEMMA ElNextKeepsInv == ElInv /\ [EventListNext]_el_vars => ElInv'
<1> SUFFICES ASSUME ElInv, [EventListNext]_el_vars PROVE ElInv'
  OBVIOUS
<1>1. el_due \in Seq(EventNodes) /\ el_ran \in Seq(EventNodes)
  BY DEF ElInv
<1>2. PICK q : Linked(dlist, q) /\ Executes(q)
  BY DEF ElInv
<1> DEFINE k == Len(q)
<1>3. /\ q \in Seq(EventNodes) /\ DOMAIN q = 1 .. k /\ k \in Nat
      /\ \A i \in 1 .. k : q[i] \in EventNodes
  BY <1>2 DEF Linked
<1>4. Walk(dlist) = q
  BY <1>2, WalkIs
<1>5. \A i \in 0 .. k : dlist.next[Stop(q, i)] = Stop(q, i + 1)
  BY <1>2 DEF Linked
<1>6. Stop(q, 0) = HEAD /\ \A i \in 1 .. k : Stop(q, i) = q[i] /\ q[i] # HEAD
  BY <1>3, ElNodes DEF Stop
<1>7. ASSUME NEW n \in EventNodes, event_node_put(n) PROVE ElInv'
  <2> DEFINE new == <<n>> \o q
  <2>1. /\ el_pc \in {"idle", "handler"} /\ ~Contains(q, n)
        /\ dlist' = sdk_dlist_insert_after(sdk_dlist_init(dlist, n), HEAD, n)
        /\ UNCHANGED <<el_pos, el_tmp, el_pc, el_due, el_ran>>
    BY <1>4, <1>7 DEF event_node_put
  <2>2. \A i \in DOMAIN q : q[i] # n
    BY <1>3, <2>1 DEF Contains
  <2>3. Linked(dlist', new)
    BY <1>2, <2>1, <2>2, PutIs
  <2>4. Len(new) = k + 1 /\ \A i \in 1 .. k : new[i + 1] = q[i]
    BY <1>3
  <2> HIDE DEF new, k
  <2>5. Executes(new)'
    <3>1. CASE el_pc = "idle"
      BY <1>2, <2>1, <3>1 DEF Executes
    <3>2. CASE el_pc = "handler"
      <4>1. PICK p \in 0 .. k : el_tmp = Stop(q, p + 1) /\ StillDue(q, p)
        BY <1>2, <3>2 DEF Executes, k
      <4> DEFINE r == p + 1
      <4>2. r \in 0 .. k + 1 /\ k + 1 - r = k - p /\ r \in 1 .. k + 1
        BY <1>3
      <4>3. Stop(new, r + 1) = Stop(q, r)
        <5>1. DOMAIN new = 1 .. k + 1
          BY <1>3, <2>4 DEF new, k
        <5> HIDE DEF r
        <5>2. QED
          BY <1>3, <2>4, <4>2, <5>1 DEF Stop
      <4>4. ASSUME NEW j \in 1 .. k - p PROVE new[r + j] = q[p + j]
        <5> DEFINE i == p + j
        <5>1. i \in 1 .. k /\ r + j = i + 1
          BY <1>3
        <5> HIDE DEF i
        <5>2. new[i + 1] = q[i]
          BY <2>4, <5>1
        <5>3. QED
          BY <5>1, <5>2 DEF i
      <4>5. StillDue(new, r)'
        <5>1. StillDue(q, p)
          BY <4>1
        <5> HIDE DEF r
        <5>2. Len(new) - r = k - p
          BY <1>3, <2>4, <4>2
        <5>3. /\ Len(el_due) = Len(el_ran) + (k - p)
              /\ \A j \in 1 .. Len(el_ran) : el_due[j] = el_ran[j]
              /\ \A j \in 1 .. k - p : el_due[Len(el_ran) + j] = q[p + j]
          BY <5>1 DEF StillDue, k
        <5> DEFINE left == k - p
        <5> HIDE DEF left
        <5>4. /\ Len(el_due) = Len(el_ran) + left
              /\ \A j \in 1 .. left : el_due[Len(el_ran) + j] = new[r + j]
          BY <4>4, <5>3 DEF left
        <5>5. Len(new) - r = left
          BY <5>2 DEF left
        <5>6. el_due' = el_due /\ el_ran' = el_ran
          BY <2>1
        <5>7. QED
          BY <5>3, <5>4, <5>5, <5>6 DEF StillDue
      <4>6. r \in 0 .. Len(new) /\ el_tmp' = Stop(new, r + 1) /\ el_pc' = "handler"
        BY <2>1, <2>4, <3>2, <4>1, <4>2, <4>3
      <4> HIDE DEF r
      <4>7. QED
        BY <4>5, <4>6 DEF Executes
    <3>3. QED
      BY <2>1, <3>1, <3>2
  <2>6. QED
    BY <1>1, <2>1, <2>3, <2>5 DEF ElInv
<1>8. CASE CallSchedExecute
  <2>1. /\ dlist.next[HEAD] # HEAD /\ el_pos' = dlist.next[HEAD]
        /\ el_tmp' = dlist.next[dlist.next[HEAD]] /\ el_pc' = "loop"
        /\ el_due' = q /\ el_ran' = <<>> /\ dlist' = dlist
    BY <1>4, <1>8 DEF CallSchedExecute, sdk_dlist_is_empty
  <2>2. dlist.next[HEAD] = Stop(q, 1)
    <3>1. 0 \in 0 .. k /\ 0 + 1 = 1
      BY <1>3
    <3>2. QED
      BY <1>5, <1>6, <3>1
  <2>3. k > 0 /\ 1 \in 1 .. k
    BY <1>3, <2>1, <2>2 DEF Stop
  <2>4. el_pos' = q[1] /\ el_tmp' = Stop(q, 2)
    <3>1. 1 \in 0 .. k /\ 1 + 1 = 2
      BY <2>3
    <3>2. QED
      BY <1>5, <1>6, <2>1, <2>2, <2>3, <3>1
  <2>5. StillDue(q, 0)'
    BY <1>3, <2>1 DEF StillDue
  <2>6. 0 \in 0 .. k - 1 /\ 0 + 1 = 1 /\ 0 + 2 = 2
    BY <2>3
  <2>7. Executes(q)'
    BY <2>1, <2>4, <2>5, <2>6 DEF Executes
  <2>8. QED
    BY <1>2, <1>3, <2>1, <2>7 DEF ElInv
<1>9. CASE ExecuteNode
  <2>1. /\ el_pc = "loop" /\ dlist' = sdk_dlist_remove(dlist, el_pos)
        /\ el_ran' = Append(el_ran, el_pos) /\ el_pc' = "handler" /\ UNCHANGED <<el_tmp, el_due>>
    BY <1>9 DEF ExecuteNode
  <2>2. PICK p \in 0 .. k - 1 : el_pos = q[p + 1] /\ el_tmp = Stop(q, p + 2) /\ StillDue(q, p)
    BY <1>2, <2>1 DEF Executes
  <2> DEFINE gone == [j \in 1 .. k - 1 |-> IF j <= p THEN q[j] ELSE q[j + 1]]
             R == Len(el_ran)
             D == k - p
  <2>3. Linked(dlist', gone)
    BY <1>2, <2>1, <2>2, RemoveIs
  <2>4. gone \in Seq(EventNodes)
    BY <2>3 DEF Linked
  <2>5. /\ DOMAIN gone = 1 .. k - 1 /\ Len(gone) = k - 1
        /\ \A j \in 1 .. k - 1 : gone[j] = IF j <= p THEN q[j] ELSE q[j + 1]
    <3>1. DOMAIN gone = 1 .. k - 1 /\ k - 1 \in Nat /\ DOMAIN gone = 1 .. Len(gone) /\ Len(gone) \in Nat
      BY <1>3, <2>4
    <3> HIDE DEF k
    <3>2. Len(gone) = k - 1
      <4> HIDE DEF gone
      <4>1. QED
        BY <3>1
    <3>3. QED
      BY <3>1, <3>2
  <2>6. p \in 0 .. k - 1 /\ p + 1 \in 1 .. k /\ el_pos \in EventNodes /\ p \in 0 .. Len(gone)
        /\ R \in Nat /\ D \in Nat /\ D >= 1
    BY <1>1, <1>3, <2>2, <2>5
  <2>7. /\ Len(el_due) = R + D /\ \A j \in 1 .. R : el_due[j] = el_ran[j]
        /\ \A j \in 1 .. D : el_due[R + j] = q[p + j]
    BY <2>2 DEF StillDue
  <2> HIDE DEF gone, R, D
  <2>8. Stop(gone, p + 1) = Stop(q, p + 2)
    <3>1. CASE p + 1 <= k - 1
      <4>1. p + 1 \in 1 .. k - 1 /\ ~(p + 1 <= p) /\ p + 2 \in 1 .. k /\ (p + 1) + 1 = p + 2
        BY <1>3, <2>6, <3>1
      <4>2. QED
        BY <1>3, <2>5, <4>1 DEF Stop
    <3>2. CASE ~(p + 1 <= k - 1)
      <4>1. p + 1 \notin DOMAIN gone /\ p + 2 \notin DOMAIN q
        BY <1>3, <2>5, <2>6, <3>2
      <4>2. QED
        BY <4>1 DEF Stop
    <3>3. QED
      BY <3>1, <3>2
  <2>9. /\ el_ran' \in Seq(EventNodes) /\ Len(el_ran') = R + 1 /\ el_ran'[R + 1] = q[p + 1]
        /\ \A j \in 1 .. R : el_ran'[j] = el_ran[j]
    BY <1>1, <2>1, <2>2, <2>6 DEF R
  <2>10. StillDue(gone, p)'
    <3>1. Len(el_due) = R + 1 + (k - 1 - p)
      BY <1>3, <2>6, <2>7 DEF D
    <3>2. ASSUME NEW j \in 1 .. R + 1 PROVE el_due[j] = el_ran'[j]
      <4>1. CASE j <= R
        BY <2>6, <2>7, <2>9, <4>1
      <4>2. CASE j = R + 1
        <5>1. 1 \in 1 .. D
          BY <2>6
        <5>2. el_due[R + 1] = q[p + 1]
          BY <2>7, <5>1
        <5>3. QED
          BY <2>9, <4>2, <5>2
      <4>3. QED
        BY <2>6, <4>1, <4>2
    <3>3. ASSUME NEW j \in 1 .. k - 1 - p PROVE el_due[R + 1 + j] = gone[p + j]
      <4> DEFINE i == j + 1
                 s == p + j
      <4>1. i \in 1 .. D /\ R + i = R + 1 + j /\ s \in 1 .. k - 1 /\ ~(s <= p) /\ s + 1 = p + i
        BY <1>3, <2>6 DEF D
      <4>2. el_due[R + i] = q[p + i]
        BY <2>7, <4>1
      <4> HIDE DEF s, i
      <4>3. gone[s] = q[s + 1]
        BY <2>5, <4>1
      <4>4. QED
        BY <4>1, <4>2, <4>3 DEF s
    <3>4. el_due' = el_due /\ Len(el_ran') = R + 1 /\ Len(gone) = k - 1
      BY <2>1, <2>5, <2>9
    <3> HIDE DEF k
    <3>5. QED
      BY <3>1, <3>2, <3>3, <3>4 DEF StillDue
  <2>11. Executes(gone)'
    BY <2>1, <2>2, <2>6, <2>8, <2>10 DEF Executes
  <2>12. QED
    BY <1>1, <2>1, <2>3, <2>9, <2>11 DEF ElInv
<1>10. CASE HandlerReturns
  <2>1. /\ el_pc = "handler" /\ el_pos' = el_tmp /\ el_tmp' = dlist.next[el_tmp]
        /\ el_pc' = IF el_tmp = HEAD THEN "idle" ELSE "loop"
        /\ UNCHANGED <<dlist, el_due, el_ran>>
    BY <1>10 DEF HandlerReturns
  <2>2. PICK p \in 0 .. k : el_tmp = Stop(q, p + 1) /\ StillDue(q, p)
    BY <1>2, <2>1 DEF Executes
  <2>3. CASE p = k
    <3>1. el_tmp = HEAD
      BY <1>3, <2>2, <2>3 DEF Stop
    <3>2. Len(el_due) = Len(el_ran) /\ \A j \in 1 .. Len(el_ran) : el_due[j] = el_ran[j]
      BY <1>1, <1>3, <2>2, <2>3 DEF StillDue
    <3>3. el_due = el_ran
      BY <1>1, <3>2, SeqEqual
    <3>4. Executes(q)'
      BY <2>1, <3>1, <3>3 DEF Executes
    <3>5. QED
      BY <1>1, <1>2, <2>1, <3>4 DEF ElInv
  <2>4. CASE p # k
    <3>1. p \in 0 .. k - 1 /\ p + 1 \in 1 .. k /\ p + 1 \in 0 .. k /\ (p + 1) + 1 = p + 2
      <4>1. p \in 0 .. k /\ k \in Nat
        BY <1>3
      <4> HIDE DEF k
      <4>2. QED
        BY <2>4, <4>1
    <3>2. el_tmp = q[p + 1] /\ el_tmp # HEAD /\ el_tmp' = Stop(q, p + 2)
      BY <1>5, <1>6, <2>1, <2>2, <3>1
    <3>3. StillDue(q, p)'
      BY <2>1, <2>2 DEF StillDue
    <3>4. Executes(q)'
      BY <2>1, <3>1, <3>2, <3>3 DEF Executes
    <3>5. QED
      BY <1>1, <1>2, <2>1, <3>4 DEF ElInv
  <2>5. QED
    BY <2>3, <2>4
<1>11. CASE UNCHANGED el_vars
  <2>1. Executes(q)'
    BY <1>2, <1>11 DEF Executes, StillDue, el_vars
  <2>2. QED
    BY <1>1, <1>2, <1>11, <2>1 DEF ElInv, el_vars
<1>12. QED
  BY <1>7, <1>8, <1>9, <1>10, <1>11 DEF EventListNext, event_sched_execute

LEMMA ElInitHolds == EventListInit => ElInv
<1> SUFFICES ASSUME EventListInit PROVE ElInv
  OBVIOUS
<1>1. /\ dlist = [next |-> [n \in DNodes |-> n], prev |-> [n \in DNodes |-> n]]
      /\ el_pc = "idle" /\ el_due = <<>> /\ el_ran = <<>>
  BY DEF EventListInit
<1>2. Linked(dlist, <<>>)
  <2>1. dlist \in Lists
    BY <1>1 DEF Lists
  <2>2. \A i : Stop(<<>>, i) = HEAD
    BY DEF Stop
  <2>3. \A n \in DNodes : dlist.next[n] = n /\ dlist.prev[n] = n
    BY <1>1
  <2>4. QED
    BY <2>1, <2>2, <2>3 DEF Linked, DNodes
<1>3. QED
  BY <1>1, <1>2 DEF ElInv, Executes

\* For any number of nodes: the list stays a ring, and the nodes that are not
\* queued stay out of it, whatever handlers put while it is walked.
THEOREM ListStaysWellFormed == EventListSpec => []DlistWellFormed
<1>1. ElInv => DlistWellFormed
  <2> SUFFICES ASSUME ElInv PROVE DlistWellFormed
    OBVIOUS
  <2>1. PICK q : Linked(dlist, q)
    BY DEF ElInv
  <2>2. Walk(dlist) = q
    BY <2>1, WalkIs
  <2>3. \A n \in EventNodes : (\A i \in DOMAIN q : q[i] # n) => dlist.next[n] = n /\ dlist.prev[n] = n
    BY <2>1 DEF Linked
  <2>4. q \in Seq(EventNodes) /\ DOMAIN q = 1 .. Len(q) /\ Len(q) \in Nat
    BY <2>1 DEF Linked
  <2>5. ASSUME NEW n \in EventNodes, ~Contains(Walk(dlist), n) PROVE dlist.next[n] = n
    BY <2>2, <2>3, <2>4, <2>5 DEF Contains
  <2>6. ASSUME NEW n \in DNodes PROVE dlist.next[dlist.prev[n]] = n /\ dlist.prev[dlist.next[n]] = n
    <3>1. CASE \E i \in 1 .. Len(q) : n = Stop(q, i)
      <4>1. PICK i \in 1 .. Len(q) : n = Stop(q, i)
        BY <3>1
      <4> DEFINE j == i - 1
      <4>2. i \in 0 .. Len(q) /\ j \in 0 .. Len(q) /\ j + 1 = i
        BY <2>4
      <4> HIDE DEF j
      <4>3. dlist.next[Stop(q, j)] = Stop(q, i) /\ dlist.prev[Stop(q, i)] = Stop(q, j)
        BY <2>1, <4>2 DEF Linked
      <4>4. dlist.next[Stop(q, i)] = Stop(q, i + 1) /\ dlist.prev[Stop(q, i + 1)] = Stop(q, i)
        BY <2>1, <4>2 DEF Linked
      <4>5. QED
        BY <4>1, <4>3, <4>4
    <3>2. CASE n = HEAD
      <4>1. Stop(q, 0) = HEAD /\ Stop(q, Len(q) + 1) = HEAD /\ 0 \in 0 .. Len(q) /\ Len(q) \in 0 .. Len(q)
            /\ 0 + 1 = 1
        BY <2>4 DEF Stop
      <4>2. dlist.next[Stop(q, 0)] = Stop(q, 1) /\ dlist.prev[Stop(q, 1)] = Stop(q, 0)
        BY <2>1, <4>1 DEF Linked
      <4>3. /\ dlist.next[Stop(q, Len(q))] = Stop(q, Len(q) + 1)
            /\ dlist.prev[Stop(q, Len(q) + 1)] = Stop(q, Len(q))
        BY <2>1, <4>1 DEF Linked
      <4>4. QED
        BY <3>2, <4>1, <4>2, <4>3
    <3>3. CASE n # HEAD /\ ~\E i \in 1 .. Len(q) : n = Stop(q, i)
      BY <2>3, <2>4, <3>3 DEF DNodes, Stop
    <3>4. QED
      BY <3>1, <3>2, <3>3
  <2>7. QED
    BY <2>5, <2>6 DEF DlistWellFormed
<1>2. QED
  BY <1>1, ElInitHolds, ElNextKeepsInv, PTL DEF EventListSpec

\* For any number of nodes: a call executes what was queued when it began.
THEOREM ExecutesInOrder == EventListSpec => []ExecutesWhatWasQueued
<1>1. ElInv => ExecutesWhatWasQueued
  <2> SUFFICES ASSUME ElInv PROVE ExecutesWhatWasQueued
    OBVIOUS
  <2>1. el_due \in Seq(EventNodes) /\ el_ran \in Seq(EventNodes)
    BY DEF ElInv
  <2>2. PICK q : Linked(dlist, q) /\ Executes(q)
    BY DEF ElInv
  <2>3. Len(q) \in Nat
    BY <2>2 DEF Linked
  <2>4. el_pc = "idle" => el_ran = el_due
    BY <2>2 DEF Executes
  <2>5. Len(el_ran) <= Len(el_due) /\ \A j \in 1 .. Len(el_ran) : el_due[j] = el_ran[j]
    <3>1. CASE el_due = el_ran
      BY <2>1, <3>1
    <3>2. CASE \E p \in 0 .. Len(q) : StillDue(q, p)
      BY <2>1, <2>3, <3>2 DEF StillDue
    <3>3. 0 .. Len(q) - 1 \subseteq 0 .. Len(q)
      BY <2>3
    <3>4. QED
      BY <2>2, <3>1, <3>2, <3>3 DEF Executes
  <2>6. SubSeq(el_ran, 1, Len(el_ran)) = SubSeq(el_due, 1, Len(el_ran))
    BY <2>1, <2>5
  <2>7. QED
    BY <2>4, <2>5, <2>6 DEF ExecutesWhatWasQueued, IsPrefix
<1>2. QED
  BY <1>1, ElInitHolds, ElNextKeepsInv, PTL DEF EventListSpec
--------------------------------------------------------------------------------
(* Sequences                                                               *)

LEMMA Joined ==
  ASSUME NEW S, NEW q \in Seq(S), NEW t \in Seq(S), NEW n, n = Len(q), NEW k, k = Len(t)
  PROVE  /\ q \o t \in Seq(S) /\ Len(q \o t) = n + k /\ DOMAIN (q \o t) = 1 .. n + k
         /\ \A i \in 1 .. n : (q \o t)[i] = q[i]
         /\ \A i \in 1 .. k : (q \o t)[n + i] = t[i]
<1> DEFINE r == q \o t
<1>1. n \in Nat /\ k \in Nat
  OBVIOUS
<1>2. /\ r \in Seq(S) /\ Len(r) = n + k
      /\ \A i \in 1 .. n + k : r[i] = IF i <= n THEN q[i] ELSE t[i - n]
  BY ConcatProperties
<1>3. DOMAIN r = 1 .. Len(r)
  BY <1>2
<1> HIDE DEF r
<1>4. \A i \in 1 .. n : i \in 1 .. n + k /\ i <= n
  BY <1>1
<1>5. \A i \in 1 .. k : n + i \in 1 .. n + k /\ ~(n + i <= n) /\ (n + i) - n = i
  BY <1>1
<1>6. QED
  BY <1>2, <1>3, <1>4, <1>5 DEF r

--------------------------------------------------------------------------------
(* The lists of handlers                                                   *)

\* What is at place i of the list of the entries q behind head.
Place(head, q, i) == IF i = 0 THEN head ELSE IF i \in DOMAIN q THEN q[i] ELSE NONE

\* The pointers lead from head through the entries q, and no further.
Leads(next, head, q) ==
  /\ head \in DOMAIN next /\ q \in Seq(DOMAIN next)
  /\ \A i, j \in 0 .. Len(q) : Place(head, q, i) = Place(head, q, j) => i = j
  /\ \A i \in 0 .. Len(q) : next[Place(head, q, i)] = Place(head, q, i + 1)

LEMMA PlacesAre ==
  ASSUME NEW next, NEW head \in DOMAIN next, NEW q \in Seq(DOMAIN next), NONE \notin DOMAIN next
  PROVE  /\ Len(q) \in Nat /\ DOMAIN q = 1 .. Len(q)
         /\ Place(head, q, 0) = head
         /\ \A i \in 1 .. Len(q) : Place(head, q, i) = q[i]
         /\ \A i \in 0 .. Len(q) : Place(head, q, i) \in DOMAIN next /\ Place(head, q, i) # NONE
         /\ \A i \in Nat : i > Len(q) => Place(head, q, i) = NONE
<1>1. Len(q) \in Nat /\ DOMAIN q = 1 .. Len(q) /\ \A i \in 1 .. Len(q) : q[i] \in DOMAIN next
  OBVIOUS
<1>2. QED
  BY <1>1 DEF Place

\* Following the pointers from the head finds the entries in order.
LEMMA ChainIs ==
  ASSUME NEW next, IsFiniteSet(DOMAIN next), NONE \notin DOMAIN next,
         NEW head, NEW q, Leads(next, head, q)
  PROVE  Chain(next, head) = [i \in 1 .. Len(q) + 1 |-> Place(head, q, i - 1)]
<1> DEFINE N == Cardinality(DOMAIN next)
           k == Len(q)
           Along(g) == [i \in 0 .. N |->
                      IF i = 0 THEN head ELSE IF g[i - 1] = NONE THEN NONE ELSE next[g[i - 1]]]
           f == CHOOSE g : g = Along(g)
           w == [i \in 0 .. N |-> Place(head, q, i)]
<1>1. /\ k \in Nat /\ DOMAIN q = 1 .. k /\ Place(head, q, 0) = head
      /\ \A i \in 0 .. k : Place(head, q, i) \in DOMAIN next /\ Place(head, q, i) # NONE
      /\ \A i \in Nat : i > k => Place(head, q, i) = NONE
  BY PlacesAre DEF Leads
<1>2. /\ \A i, j \in 0 .. k : Place(head, q, i) = Place(head, q, j) => i = j
      /\ \A i \in 0 .. k : next[Place(head, q, i)] = Place(head, q, i + 1)
  BY DEF Leads
<1> HIDE DEF k
<1>3. N \in Nat /\ k + 1 <= N /\ Cardinality(0 .. k) = k + 1
  <2> DEFINE p == [i \in 0 .. k |-> Place(head, q, i)]
  <2>1. p \in Injection(0 .. k, DOMAIN next)
    BY <1>1, <1>2 DEF Injection, IsInjective
  <2>2. Cardinality(0 .. k) <= N
    BY <2>1, FS_Injection
  <2>3. Cardinality(0 .. k) = k + 1
    BY <1>1, FS_Interval
  <2>4. QED
    BY <1>1, <2>2, <2>3, FS_CardinalityType
<1> HIDE DEF N
<1>4. w = Along(w)
  <2>1. ASSUME NEW i \in 0 .. N
        PROVE  w[i] = IF i = 0 THEN head ELSE IF w[i - 1] = NONE THEN NONE ELSE next[w[i - 1]]
    <3>1. CASE i = 0
      BY <1>1, <3>1
    <3>2. CASE i # 0
      <4> DEFINE j == i - 1
      <4>1. j \in 0 .. N /\ j \in Nat /\ j + 1 = i /\ i \in Nat
        BY <1>3, <3>2
      <4> HIDE DEF j
      <4>2. w[j] = Place(head, q, j) /\ w[i] = Place(head, q, i)
        BY <4>1
      <4>3. CASE j <= k
        <5>1. j \in 0 .. k
          BY <1>1, <4>1, <4>3
        <5>2. next[Place(head, q, j)] = Place(head, q, i) /\ Place(head, q, j) # NONE
          BY <1>1, <1>2, <4>1, <5>1
        <5>3. QED
          BY <3>2, <4>2, <5>2 DEF j
      <4>4. CASE j > k
        <5>1. i > k
          BY <1>1, <4>1, <4>4
        <5>2. Place(head, q, j) = NONE /\ Place(head, q, i) = NONE
          BY <1>1, <4>1, <4>4, <5>1
        <5>3. QED
          BY <3>2, <4>2, <5>2 DEF j
      <4>5. QED
        BY <1>1, <4>1, <4>3, <4>4
    <3>3. QED
      BY <3>1, <3>2
  <2> HIDE DEF w
  <2>2. w = [i \in 0 .. N |-> w[i]]
    BY DEF w
  <2>3. QED
    BY <2>1, <2>2
<1>5. \A i \in 0 .. N : w[i] = Place(head, q, i)
  OBVIOUS
<1> HIDE DEF w
<1>6. f = Along(f)
  BY <1>4
<1> HIDE DEF f
<1>7. \A i \in 0 .. N : f[i] = w[i]
  <2> DEFINE Same == {n \in Nat : n \in 0 .. N => f[n] = w[n]}
  <2>1. 0 \in Same
    <3>1. 0 \in 0 .. N
      BY <1>3
    <3>2. f[0] = head /\ w[0] = head
      BY <1>4, <1>6, <3>1
    <3>3. QED
      BY <3>2
  <2>2. ASSUME NEW n \in Nat, n \in Same PROVE n + 1 \in Same
    <3> SUFFICES ASSUME n + 1 \in 0 .. N PROVE f[n + 1] = w[n + 1]
      OBVIOUS
    <3> DEFINE m == n + 1
    <3>1. m \in 0 .. N /\ m # 0 /\ m - 1 = n /\ f[n] = w[n]
      BY <1>3, <2>2
    <3> HIDE DEF m
    <3>2. f[m] = IF f[m - 1] = NONE THEN NONE ELSE next[f[m - 1]]
      BY <1>6, <3>1
    <3>3. w[m] = IF w[m - 1] = NONE THEN NONE ELSE next[w[m - 1]]
      BY <1>4, <3>1
    <3>4. f[m] = w[m]
      BY <3>1, <3>2, <3>3
    <3>5. QED
      BY <3>4 DEF m
  <2> HIDE DEF Same
  <2>3. Nat \subseteq Same
    BY <2>1, <2>2, Induct
  <2>4. QED
    BY <1>3, <2>3 DEF Same
<1>8. {j \in 0 .. N : f[j] # NONE} = 0 .. k
  <2>1. ASSUME NEW j \in 0 .. N PROVE f[j] # NONE <=> j <= k
    <3>1. f[j] = Place(head, q, j) /\ j \in Nat
      BY <1>3, <1>5, <1>7
    <3>2. CASE j <= k
      BY <1>1, <3>1, <3>2
    <3>3. CASE j > k
      BY <1>1, <3>1, <3>3
    <3>4. QED
      BY <1>1, <3>1, <3>2, <3>3
  <2>2. QED
    BY <1>1, <1>3, <2>1
<1>9. Chain(next, head) = [i \in 1 .. Cardinality({j \in 0 .. N : f[j] # NONE}) |-> f[i - 1]]
  BY DEF Chain, f, N
<1>10. \A i \in 1 .. k + 1 : f[i - 1] = Place(head, q, i - 1)
  <2> SUFFICES ASSUME NEW i \in 1 .. k + 1 PROVE f[i - 1] = Place(head, q, i - 1)
    OBVIOUS
  <2> DEFINE j == i - 1
  <2>1. j \in 0 .. N
    BY <1>1, <1>3
  <2> HIDE DEF j
  <2>2. f[j] = Place(head, q, j)
    BY <1>5, <1>7, <2>1
  <2>3. QED
    BY <2>2 DEF j
<1>11. QED
  BY <1>3, <1>8, <1>9, <1>10 DEF k

\* An entry of the list is left alone, another one goes behind the last.
LEMMA AddEntryIs ==
  ASSUME NEW next, IsFiniteSet(DOMAIN next), NONE \notin DOMAIN next,
         NEW head, NEW q, Leads(next, head, q), NEW e
  PROVE  /\ (\E i \in 0 .. Len(q) : Place(head, q, i) = e) => AddEntry(next, head, e) = next
         /\ (\A i \in 0 .. Len(q) : Place(head, q, i) # e)
              => AddEntry(next, head, e) = [next EXCEPT ![Place(head, q, Len(q))] = e]
<1> DEFINE k == Len(q)
           chain == Chain(next, head)
<1>1. k \in Nat
  BY PlacesAre DEF Leads
<1>2. chain = [i \in 1 .. k + 1 |-> Place(head, q, i - 1)]
  BY ChainIs
<1>3. Len(chain) = k + 1 /\ \A i \in 1 .. k + 1 : chain[i] = Place(head, q, i - 1)
  <2> DEFINE P(i) == Place(head, q, i - 1)
             m == k + 1
  <2>1. m \in Nat /\ chain = [i \in 1 .. m |-> P(i)]
    BY <1>1, <1>2
  <2> HIDE DEF P, m, chain
  <2>2. Len(chain) = m /\ \A i \in 1 .. m : chain[i] = P(i)
    BY <2>1
  <2>3. QED
    BY <2>2 DEF P, m
<1> HIDE DEF k, chain
<1>4. Last(chain) = Place(head, q, k)
  BY <1>1, <1>3 DEF Last
<1>5. Contains(chain, e) <=> \E i \in 0 .. k : Place(head, q, i) = e
  <2>1. ASSUME NEW i \in 0 .. k, Place(head, q, i) = e PROVE Contains(chain, e)
    <3> DEFINE m == i + 1
    <3>1. m \in 1 .. k + 1 /\ m - 1 = i
      BY <1>1
    <3> HIDE DEF m
    <3>2. chain[m] = e
      BY <1>3, <2>1, <3>1
    <3>3. QED
      BY <1>3, <3>1, <3>2 DEF Contains
  <2>2. ASSUME NEW m \in 1 .. k + 1, chain[m] = e PROVE \E i \in 0 .. k : Place(head, q, i) = e
    <3> DEFINE i == m - 1
    <3>1. i \in 0 .. k
      BY <1>1
    <3>2. Place(head, q, i) = e
      BY <1>3, <2>2
    <3>3. QED
      BY <3>1, <3>2
  <2>3. QED
    BY <1>3, <2>1, <2>2 DEF Contains
<1>6. QED
  BY <1>4, <1>5 DEF AddEntry, Link, k, chain

LEMMA AppendLeads ==
  ASSUME NEW D, NEW R, NEW next \in [D -> R], NONE \notin D, NEW head, NEW q, Leads(next, head, q),
         NEW e \in D \cap R, next[e] = NONE, \A i \in 0 .. Len(q) : Place(head, q, i) # e
  PROVE  Leads([next EXCEPT ![Place(head, q, Len(q))] = e], head, Append(q, e))
<1> DEFINE k == Len(q)
           new == Append(q, e)
           last == Place(head, q, k)
           n == [next EXCEPT ![last] = e]
<1>1. /\ DOMAIN next = D /\ head \in D /\ q \in Seq(D)
      /\ \A i, j \in 0 .. k : Place(head, q, i) = Place(head, q, j) => i = j
      /\ \A i \in 0 .. k : next[Place(head, q, i)] = Place(head, q, i + 1)
  BY DEF Leads
<1>2. /\ k \in Nat /\ DOMAIN q = 1 .. k
      /\ \A i \in 0 .. k : Place(head, q, i) \in D /\ Place(head, q, i) # NONE
      /\ \A i \in Nat : i > k => Place(head, q, i) = NONE
  BY <1>1, PlacesAre
<1>3. /\ new \in Seq(D) /\ Len(new) = k + 1 /\ DOMAIN new = 1 .. k + 1 /\ new[k + 1] = e
      /\ \A i \in 1 .. k : new[i] = q[i]
  BY <1>1, <1>2
<1> HIDE DEF k, new
<1>4. /\ \A i \in 0 .. k : Place(head, new, i) = Place(head, q, i)
      /\ Place(head, new, k + 1) = e /\ Place(head, new, k + 2) = NONE
  BY <1>2, <1>3 DEF Place
<1>5. last \in D /\ last # e
  BY <1>2 DEF k
<1> HIDE DEF last
<1>6. /\ DOMAIN n = D /\ n[last] = e /\ n[e] = NONE
      /\ \A d \in D : d # last => n[d] = next[d]
  BY <1>5
<1> HIDE DEF n
<1>7. ASSUME NEW i \in 0 .. k + 1, NEW j \in 0 .. k + 1, Place(head, new, i) = Place(head, new, j)
      PROVE  i = j
  <2>1. (i \in 0 .. k \/ i = k + 1) /\ (j \in 0 .. k \/ j = k + 1)
    BY <1>2
  <2>2. \A a \in 0 .. k : Place(head, new, a) # e
    BY <1>4 DEF k
  <2>3. QED
    BY <1>1, <1>4, <1>7, <2>1, <2>2
<1>8. ASSUME NEW i \in 0 .. k + 1 PROVE n[Place(head, new, i)] = Place(head, new, i + 1)
  <2>1. CASE i = k + 1
    <3>1. i + 1 = k + 2
      BY <1>2, <2>1
    <3>2. QED
      BY <1>4, <1>6, <2>1, <3>1
  <2>2. CASE i = k
    <3>1. i \in 0 .. k
      BY <1>2, <2>2
    <3>2. QED
      BY <1>4, <1>6, <2>2, <3>1 DEF last
  <2>3. CASE i # k /\ i # k + 1
    <3> DEFINE j == i + 1
    <3>1. i \in 0 .. k /\ k \in 0 .. k /\ j \in 0 .. k
      BY <1>2, <2>3
    <3>2. Place(head, q, i) \in D /\ Place(head, q, i) # last
      BY <1>1, <1>2, <2>3, <3>1 DEF last
    <3>3. n[Place(head, q, i)] = Place(head, q, j)
      BY <1>1, <1>6, <3>1, <3>2
    <3> HIDE DEF j
    <3>4. QED
      BY <1>4, <3>1, <3>3 DEF j
  <2>4. QED
    BY <2>1, <2>2, <2>3
<1>9. Leads(n, head, new)
  BY <1>1, <1>3, <1>6, <1>7, <1>8 DEF Leads
<1>10. QED
  BY <1>9 DEF n, new, last, k

\* A pointer of an entry that is in no list of head leads nowhere from there.
LEMMA OthersLead ==
  ASSUME NEW D, NEW R, NEW next \in [D -> R], NONE \notin D, NEW head, NEW q, Leads(next, head, q),
         NEW p \in D, NEW e, \A i \in 0 .. Len(q) : Place(head, q, i) # p
  PROVE  Leads([next EXCEPT ![p] = e], head, q)
<1> DEFINE n == [next EXCEPT ![p] = e]
<1>1. DOMAIN n = D /\ DOMAIN next = D /\ \A d \in D : d # p => n[d] = next[d]
  OBVIOUS
<1>2. \A i \in 0 .. Len(q) : Place(head, q, i) \in D
  BY <1>1, PlacesAre DEF Leads
<1> HIDE DEF n
<1>3. Leads(n, head, q)
  BY <1>1, <1>2 DEF Leads
<1>4. QED
  BY <1>3 DEF n

\* The first entry that matches is one that matches.
LEMMA FirstMatchIs ==
  ASSUME NEW next, IsFiniteSet(DOMAIN next), NONE \notin DOMAIN next,
         NEW head, NEW q, Leads(next, head, q), NEW matching
  PROVE  FirstMatch(next, head, matching) \in matching \cup {NONE}
<1> DEFINE k == Len(q)
           chain == Chain(next, head)
           found == {i \in 2 .. Len(chain) : chain[i] \in matching}
<1>1. Len(chain) = k + 1 /\ k \in Nat
  <2> DEFINE P(i) == Place(head, q, i - 1)
             m == k + 1
  <2>1. k \in Nat /\ m \in Nat /\ chain = [i \in 1 .. m |-> P(i)]
    <3>1. chain = [i \in 1 .. m |-> P(i)]
      BY ChainIs
    <3>2. k \in Nat
      BY PlacesAre
    <3>3. QED
      BY <3>1, <3>2
  <2> HIDE DEF P, chain
  <2>2. DOMAIN chain = 1 .. m /\ m \in Nat
    BY <2>1
  <2>3. Len(chain) = m
    BY <2>1
  <2>4. QED
    BY <2>1, <2>3
<1> HIDE DEF chain, k
<1>2. found \subseteq Nat
  BY <1>1
<1>3. CASE found = {}
  BY <1>3 DEF FirstMatch, chain
<1>4. CASE found # {}
  <2>1. \E x \in found : \A y \in found : x <= y
    BY <1>2, <1>4, Least
  <2>2. Min(found) \in found
    BY <2>1 DEF Min
  <2>3. FirstMatch(next, head, matching) = chain[Min(found)]
    BY <1>4 DEF FirstMatch, chain
  <2>4. QED
    BY <2>2, <2>3
<1>5. QED
  BY <1>3, <1>4

--------------------------------------------------------------------------------
(* The CAN driver                                                          *)

Nodes == Entries \cup Cans

LEMMA NodesAre ==
  /\ IsFiniteSet(Nodes) /\ NONE \notin Nodes /\ Entries \cap Cans = {}
  /\ \A t \in DOMAIN CanTables : CanTables[t] \in Seq(Entries)
<1>1. ASSUME NEW t \in DOMAIN CanTables
      PROVE  CanTables[t] \in Seq(Entries) /\ IsFiniteSet(ToSet(CanTables[t]))
  <2> DEFINE s == CanTables[t]
  <2>1. s \in Seq(ToSet(s)) /\ ToSet(s) \subseteq Entries
    BY CanTablesAreLists DEF Entries
  <2> HIDE DEF s
  <2>2. s \in Seq(Entries)
    BY <2>1
  <2>3. Len(s) \in Nat /\ DOMAIN s = 1 .. Len(s) /\ s \in [DOMAIN s -> ToSet(s)]
    BY <2>1
  <2>4. IsFiniteSet(DOMAIN s)
    <3> DEFINE m == Len(s)
    <3>1. m \in Int /\ 1 \in Int /\ DOMAIN s = 1 .. m
      BY <2>3
    <3> HIDE DEF m
    <3>2. IsFiniteSet(1 .. m)
      BY <3>1, FS_Interval
    <3>3. QED
      BY <3>1, <3>2
  <2>5. s \in Surjection(DOMAIN s, ToSet(s))
    BY <2>3 DEF Surjection, ToSet
  <2>6. IsFiniteSet(ToSet(s))
    BY <2>4, <2>5, FS_Surjection
  <2>7. QED
    BY <2>2, <2>6 DEF s
<1>2. IsFiniteSet(Entries)
  <2> DEFINE S == {ToSet(CanTables[t]) : t \in DOMAIN CanTables}
             f == [t \in DOMAIN CanTables |-> ToSet(CanTables[t])]
  <2>1. f \in Surjection(DOMAIN CanTables, S)
    BY DEF Surjection
  <2>2. IsFiniteSet(DOMAIN CanTables)
    BY CanTablesAreLists
  <2>3. IsFiniteSet(S)
    BY <2>1, <2>2, FS_Surjection
  <2>4. \A T \in S : IsFiniteSet(T)
    BY <1>1
  <2>5. Entries = UNION S
    BY DEF Entries
  <2> HIDE DEF S
  <2>6. QED
    BY <2>3, <2>4, <2>5, FS_UNION
<1>3. IsFiniteSet(Nodes)
  BY <1>2, CanTablesAreLists, FS_Union DEF Nodes
<1>4. NONE \notin Nodes /\ Entries \cap Cans = {}
  BY CanTablesAreLists DEF Nodes, Entries
<1>5. QED
  BY <1>1, <1>3, <1>4

\* The list of each controller c is L[c], and no entry is in two of them.
ListsAre(next, L) ==
  /\ next \in [Nodes -> Entries \cup {NONE}]
  /\ L \in [Cans -> Seq(Entries)]
  /\ \A c \in Cans : Leads(next, c, L[c])
  /\ \A c, d \in Cans : \A i \in DOMAIN L[c], j \in DOMAIN L[d] : L[c][i] = L[d][j] => c = d
  /\ \A e \in Entries : (\A c \in Cans : \A i \in DOMAIN L[c] : L[c][i] # e) => next[e] = NONE

LEMMA AddNew ==
  ASSUME NEW next, NEW L, ListsAre(next, L), NEW c \in Cans, NEW e \in Entries,
         \A d \in Cans : \A i \in DOMAIN L[d] : L[d][i] # e
  PROVE  ListsAre(AddEntry(next, c, e), [L EXCEPT ![c] = Append(@, e)])
<1> DEFINE q == L[c]
           k == Len(q)
           p == Place(c, q, k)
           n == [next EXCEPT ![p] = e]
           M == [L EXCEPT ![c] = Append(@, e)]
<1>1. /\ next \in [Nodes -> Entries \cup {NONE}] /\ DOMAIN next = Nodes
      /\ L \in [Cans -> Seq(Entries)]
      /\ \A d \in Cans : Leads(next, d, L[d])
      /\ \A a, b \in Cans : \A i \in DOMAIN L[a], j \in DOMAIN L[b] : L[a][i] = L[b][j] => a = b
      /\ next[e] = NONE
      /\ \A x \in Entries : (\A d \in Cans : \A i \in DOMAIN L[d] : L[d][i] # x) => next[x] = NONE
  BY DEF ListsAre
<1>2. NONE \notin Nodes /\ Entries \cap Cans = {} /\ IsFiniteSet(Nodes) /\ Entries \subseteq Nodes
      /\ Cans \subseteq Nodes
  BY NodesAre DEF Nodes
<1>3. \A d \in Cans : /\ L[d] \in Seq(Entries) /\ Len(L[d]) \in Nat /\ DOMAIN L[d] = 1 .. Len(L[d])
                      /\ \A i \in DOMAIN L[d] : L[d][i] \in Entries
  BY <1>1
<1>4. \A d \in Cans : /\ Place(d, L[d], 0) = d
                      /\ \A i \in 1 .. Len(L[d]) : Place(d, L[d], i) = L[d][i]
  BY <1>3 DEF Place
<1>5. \A i \in 0 .. k : Place(c, q, i) # e
  BY <1>2, <1>3, <1>4
<1>6. AddEntry(next, c, e) = n
  BY <1>1, <1>2, <1>5, AddEntryIs
<1>7. p = c \/ (k \in DOMAIN q /\ p = q[k])
  BY <1>3, <1>4
<1>8. p \in Nodes
  BY <1>2, <1>3, <1>7
<1>9. Leads(n, c, Append(q, e))
  <2>1. e \in Nodes \cap (Entries \cup {NONE})
    BY <1>2
  <2>2. QED
    BY <1>1, <1>2, <1>5, <2>1, AppendLeads
<1> HIDE DEF q, k, p
<1>10. ASSUME NEW d \in Cans, d # c PROVE Leads(n, d, L[d])
  <2>1. ASSUME NEW i \in 0 .. Len(L[d]) PROVE Place(d, L[d], i) # p
    <3>1. CASE i = 0
      BY <1>2, <1>3, <1>4, <1>7, <1>10, <3>1 DEF q
    <3>2. CASE i \in 1 .. Len(L[d])
      BY <1>1, <1>2, <1>3, <1>4, <1>7, <1>10, <3>2 DEF q
    <3>3. QED
      BY <1>3, <2>1, <3>1, <3>2
  <2>2. QED
    BY <1>1, <1>2, <1>8, <2>1, OthersLead
<1>11. /\ M \in [Cans -> Seq(Entries)] /\ M[c] = Append(q, e)
       /\ \A d \in Cans : d # c => M[d] = L[d]
  BY <1>1, <1>3 DEF q
<1>12. /\ DOMAIN M[c] = 1 .. k + 1 /\ M[c][k + 1] = e /\ k \in Nat /\ DOMAIN q = 1 .. k
       /\ \A i \in 1 .. k : M[c][i] = q[i]
  <2>1. q \in Seq(Entries) /\ k = Len(q)
    BY <1>3 DEF q, k
  <2>2. QED
    BY <1>11, <2>1
<1> HIDE DEF M
<1>13. \A d \in Cans : \A i \in DOMAIN M[d] :
         (d = c /\ M[d][i] = e) \/ (i \in DOMAIN L[d] /\ M[d][i] = L[d][i])
  <2>1. ASSUME NEW i \in DOMAIN M[c] PROVE M[c][i] = e \/ (i \in DOMAIN q /\ M[c][i] = q[i])
    <3>1. i \in 1 .. k \/ i = k + 1
      BY <1>12, <2>1
    <3>2. QED
      BY <1>12, <3>1
  <2>2. QED
    BY <1>11, <2>1 DEF q
<1>14. \A a, b \in Cans : \A i \in DOMAIN M[a], j \in DOMAIN M[b] : M[a][i] = M[b][j] => a = b
  BY <1>1, <1>13
<1>15. n \in [Nodes -> Entries \cup {NONE}]
  BY <1>1, <1>8
<1>16. ASSUME NEW x \in Entries, \A d \in Cans : \A i \in DOMAIN M[d] : M[d][i] # x
       PROVE  n[x] = NONE
  <2>1. x # e /\ \A d \in Cans : \A i \in DOMAIN L[d] : L[d][i] # x
    <3>1. k + 1 \in DOMAIN M[c] /\ \A i \in DOMAIN q : i \in DOMAIN M[c] /\ M[c][i] = q[i]
      BY <1>12
    <3>2. QED
      BY <1>11, <1>12, <1>16, <3>1 DEF q
  <2>2. x # p
    BY <1>2, <1>7, <2>1 DEF q
  <2>3. x \in Nodes
    BY <1>2
  <2>4. QED
    BY <1>1, <2>1, <2>2, <2>3
<1>17. \A d \in Cans : Leads(n, d, M[d])
  BY <1>9, <1>10, <1>11
<1> HIDE DEF n
<1>18. ListsAre(n, M)
  BY <1>11, <1>14, <1>15, <1>16, <1>17 DEF ListsAre
<1>19. QED
  BY <1>6, <1>18 DEF M

\* f[k] is what next becomes when the first k of m entries are added.
OneByOne(f, next, c, table, m) ==
  /\ f[0] = next
  /\ \A k \in 0 .. m - 1 : f[k + 1] = AddEntry(f[k], c, table[k + 1])

LEMMA RegisterSteps ==
  ASSUME NEW next, NEW c, NEW table, NEW m \in Nat, m = Len(table)
  PROVE  \E f : OneByOne(f, next, c, table, m) /\ Register(next, c, table) = f[m]
<1> DEFINE After(g, n) == [k \in 0 .. n |->
                             IF k = 0 THEN next ELSE AddEntry(g[k - 1], c, table[k])]
           f == CHOOSE g : g = After(g, m)
<1>2. \E g : g = After(g, m)
  <2> DEFINE Have == {n \in Nat : \E g : g = After(g, n)}
  <2>1. 0 \in Have
    <3> DEFINE h == [k \in 0 .. 0 |-> next]
    <3>1. h = After(h, 0)
      OBVIOUS
    <3>2. QED
      BY <3>1
  <2>2. ASSUME NEW n \in Nat, n \in Have PROVE n + 1 \in Have
    <3>1. PICK g : g = After(g, n)
      BY <2>2
    <3> DEFINE h == [k \in 0 .. n + 1 |->
                       IF k = n + 1 THEN AddEntry(g[n], c, table[n + 1]) ELSE g[k]]
    <3>2. ASSUME NEW k \in 0 .. n + 1
          PROVE  h[k] = IF k = 0 THEN next ELSE AddEntry(h[k - 1], c, table[k])
      <4>1. CASE k = 0
        <5>1. 0 \in 0 .. n /\ 0 # n + 1 /\ 0 \in 0 .. n + 1
          OBVIOUS
        <5>2. g[0] = next
          BY <3>1, <5>1
        <5>3. QED
          BY <4>1, <5>1, <5>2
      <4>2. CASE k # 0
        <5> DEFINE j == k - 1
        <5>1. j \in 0 .. n /\ j \in 0 .. n + 1 /\ j # n + 1 /\ (k = n + 1 => j = n)
          BY <4>2
        <5>2. h[j] = g[j]
          BY <5>1
        <5>3. CASE k = n + 1
          <6>1. h[k] = AddEntry(g[n], c, table[n + 1])
            BY <5>3
          <6>2. QED
            BY <4>2, <5>1, <5>2, <5>3, <6>1
        <5>4. CASE k # n + 1
          <6>1. k \in 0 .. n /\ h[k] = g[k]
            BY <5>4
          <6>2. g[k] = AddEntry(g[j], c, table[k])
            BY <3>1, <4>2, <6>1
          <6>3. QED
            BY <4>2, <5>2, <6>1, <6>2
        <5>5. QED
          BY <5>3, <5>4
      <4>3. QED
        BY <4>1, <4>2
    <3>3. h = [k \in 0 .. n + 1 |-> h[k]]
      OBVIOUS
    <3> HIDE DEF h
    <3>4. h = After(h, n + 1)
      BY <3>2, <3>3
    <3> HIDE DEF After
    <3>5. \E v : v = After(v, n + 1)
      BY <3>4
    <3>6. QED
      BY <3>5
  <2> HIDE DEF Have
  <2>3. Nat \subseteq Have
    BY <2>1, <2>2, Induct
  <2>4. QED
    BY <2>3 DEF Have
<1>3. f = After(f, m)
  BY <1>2
<1>4. Register(next, c, table) = f[m]
  BY DEF Register, f
<1> HIDE DEF f
<1>5. f[0] = next
  <2>1. 0 \in 0 .. m
    OBVIOUS
  <2>2. QED
    BY <1>3, <2>1
<1>6. ASSUME NEW k \in 0 .. m - 1 PROVE f[k + 1] = AddEntry(f[k], c, table[k + 1])
  <2> DEFINE j == k + 1
  <2>1. j \in 0 .. m /\ j # 0 /\ j - 1 = k
    OBVIOUS
  <2> HIDE DEF j
  <2>2. f[j] = AddEntry(f[j - 1], c, table[j])
    BY <1>3, <2>1
  <2>3. QED
    BY <2>1, <2>2 DEF j
<1>7. OneByOne(f, next, c, table, m)
  BY <1>5, <1>6 DEF OneByOne
<1>8. QED
  BY <1>4, <1>7

LEMMA RegisterAgain ==
  ASSUME NEW next, NEW L, ListsAre(next, L), NEW c \in Cans, NEW table \in Seq(Entries),
         \A i \in DOMAIN table : \E j \in DOMAIN L[c] : L[c][j] = table[i]
  PROVE  Register(next, c, table) = next
<1> DEFINE m == Len(table)
<1>1. m \in Nat /\ DOMAIN table = 1 .. m /\ m = Len(table) /\ \A i \in 1 .. m : table[i] \in Entries
  OBVIOUS
<1> HIDE DEF m
<1>2. PICK f : OneByOne(f, next, c, table, m) /\ Register(next, c, table) = f[m]
  BY <1>1, RegisterSteps
<1>3. f[0] = next /\ \A k \in 0 .. m - 1 : f[k + 1] = AddEntry(f[k], c, table[k + 1])
  BY <1>2 DEF OneByOne
<1>4. f[m] = next
  <2> DEFINE Same == {k \in Nat : k <= m => f[k] = next}
  <2>1. 0 \in Same
    BY <1>3
  <2>2. ASSUME NEW k \in Nat, k \in Same PROVE k + 1 \in Same
    <3> SUFFICES ASSUME k + 1 <= m PROVE f[k + 1] = next
      OBVIOUS
    <3> DEFINE e == table[k + 1]
               q == L[c]
    <3>1. k \in 0 .. m - 1 /\ k <= m /\ k + 1 \in 1 .. m
      BY <1>1
    <3>2. f[k + 1] = AddEntry(next, c, e)
      BY <1>3, <2>2, <3>1
    <3>3. PICK j \in DOMAIN q : q[j] = e
      BY <1>1, <3>1
    <3>4. DOMAIN next = Nodes /\ Leads(next, c, q) /\ q \in Seq(Entries)
      BY DEF ListsAre
    <3>5. j \in 0 .. Len(q) /\ Place(c, q, j) = e
      <4>1. Len(q) \in Nat /\ DOMAIN q = 1 .. Len(q)
        BY <3>4
      <4>2. QED
        BY <3>3, <4>1 DEF Place
    <3> HIDE DEF e, q
    <3>6. AddEntry(next, c, e) = next
      BY <3>4, <3>5, NodesAre, AddEntryIs
    <3>7. QED
      BY <3>2, <3>6
  <2> HIDE DEF Same
  <2>3. Nat \subseteq Same
    BY <2>1, <2>2, Induct
  <2>4. QED
    BY <1>1, <2>3 DEF Same
<1>5. QED
  BY <1>2, <1>4

\* A new table goes behind the others.
LEMMA RegisterNew ==
  ASSUME NEW next, NEW L, ListsAre(next, L), NEW c \in Cans, NEW table \in Seq(Entries),
         \A i, j \in DOMAIN table : table[i] = table[j] => i = j,
         \A i \in DOMAIN table : \A d \in Cans : \A j \in DOMAIN L[d] : L[d][j] # table[i]
  PROVE  ListsAre(Register(next, c, table), [L EXCEPT ![c] = @ \o table])
<1> DEFINE m == Len(table)
<1>1. m \in Nat /\ DOMAIN table = 1 .. m /\ m = Len(table) /\ \A i \in 1 .. m : table[i] \in Entries
  OBVIOUS
<1> HIDE DEF m
<1>2. PICK f : OneByOne(f, next, c, table, m) /\ Register(next, c, table) = f[m]
  BY <1>1, RegisterSteps
<1>3. f[0] = next /\ \A k \in 0 .. m - 1 : f[k + 1] = AddEntry(f[k], c, table[k + 1])
  BY <1>2 DEF OneByOne
<1>4. ListsAre(f[m], [L EXCEPT ![c] = @ \o table])
  <2> DEFINE M(k) == [L EXCEPT ![c] = @ \o SubSeq(table, 1, k)]
             Good == {k \in Nat : k <= m => ListsAre(f[k], M(k))}
  <2>1. L \in [Cans -> Seq(Entries)] /\ L[c] \in Seq(Entries)
    BY DEF ListsAre
  <2>2. 0 \in Good
    <3>1. SubSeq(table, 1, 0) = <<>> /\ L[c] \o <<>> = L[c]
      BY <2>1
    <3>2. M(0) = L
      BY <2>1, <3>1
    <3>3. QED
      BY <1>3, <3>2
  <2>3. ASSUME NEW k \in Nat, k \in Good PROVE k + 1 \in Good
    <3> SUFFICES ASSUME k + 1 <= m PROVE ListsAre(f[k + 1], M(k + 1))
      OBVIOUS
    <3> DEFINE e == table[k + 1]
               t == SubSeq(table, 1, k)
               K == M(k)
               q == L[c]
    <3>1. k \in 0 .. m - 1 /\ k <= m /\ k + 1 \in 1 .. m
      BY <1>1
    <3>2. ListsAre(f[k], K)
      BY <2>3, <3>1
    <3>3. f[k + 1] = AddEntry(f[k], c, e)
      BY <1>3, <3>1
    <3>4. e \in Entries
      BY <1>1, <3>1
    <3>5. t \in Seq(Entries) /\ Len(t) = k /\ DOMAIN t = 1 .. k /\ \A i \in 1 .. k : t[i] = table[i]
      BY <1>1, <3>1 DEF m
    <3>6. SubSeq(table, 1, k + 1) = Append(t, e)
      <4>1. Len(SubSeq(table, 1, k + 1)) = k + 1 /\ SubSeq(table, 1, k + 1) \in Seq(Entries)
            /\ \A i \in 1 .. k + 1 : SubSeq(table, 1, k + 1)[i] = table[i]
        BY <1>1, <3>1 DEF m
      <4> HIDE DEF t, e
      <4>2. Append(t, e) \in Seq(Entries) /\ Len(Append(t, e)) = k + 1 /\ Append(t, e)[k + 1] = e
            /\ \A i \in 1 .. k : Append(t, e)[i] = t[i]
        BY <3>4, <3>5
      <4>3. \A i \in 1 .. k + 1 : Append(t, e)[i] = table[i]
        BY <3>5, <4>2 DEF e
      <4>4. QED
        BY <4>1, <4>2, <4>3, SeqEqual
    <3> HIDE DEF t, e
    <3>7. q \o Append(t, e) = Append(q \o t, e)
      BY <2>1, <3>4, <3>5, ConcatProperties
    <3>8. K[c] = q \o t /\ \A d \in Cans : d # c => K[d] = L[d]
      BY <2>1 DEF t
    <3>9. [K EXCEPT ![c] = Append(@, e)] = M(k + 1)
      <4>1. M(k + 1) = [L EXCEPT ![c] = Append(q \o t, e)]
        BY <3>6, <3>7
      <4>2. K = [L EXCEPT ![c] = q \o t]
        BY DEF t
      <4>3. QED
        BY <2>1, <4>1, <4>2
    <3>10. \A d \in Cans : \A j \in DOMAIN K[d] : K[d][j] # e
      <4>1. ASSUME NEW j \in DOMAIN K[c] PROVE K[c][j] # e
        <5>1. q \in Seq(Entries) /\ Len(q) \in Nat /\ DOMAIN q = 1 .. Len(q)
          BY <2>1
        <5> DEFINE n == Len(q)
                   r == q \o t
        <5>2. /\ Len(r) = n + k /\ DOMAIN r = 1 .. n + k
              /\ \A i \in 1 .. n : r[i] = q[i]
              /\ \A i \in 1 .. k : r[n + i] = t[i]
          <6> HIDE DEF q, K
          <6>1. QED
            BY <3>5, <5>1, Joined
        <5>3. \A i \in 1 .. n : q[i] # e
          BY <1>1, <3>1, <5>1 DEF e
        <5>4. \A i \in 1 .. k : t[i] # e
          <6>1. \A i \in 1 .. k : i \in DOMAIN table /\ i # k + 1
            BY <1>1, <3>1
          <6>2. QED
            BY <1>1, <3>1, <3>5, <6>1 DEF e
        <5>5. n \in Nat
          BY <5>1
        <5> HIDE DEF n, r
        <5>6. j \in 1 .. n \/ \E i \in 1 .. k : j = n + i
          <6>1. j \in 1 .. n + k
            BY <3>8, <5>2 DEF r
          <6>2. CASE j > n
            <7> DEFINE i == j - n
            <7>1. i \in 1 .. k /\ j = n + i
              BY <5>5, <6>1, <6>2
            <7>2. QED
              BY <7>1
          <6>3. QED
            BY <5>5, <6>1, <6>2
        <5>7. K[c][j] = r[j]
          BY <3>8 DEF r
        <5>8. CASE j \in 1 .. n
          BY <5>2, <5>3, <5>7, <5>8
        <5>9. CASE \E i \in 1 .. k : j = n + i
          <6>1. PICK i \in 1 .. k : j = n + i
            BY <5>9
          <6>2. r[n + i] = t[i]
            BY <5>2, <6>1
          <6>3. r[n + i] # e
            BY <5>4, <6>2
          <6>4. QED
            BY <5>7, <6>1, <6>3
        <5>10. QED
          BY <5>6, <5>8, <5>9
      <4>2. QED
        BY <1>1, <3>1, <3>8, <4>1 DEF e
    <3> HIDE DEF K
    <3>11. ListsAre(AddEntry(f[k], c, e), [K EXCEPT ![c] = Append(@, e)])
      BY <3>2, <3>4, <3>10, AddNew
    <3>12. QED
      BY <3>3, <3>9, <3>11
  <2> HIDE DEF Good
  <2>4. Nat \subseteq Good
    BY <2>2, <2>3, Induct
  <2> HIDE DEF M
  <2>5. ListsAre(f[m], M(m))
    BY <1>1, <2>4 DEF Good
  <2>6. SubSeq(table, 1, m) = table
    BY SubSeqFull DEF m
  <2>7. QED
    BY <2>5, <2>6 DEF M
<1>5. QED
  BY <1>2, <1>4

LEMMA FlattenGrows ==
  ASSUME NEW S, NEW s \in Seq(S), NEW E, NEW x \in Seq(E)
  PROVE  FlattenSeq(Append(s, x)) = FlattenSeq(s) \o x
<1> DEFINE n == Len(s)
           new == Append(s, x)
           Flat(q, g, m) == [i \in 1 .. m |-> IF i = 1 THEN q[i] ELSE g[i - 1] \o q[i]]
           f == CHOOSE g : g = Flat(s, g, n)
           h == CHOOSE g : g = Flat(new, g, n + 1)
<1>1. /\ n \in Nat /\ Len(new) = n + 1 /\ new[n + 1] = x
      /\ \A i \in 1 .. n : new[i] = s[i]
  <2>1. /\ Len(s) \in Nat /\ Len(Append(s, x)) = Len(s) + 1
        /\ \A i \in 1 .. Len(s) : Append(s, x)[i] = s[i]
    OBVIOUS
  <2>2. Append(s, x)[Len(s) + 1] = x
    OBVIOUS
  <2>3. QED
    BY <2>1, <2>2
<1> HIDE DEF n, new
<1>2. ASSUME NEW q, NEW m \in Nat PROVE \E g : g = Flat(q, g, m)
  <2> DEFINE Have == {k \in Nat : \E g : g = Flat(q, g, k)}
  <2>1. 0 \in Have
    <3>1. <<>> = Flat(q, <<>>, 0)
      OBVIOUS
    <3> HIDE DEF Flat
    <3>2. QED
      BY <3>1
  <2>2. ASSUME NEW k \in Nat, k \in Have PROVE k + 1 \in Have
    <3>1. PICK g : g = Flat(q, g, k)
      BY <2>2
    <3> DEFINE l == k + 1
               w == [i \in 1 .. l |->
                       IF i = l THEN (IF i = 1 THEN q[i] ELSE g[k] \o q[i]) ELSE g[i]]
    <3>2. l \in Nat /\ l - 1 = k /\ l > k
      OBVIOUS
    <3> HIDE DEF l
    <3>3. ASSUME NEW i \in 1 .. l PROVE w[i] = IF i = 1 THEN q[i] ELSE w[i - 1] \o q[i]
      <4>1. CASE i = l /\ i = 1
        BY <4>1
      <4>2. CASE i = l /\ i # 1
        <5>1. k \in 1 .. l /\ k # l
          BY <3>2, <4>2
        <5>2. w[k] = g[k] /\ w[i] = g[k] \o q[i]
          BY <4>2, <5>1
        <5>3. i - 1 = k
          BY <3>2, <4>2
        <5>4. QED
          BY <4>2, <5>2, <5>3
      <4>3. CASE i # l /\ i = 1
        <5>1. i \in 1 .. k
          BY <3>2, <4>3
        <5>2. w[i] = g[i] /\ g[i] = q[i]
          BY <3>1, <4>3, <5>1
        <5>3. QED
          BY <4>3, <5>2
      <4>4. CASE i # l /\ i # 1
        <5> DEFINE j == i - 1
        <5>1. i \in 1 .. k /\ j \in 1 .. l /\ j # l
          BY <3>2, <4>4
        <5>2. w[i] = g[i] /\ g[i] = g[j] \o q[i]
          BY <3>1, <4>4, <5>1
        <5>3. w[j] = g[j]
          BY <5>1
        <5>4. QED
          BY <4>4, <5>2, <5>3
      <4>5. QED
        BY <4>1, <4>2, <4>3, <4>4
    <3>4. w = [i \in 1 .. l |-> w[i]]
      OBVIOUS
    <3> HIDE DEF w
    <3>5. w = Flat(q, w, l)
      BY <3>3, <3>4
    <3> HIDE DEF Flat
    <3>6. \E v : v = Flat(q, v, l)
      BY <3>5
    <3>7. QED
      BY <3>6 DEF l
  <2> HIDE DEF Have
  <2>3. Nat \subseteq Have
    BY <2>1, <2>2, Induct
  <2>4. QED
    BY <2>3 DEF Have
<1>3. f = Flat(s, f, n)
  BY <1>1, <1>2
<1>4. h = Flat(new, h, n + 1)
  <2> DEFINE l == n + 1
  <2>1. l \in Nat
    BY <1>1
  <2> HIDE DEF l
  <2>2. \E g : g = Flat(new, g, l)
    BY <1>2, <2>1
  <2>3. QED
    BY <2>2 DEF l
<1>5. FlattenSeq(s) = IF n = 0 THEN s ELSE f[n]
  BY DEF FlattenSeq, f, n
<1>6. FlattenSeq(new) = h[n + 1]
  <2>1. Len(new) # 0
    BY <1>1
  <2>2. FlattenSeq(new) = LET g[i \in 1 .. Len(new)] == IF i = 1 THEN new[i] ELSE g[i - 1] \o new[i]
                          IN  g[Len(new)]
    BY <2>1 DEF FlattenSeq
  <2>3. QED
    BY <1>1, <2>2 DEF h
<1> HIDE DEF f, h
<1>7. \A i \in 1 .. n : h[i] = f[i]
  <2> DEFINE Same == {i \in Nat : i \in 1 .. n => h[i] = f[i]}
  <2>1. 0 \in Same
    OBVIOUS
  <2>2. ASSUME NEW k \in Nat, k \in Same PROVE k + 1 \in Same
    <3> SUFFICES ASSUME k + 1 \in 1 .. n PROVE h[k + 1] = f[k + 1]
      OBVIOUS
    <3> DEFINE i == k + 1
    <3>1. i \in 1 .. n /\ i \in 1 .. n + 1 /\ i - 1 = k /\ (i # 1 => k \in 1 .. n)
      BY <1>1
    <3> HIDE DEF i
    <3>2. f[i] = IF i = 1 THEN s[i] ELSE f[i - 1] \o s[i]
      BY <1>3, <3>1
    <3>3. h[i] = IF i = 1 THEN new[i] ELSE h[i - 1] \o new[i]
      BY <1>4, <3>1
    <3>4. h[i] = f[i]
      BY <1>1, <2>2, <3>1, <3>2, <3>3
    <3>5. QED
      BY <3>4 DEF i
  <2> HIDE DEF Same
  <2>3. Nat \subseteq Same
    BY <2>1, <2>2, Induct
  <2>4. QED
    BY <1>1, <2>3 DEF Same
<1>8. h[n + 1] = IF n = 0 THEN x ELSE f[n] \o x
  <2> DEFINE l == n + 1
  <2>1. l \in 1 .. l /\ l - 1 = n /\ (l = 1 <=> n = 0) /\ (n # 0 => n \in 1 .. n)
    BY <1>1
  <2>2. new[l] = x
    BY <1>1
  <2> HIDE DEF l
  <2>3. h[l] = IF l = 1 THEN new[l] ELSE h[l - 1] \o new[l]
    BY <1>4, <2>1 DEF l
  <2>4. h[l] = IF n = 0 THEN x ELSE f[n] \o x
    BY <1>7, <2>1, <2>2, <2>3
  <2>5. QED
    BY <2>4 DEF l
<1>9. CASE n = 0
  <2>1. s = <<>>
    BY <1>9 DEF n
  <2>2. <<>> \o x = x
    OBVIOUS
  <2>3. QED
    BY <1>5, <1>6, <1>8, <1>9, <2>1, <2>2 DEF new
<1>10. CASE n # 0
  BY <1>5, <1>6, <1>8, <1>10 DEF new
<1>11. QED
  BY <1>9, <1>10

\* q is the tables r, one behind the other.
ListIs(r, q) ==
  /\ q = FlattenSeq([i \in DOMAIN r |-> CanTables[r[i]]])
  /\ \A i \in DOMAIN q :
       \E k \in DOMAIN r : \E j \in DOMAIN CanTables[r[k]] : q[i] = CanTables[r[k]][j]
  /\ \A k \in DOMAIN r : \A j \in DOMAIN CanTables[r[k]] :
       \E i \in DOMAIN q : q[i] = CanTables[r[k]][j]

LEMMA ListGrows ==
  ASSUME NEW r \in Seq(DOMAIN CanTables), NEW q \in Seq(Entries), ListIs(r, q),
         NEW t \in DOMAIN CanTables
  PROVE  ListIs(Append(r, t), q \o CanTables[t])
<1> DEFINE n == Len(r)
           k == Len(q)
           table == CanTables[t]
           l == Len(table)
           new == Append(r, t)
           all == q \o table
           Ts(x) == [i \in DOMAIN x |-> CanTables[x[i]]]
<1>1. table \in Seq(Entries) /\ l \in Nat /\ DOMAIN table = 1 .. l
  BY NodesAre
<1>2. /\ n \in Nat /\ DOMAIN r = 1 .. n /\ new \in Seq(DOMAIN CanTables) /\ DOMAIN new = 1 .. n + 1
      /\ new[n + 1] = t /\ \A i \in 1 .. n : new[i] = r[i]
  <2>1. /\ n \in Nat /\ DOMAIN r = 1 .. n /\ new \in Seq(DOMAIN CanTables) /\ Len(new) = n + 1
        /\ new[n + 1] = t /\ \A i \in 1 .. n : new[i] = r[i]
    BY AppendProperties
  <2>2. DOMAIN new = 1 .. Len(new)
    BY <2>1
  <2>3. QED
    BY <2>1, <2>2
<1>3. k \in Nat /\ DOMAIN q = 1 .. k
  OBVIOUS
<1>4. /\ all \in Seq(Entries) /\ DOMAIN all = 1 .. k + l
      /\ \A i \in 1 .. k : all[i] = q[i]
      /\ \A i \in 1 .. l : all[k + i] = table[i]
  BY <1>1, Joined
<1>5. FlattenSeq(Ts(new)) = all
  <2>1. Ts(r) \in Seq(Seq(Entries)) /\ Len(Ts(r)) = n
    <3> DEFINE g(i) == CanTables[r[i]]
    <3>1. \A i \in 1 .. n : g(i) \in Seq(Entries)
      BY <1>2, NodesAre
    <3>2. Ts(r) = [i \in 1 .. n |-> g(i)]
      BY <1>2
    <3> HIDE DEF g, n, Ts
    <3>3. QED
      BY <1>2, <3>1, <3>2
  <2>2. Ts(new) = Append(Ts(r), table)
    <3> DEFINE a == Append(Ts(r), table)
    <3>1. /\ a \in Seq(Seq(Entries)) /\ Len(a) = n + 1 /\ a[n + 1] = table
          /\ \A i \in 1 .. n : a[i] = Ts(r)[i]
      BY <1>1, <2>1, AppendProperties
    <3>2. DOMAIN a = 1 .. n + 1 /\ a = [i \in 1 .. n + 1 |-> a[i]]
      BY <3>1
    <3>3. ASSUME NEW i \in 1 .. n + 1 PROVE a[i] = CanTables[new[i]]
      <4>1. CASE i \in 1 .. n
        BY <1>2, <3>1, <4>1
      <4>2. CASE i = n + 1
        BY <1>2, <3>1, <4>2
      <4>3. QED
        BY <1>2, <4>1, <4>2
    <3> HIDE DEF a, new
    <3>4. Ts(new) = a
      BY <1>2, <3>2, <3>3
    <3>5. QED
      BY <3>4 DEF a
  <2> HIDE DEF Ts
  <2>3. FlattenSeq(Append(Ts(r), table)) = FlattenSeq(Ts(r)) \o table
    BY <1>1, <2>1, FlattenGrows
  <2>4. FlattenSeq(Ts(r)) = q
    BY DEF ListIs, Ts
  <2>5. QED
    BY <2>2, <2>3, <2>4
<1> HIDE DEF all, new, k, n, l, table
<1>6. ASSUME NEW i \in DOMAIN all
      PROVE  \E a \in DOMAIN new : \E j \in DOMAIN CanTables[new[a]] : all[i] = CanTables[new[a]][j]
  <2>1. CASE i \in 1 .. k
    <3>1. PICK a \in DOMAIN r : \E j \in DOMAIN CanTables[r[a]] : q[i] = CanTables[r[a]][j]
      BY <1>3, <2>1 DEF ListIs
    <3>2. a \in DOMAIN new /\ new[a] = r[a] /\ all[i] = q[i]
      BY <1>2, <1>4, <2>1, <3>1
    <3>3. QED
      BY <3>1, <3>2
  <2>2. CASE i > k
    <3> DEFINE j == i - k
    <3>1. j \in 1 .. l /\ k + j = i
      BY <1>1, <1>3, <1>4, <2>2
    <3> HIDE DEF j
    <3>2. all[k + j] = table[j] /\ j \in DOMAIN table
      BY <1>1, <1>4, <3>1
    <3>3. n + 1 \in DOMAIN new /\ new[n + 1] = t
      BY <1>2
    <3>4. QED
      BY <3>1, <3>2, <3>3 DEF table
  <2>3. QED
    BY <1>1, <1>3, <1>4, <2>1, <2>2
<1>7. ASSUME NEW a \in DOMAIN new, NEW j \in DOMAIN CanTables[new[a]]
      PROVE  \E i \in DOMAIN all : all[i] = CanTables[new[a]][j]
  <2>1. CASE a \in 1 .. n
    <3>1. new[a] = r[a] /\ a \in DOMAIN r
      BY <1>2, <2>1
    <3>2. PICK i \in DOMAIN q : q[i] = CanTables[r[a]][j]
      BY <3>1 DEF ListIs
    <3>3. i \in DOMAIN all /\ all[i] = q[i]
      BY <1>1, <1>3, <1>4, <3>2
    <3>4. QED
      BY <3>1, <3>2, <3>3
  <2>2. CASE a = n + 1
    <3>1. j \in 1 .. l /\ CanTables[new[a]] = table
      BY <1>1, <1>2, <2>2 DEF table
    <3>2. k + j \in DOMAIN all
      BY <1>1, <1>3, <1>4, <3>1
    <3>3. all[k + j] = table[j]
      BY <1>4, <3>1
    <3>4. QED
      BY <3>1, <3>2, <3>3
  <2>3. QED
    BY <1>2, <2>1, <2>2
<1>8. ListIs(new, all)
  BY <1>5, <1>6, <1>7 DEF ListIs
<1>9. QED
  BY <1>8 DEF new, all, table

\* Each list is the tables that were registered with its controller.
ListsInv ==
  /\ registered \in [Cans -> Seq(DOMAIN CanTables)]
  /\ \A c \in Cans : \A k \in DOMAIN registered[c] : TableOf[registered[c][k]] = c
  /\ \E L : ListsAre(can_next, L) /\ \A c \in Cans : ListIs(registered[c], L[c])

LEMMA RegisterKeepsLists ==
  ASSUME ListsInv, NEW c \in Cans, NEW t \in DOMAIN CanTables, sdk_can_register(c, t)
  PROVE  ListsInv'
<1> DEFINE r == registered[c]
           table == CanTables[t]
<1>1. /\ registered \in [Cans -> Seq(DOMAIN CanTables)]
      /\ \A d \in Cans : \A k \in DOMAIN registered[d] : TableOf[registered[d][k]] = d
  BY DEF ListsInv
<1>2. PICK L : ListsAre(can_next, L) /\ \A d \in Cans : ListIs(registered[d], L[d])
  BY DEF ListsInv
<1>3. /\ TableOf[t] = c /\ can_next' = Register(can_next, c, table)
      /\ registered' = [registered EXCEPT ![c] = IF Contains(@, t) THEN @ ELSE Append(@, t)]
  BY DEF sdk_can_register
<1>4. table \in Seq(Entries) /\ r \in Seq(DOMAIN CanTables) /\ L \in [Cans -> Seq(Entries)]
  BY <1>1, <1>2, NodesAre DEF ListsAre
<1>5. DOMAIN r = 1 .. Len(r)
  BY <1>4
<1>6. CASE Contains(r, t)
  <2>1. registered' = registered
    BY <1>1, <1>3, <1>6
  <2>2. PICK k \in DOMAIN r : r[k] = t
    BY <1>5, <1>6 DEF Contains
  <2>3. \A i \in DOMAIN table : \E j \in DOMAIN L[c] : L[c][j] = table[i]
    BY <1>2, <2>2 DEF ListIs
  <2>4. can_next' = can_next
    <3> HIDE DEF table
    <3>1. Register(can_next, c, table) = can_next
      BY <1>2, <1>4, <2>3, RegisterAgain
    <3>2. QED
      BY <1>3, <3>1
  <2>5. QED
    BY <1>1, <1>2, <2>1, <2>4 DEF ListsInv
<1>7. CASE ~Contains(r, t)
  <2> DEFINE M == [L EXCEPT ![c] = @ \o table]
  <2>1. \A i, j \in DOMAIN table : table[i] = table[j] => i = j
    BY TablesAreSeparate
  <2>2. ASSUME NEW i \in DOMAIN table, NEW d \in Cans, NEW j \in DOMAIN L[d], L[d][j] = table[i]
        PROVE  FALSE
    <3>1. PICK k \in DOMAIN registered[d] :
            \E m \in DOMAIN CanTables[registered[d][k]] : L[d][j] = CanTables[registered[d][k]][m]
      BY <1>2 DEF ListIs
    <3>2. registered[d][k] \in DOMAIN CanTables
      BY <1>1, <3>1
    <3>3. registered[d][k] = t
      BY <2>2, <3>1, <3>2, TablesAreSeparate
    <3>4. d = c
      BY <1>1, <1>3, <3>1, <3>3
    <3>5. QED
      BY <1>5, <1>7, <3>1, <3>3, <3>4 DEF Contains
  <2>3. ListsAre(can_next', M)
    BY <1>2, <1>3, <1>4, <2>1, <2>2, RegisterNew
  <2>4. M[c] = L[c] \o table /\ \A d \in Cans : d # c => M[d] = L[d]
    BY <1>4
  <2>5. registered'[c] = Append(r, t) /\ \A d \in Cans : d # c => registered'[d] = registered[d]
    BY <1>1, <1>3, <1>7
  <2>6. ListIs(Append(r, t), L[c] \o table)
    BY <1>2, <1>4, ListGrows
  <2> HIDE DEF M, table, r
  <2>7. \A d \in Cans : ListIs(registered'[d], M[d])
    BY <1>2, <2>4, <2>5, <2>6
  <2>8. registered' \in [Cans -> Seq(DOMAIN CanTables)]
    <3>1. Append(r, t) \in Seq(DOMAIN CanTables)
      BY <1>4
    <3>2. registered' = [registered EXCEPT ![c] = Append(r, t)]
      BY <1>3, <1>7 DEF r
    <3>3. QED
      BY <1>1, <3>1, <3>2
  <2>9. \A d \in Cans : \A k \in DOMAIN registered'[d] : TableOf[registered'[d][k]] = d
    <3>1. /\ DOMAIN Append(r, t) = 1 .. Len(r) + 1 /\ Append(r, t)[Len(r) + 1] = t
          /\ \A k \in 1 .. Len(r) : Append(r, t)[k] = r[k]
      <4>1. /\ Append(r, t) \in Seq(DOMAIN CanTables) /\ Len(Append(r, t)) = Len(r) + 1
            /\ Append(r, t)[Len(r) + 1] = t /\ \A k \in 1 .. Len(r) : Append(r, t)[k] = r[k]
        BY <1>4, AppendProperties
      <4>2. DOMAIN Append(r, t) = 1 .. Len(Append(r, t))
        BY <4>1
      <4>3. QED
        BY <4>1, <4>2
    <3>2. Len(r) \in Nat /\ DOMAIN r = 1 .. Len(r)
      BY <1>4
    <3>3. \A k \in 1 .. Len(r) + 1 : k \in DOMAIN r \/ k = Len(r) + 1
      BY <3>2
    <3>4. \A k \in DOMAIN Append(r, t) : TableOf[Append(r, t)[k]] = c
      BY <1>1, <1>3, <3>1, <3>2, <3>3 DEF r
    <3>5. QED
      BY <1>1, <2>5, <3>4
  <2>10. QED
    BY <2>3, <2>7, <2>8, <2>9 DEF ListsInv
<1>8. QED
  BY <1>6, <1>7

LEMMA CanNextKeepsLists == ListsInv /\ [CanNext]_can_vars => ListsInv'
<1> SUFFICES ASSUME ListsInv, [CanNext]_can_vars PROVE ListsInv'
  OBVIOUS
<1>1. ASSUME UNCHANGED <<can_next, registered>> PROVE ListsInv'
  BY <1>1 DEF ListsInv
<1>2. CASE \E c \in Cans : \E t \in DOMAIN CanTables : sdk_can_register(c, t)
  BY <1>2, RegisterKeepsLists
<1>3. CASE \E c \in Cans : sdk_can_open(c) \/ sdk_can_close(c) \/ sdk_can_rx_isr(c) \/ sdk_can_recv_poll(c)
  <2>1. UNCHANGED <<can_next, registered>>
    BY <1>3 DEF sdk_can_open, sdk_can_close, sdk_can_rx_isr, sdk_can_recv_poll
  <2>2. QED
    BY <1>1, <2>1
<1>4. CASE UNCHANGED can_vars
  BY <1>1, <1>4 DEF can_vars
<1>5. QED
  BY <1>2, <1>3, <1>4 DEF CanNext

LEMMA ListsInitHold == CanInit => ListsInv
<1> SUFFICES ASSUME CanInit PROVE ListsInv
  OBVIOUS
<1> DEFINE L == [c \in Cans |-> <<>>]
<1>1. /\ can_next = [e \in Nodes |-> NONE] /\ registered = [c \in Cans |-> <<>>]
  BY DEF CanInit, Nodes
<1>2. ListsAre(can_next, L)
  <2>1. can_next \in [Nodes -> Entries \cup {NONE}]
    BY <1>1
  <2>2. L \in [Cans -> Seq(Entries)] /\ \A c \in Cans : L[c] = <<>>
    OBVIOUS
  <2>3. ASSUME NEW c \in Cans PROVE Leads(can_next, c, <<>>)
    <3>1. Place(c, <<>>, 0) = c /\ Place(c, <<>>, 1) = NONE /\ c \in Nodes
      BY DEF Place, Nodes
    <3>2. \A i \in 0 .. Len(<<>>) : i = 0 /\ i + 1 = 1
      OBVIOUS
    <3>3. <<>> \in Seq(DOMAIN can_next) /\ DOMAIN can_next = Nodes /\ can_next[c] = NONE
      BY <1>1, <3>1
    <3>4. QED
      BY <3>1, <3>2, <3>3 DEF Leads
  <2>4. \A e \in Entries : can_next[e] = NONE
    BY <1>1 DEF Nodes
  <2> HIDE DEF L
  <2>5. QED
    BY <2>1, <2>2, <2>3, <2>4 DEF ListsAre
<1>3. ListIs(<<>>, <<>>)
  <2>1. [i \in DOMAIN <<>> |-> CanTables[<<>>[i]]] = <<>>
    OBVIOUS
  <2>2. FlattenSeq(<<>>) = <<>>
    BY DEF FlattenSeq
  <2>3. DOMAIN <<>> = {}
    OBVIOUS
  <2>4. QED
    BY <2>1, <2>2, <2>3 DEF ListIs
<1>4. \A c \in Cans : ListIs(registered[c], L[c])
  BY <1>1, <1>3
<1>5. /\ registered \in [Cans -> Seq(DOMAIN CanTables)]
      /\ \A c \in Cans : \A k \in DOMAIN registered[c] : TableOf[registered[c][k]] = c
  BY <1>1
<1> HIDE DEF L
<1>6. QED
  BY <1>2, <1>4, <1>5 DEF ListsInv

\* For any controllers and tables: a controller's list is the tables that were
\* registered with it, in that order, however often each of them was.
THEOREM ListsFollowRegistration == CanSpec => []ListIsWhatWasRegistered
<1>1. ListsInv => ListIsWhatWasRegistered
  <2> SUFFICES ASSUME ListsInv, NEW c \in Cans
               PROVE  Tail(Chain(can_next, c)) =
                        FlattenSeq([i \in DOMAIN registered[c] |-> CanTables[registered[c][i]]])
    BY DEF ListIsWhatWasRegistered
  <2>1. PICK L : ListsAre(can_next, L) /\ \A d \in Cans : ListIs(registered[d], L[d])
    BY DEF ListsInv
  <2> DEFINE q == L[c]
             k == Len(q)
             chain == Chain(can_next, c)
             P(i) == Place(c, q, i - 1)
             m == k + 1
  <2>2. q \in Seq(Entries) /\ Leads(can_next, c, q) /\ DOMAIN can_next = Nodes /\ c \in Nodes
    BY <2>1 DEF ListsAre, Nodes
  <2>3. k \in Nat /\ DOMAIN q = 1 .. k /\ m \in Nat /\ m >= 1 /\ m - 1 = k
    BY <2>2
  <2>4. chain = [i \in 1 .. m |-> P(i)]
    BY <2>2, ChainIs, NodesAre
  <2>5. \A i \in 1 .. m : P(i) \in Nodes
    <3> SUFFICES ASSUME NEW i \in 1 .. m PROVE P(i) \in Nodes
      OBVIOUS
    <3> DEFINE j == i - 1
    <3>1. j \in 0 .. k
      BY <2>3
    <3> HIDE DEF j
    <3>2. Place(c, q, j) \in Nodes
      <4>1. q \in Seq(DOMAIN can_next) /\ c \in DOMAIN can_next /\ NONE \notin DOMAIN can_next
        BY <2>2, NodesAre DEF Leads
      <4> HIDE DEF q
      <4>2. \A l \in 0 .. Len(q) : Place(c, q, l) \in DOMAIN can_next
        BY <4>1, PlacesAre
      <4>3. QED
        BY <2>2, <3>1, <4>2
    <3>3. QED
      BY <3>2 DEF j
  <2>6. \A i \in 1 .. k : P(i + 1) = q[i]
    <3> SUFFICES ASSUME NEW i \in 1 .. k PROVE P(i + 1) = q[i]
      OBVIOUS
    <3>1. (i + 1) - 1 = i /\ i # 0
      BY <2>3
    <3>2. QED
      BY <2>3, <3>1 DEF Place
  <2> HIDE DEF P, chain, m, k
  <2>7. chain \in Seq(Nodes) /\ Len(chain) = m /\ \A i \in 1 .. m : chain[i] = P(i)
    BY <2>3, <2>4, <2>5
  <2>8. /\ Tail(chain) \in Seq(Nodes) /\ Len(Tail(chain)) = k
        /\ \A i \in 1 .. k : Tail(chain)[i] = chain[i + 1]
    BY <2>3, <2>7
  <2>9. \A i \in 1 .. k : Tail(chain)[i] = q[i]
    <3>1. \A i \in 1 .. k : i + 1 \in 1 .. m
      BY <2>3
    <3>2. QED
      BY <2>6, <2>7, <2>8, <3>1
  <2>10. q \in Seq(Nodes) /\ Len(q) = k
    BY <2>2 DEF k, Nodes
  <2>11. Tail(chain) = q
    <3> HIDE DEF q
    <3>1. QED
      BY <2>8, <2>9, <2>10, SeqEqual
  <2>12. QED
    BY <2>1, <2>11 DEF ListIs, chain
<1>2. QED
  BY <1>1, ListsInitHold, CanNextKeepsLists, PTL DEF CanSpec

Msgs == [id : CanIds, n : Nat]

Handleds == [entry : Entries, dev : DOMAIN CanTables \cup {NONE}, id : CanIds, n : Nat]

\* The queue holds the last messages of those that were received.
NewestQueued(q, sent) ==
  Len(q) <= sent /\ \A i \in 1 .. Len(q) : q[i].n = (sent - Len(q)) + i

\* Each handler was called with a message of its id, none of them after message last.
CalledInOrder(h, last) ==
  \A i \in 1 .. Len(h) :
    CanId[h[i].entry] = h[i].id /\ h[i].n <= last /\ (i > 1 => h[i - 1].n < h[i].n)

MessagesInv ==
  /\ can_dev \in [Cans -> DOMAIN CanTables \cup {NONE}]
  /\ rx_mq \in [Cans -> Seq(Msgs)] /\ can_sent \in [Cans -> Nat] /\ handled \in [Cans -> Seq(Handleds)]
  /\ \A c \in Cans : /\ NewestQueued(rx_mq[c], can_sent[c])
                     /\ CalledInOrder(handled[c], can_sent[c] - Len(rx_mq[c]))

LEMMA QueueGrows ==
  ASSUME NEW q \in Seq(Msgs), NEW sent \in Nat, NewestQueued(q, sent), NEW m \in Msgs, m.n = sent + 1
  PROVE  NewestQueued(Append(q, m), sent + 1)
<1> DEFINE k == Len(q)
           new == Append(q, m)
<1>1. k \in Nat /\ k <= sent /\ \A i \in 1 .. k : q[i].n = (sent - k) + i
  BY DEF NewestQueued
<1>2. Len(new) = k + 1 /\ new[k + 1] = m /\ \A i \in 1 .. k : new[i] = q[i]
  BY AppendProperties
<1> HIDE DEF k, new
<1>3. ASSUME NEW i \in 1 .. k + 1 PROVE new[i].n = ((sent + 1) - (k + 1)) + i
  <2>1. CASE i = k + 1
    BY <1>1, <1>2, <2>1
  <2>2. CASE i \in 1 .. k
    <3>1. new[i].n = (sent - k) + i
      BY <1>1, <1>2, <2>2
    <3>2. (sent - k) + i = ((sent + 1) - (k + 1)) + i
      BY <1>1
    <3>3. QED
      BY <3>1, <3>2
  <2>3. QED
    BY <1>1, <2>1, <2>2
<1>4. k + 1 <= sent + 1
  BY <1>1
<1>5. QED
  BY <1>2, <1>3, <1>4 DEF NewestQueued, new

LEMMA QueueShrinks ==
  ASSUME NEW q \in Seq(Msgs), q # <<>>, NEW sent \in Nat, NewestQueued(q, sent)
  PROVE  /\ NewestQueued(Tail(q), sent) /\ Tail(q) \in Seq(Msgs) /\ Head(q) \in Msgs
         /\ Len(Tail(q)) = Len(q) - 1 /\ Len(q) \in Nat /\ Len(q) > 0
         /\ Head(q).n = (sent - Len(q)) + 1
<1> DEFINE k == Len(q)
           new == Tail(q)
<1>1. k \in Nat /\ k > 0 /\ k <= sent /\ \A i \in 1 .. k : q[i].n = (sent - k) + i
  BY DEF NewestQueued
<1>2. /\ new \in Seq(Msgs) /\ Head(q) \in Msgs /\ Len(new) = k - 1 /\ Head(q) = q[1]
      /\ \A i \in 1 .. k - 1 : new[i] = q[i + 1]
  OBVIOUS
<1> HIDE DEF k, new
<1>3. ASSUME NEW i \in 1 .. k - 1 PROVE new[i].n = (sent - (k - 1)) + i
  <2> DEFINE j == i + 1
  <2>1. j \in 1 .. k /\ (sent - k) + j = (sent - (k - 1)) + i
    BY <1>1
  <2> HIDE DEF j
  <2>2. q[j].n = (sent - k) + j
    BY <1>1, <2>1
  <2>3. QED
    BY <1>2, <2>1, <2>2 DEF j
<1>4. k - 1 <= sent /\ 1 \in 1 .. k
  BY <1>1
<1>5. QED
  BY <1>1, <1>2, <1>3, <1>4 DEF NewestQueued, new, k

LEMMA CallsGrow ==
  ASSUME NEW h \in Seq(Handleds), NEW last \in Int, CalledInOrder(h, last),
         NEW e \in Handleds, CanId[e.entry] = e.id, e.n > last, NEW now \in Int, e.n <= now, last <= now
  PROVE  CalledInOrder(h, now) /\ CalledInOrder(Append(h, e), now)
<1> DEFINE k == Len(h)
           new == Append(h, e)
<1>1. k \in Nat /\ \A i \in 1 .. k : h[i] \in Handleds /\ h[i].n \in Nat
  <2>1. k \in Nat /\ \A i \in 1 .. k : h[i] \in Handleds
    OBVIOUS
  <2>2. \A x \in Handleds : x.n \in Nat
    BY DEF Handleds
  <2>3. QED
    BY <2>1, <2>2
<1>2. \A i \in 1 .. k : CanId[h[i].entry] = h[i].id /\ h[i].n <= last /\ (i > 1 => h[i - 1].n < h[i].n)
  BY DEF CalledInOrder
<1>3. Len(new) = k + 1 /\ new[k + 1] = e /\ \A i \in 1 .. k : new[i] = h[i]
  BY AppendProperties
<1>4. \A i \in 1 .. k : h[i].n <= now
  BY <1>1, <1>2
<1> HIDE DEF k, new
<1>5. CalledInOrder(h, now)
  BY <1>2, <1>4 DEF CalledInOrder, k
<1>6. ASSUME NEW i \in 1 .. k + 1
      PROVE  CanId[new[i].entry] = new[i].id /\ new[i].n <= now /\ (i > 1 => new[i - 1].n < new[i].n)
  <2> DEFINE j == i - 1
  <2>1. i > 1 => j \in 1 .. k
    BY <1>1
  <2> HIDE DEF j
  <2>2. i > 1 => new[j] = h[j]
    BY <1>3, <2>1
  <2>3. CASE i = k + 1
    <3>1. i > 1 => h[j].n <= last /\ h[j].n \in Nat /\ e.n \in Nat
      BY <1>1, <1>2, <2>1 DEF Handleds
    <3>2. i > 1 => h[j].n < e.n
      BY <3>1
    <3>3. QED
      BY <1>3, <2>2, <2>3, <3>2 DEF j
  <2>4. CASE i \in 1 .. k
    BY <1>2, <1>3, <1>4, <2>2, <2>4 DEF j
  <2>5. QED
    BY <1>1, <2>3, <2>4
<1>7. CalledInOrder(new, now)
  BY <1>3, <1>6 DEF CalledInOrder
<1>8. QED
  BY <1>5, <1>7 DEF new

LEMMA CalledStays ==
  ASSUME NEW h \in Seq(Handleds), NEW last \in Int, CalledInOrder(h, last), NEW now \in Int, last <= now
  PROVE  CalledInOrder(h, now)
<1>1. \A i \in 1 .. Len(h) : h[i].n \in Nat
  <2>1. \A i \in 1 .. Len(h) : h[i] \in Handleds
    OBVIOUS
  <2>2. \A x \in Handleds : x.n \in Nat
    BY DEF Handleds
  <2>3. QED
    BY <2>1, <2>2
<1>2. \A i \in 1 .. Len(h) : h[i].n <= last
  BY DEF CalledInOrder
<1>3. \A i \in 1 .. Len(h) : h[i].n <= now
  BY <1>1, <1>2
<1>4. QED
  BY <1>3 DEF CalledInOrder

LEMMA IsrKeepsMessages ==
  ASSUME MessagesInv, NEW c \in Cans, sdk_can_rx_isr(c)
  PROVE  MessagesInv'
<1> DEFINE q == rx_mq[c]
           sent == can_sent[c]
           kept == IF Len(q) < MqLen - 1 THEN q ELSE Tail(q)
<1>1. /\ can_dev \in [Cans -> DOMAIN CanTables \cup {NONE}]
      /\ rx_mq \in [Cans -> Seq(Msgs)] /\ can_sent \in [Cans -> Nat] /\ handled \in [Cans -> Seq(Handleds)]
      /\ \A d \in Cans : /\ NewestQueued(rx_mq[d], can_sent[d])
                         /\ CalledInOrder(handled[d], can_sent[d] - Len(rx_mq[d]))
  BY DEF MessagesInv
<1>2. q \in Seq(Msgs) /\ sent \in Nat /\ NewestQueued(q, sent) /\ Len(q) \in Nat /\ MqLen \in Nat \ {0, 1}
  BY <1>1, CanTablesAreLists
<1>3. PICK id \in CanIds :
        rx_mq' = [rx_mq EXCEPT ![c] =
          Append(IF Len(@) < MqLen - 1 THEN @ ELSE Tail(@), [id |-> id, n |-> can_sent[c] + 1])]
  BY DEF sdk_can_rx_isr
<1> DEFINE m == [id |-> id, n |-> sent + 1]
           new == Append(kept, m)
<1>4. rx_mq' = [rx_mq EXCEPT ![c] = new]
  BY <1>1, <1>3
<1>5. can_sent' = [can_sent EXCEPT ![c] = sent + 1] /\ UNCHANGED <<can_dev, handled>>
  BY DEF sdk_can_rx_isr
<1>6. m \in Msgs /\ m.n = sent + 1
  BY <1>2 DEF Msgs
<1>7. kept \in Seq(Msgs) /\ NewestQueued(kept, sent) /\ Len(kept) \in Nat /\ Len(kept) <= Len(q)
  <2>1. CASE Len(q) < MqLen - 1
    BY <1>2, <2>1
  <2>2. CASE ~(Len(q) < MqLen - 1)
    <3>1. q # <<>>
      BY <1>2, <2>2
    <3>2. Tail(q) \in Seq(Msgs) /\ NewestQueued(Tail(q), sent) /\ Len(Tail(q)) = Len(q) - 1 /\ Len(q) > 0
      BY <1>2, <3>1, QueueShrinks
    <3>3. QED
      BY <1>2, <2>2, <3>2
  <2>3. QED
    BY <2>1, <2>2
<1> HIDE DEF kept, m
<1>8. new \in Seq(Msgs) /\ NewestQueued(new, sent + 1) /\ Len(new) = Len(kept) + 1
  BY <1>2, <1>6, <1>7, QueueGrows, AppendProperties
<1> HIDE DEF new
<1>9. rx_mq' \in [Cans -> Seq(Msgs)] /\ can_sent' \in [Cans -> Nat]
  BY <1>1, <1>2, <1>4, <1>5, <1>8
<1>10. rx_mq'[c] = new /\ can_sent'[c] = sent + 1
  BY <1>1, <1>4, <1>5
<1>11. \A d \in Cans : d # c => rx_mq'[d] = rx_mq[d] /\ can_sent'[d] = can_sent[d]
  BY <1>1, <1>4, <1>5
<1>12. CalledInOrder(handled[c], (sent + 1) - Len(new))
  <2> DEFINE last == sent - Len(q)
             now == (sent + 1) - Len(new)
             h == handled[c]
  <2>1. last \in Int /\ now \in Int /\ last <= now
    BY <1>2, <1>7, <1>8
  <2>2. h \in Seq(Handleds) /\ CalledInOrder(h, last)
    BY <1>1
  <2> HIDE DEF last, now, h
  <2>3. CalledInOrder(h, now)
    BY <2>1, <2>2, CalledStays
  <2>4. QED
    BY <2>3 DEF now, h
<1> HIDE DEF q, sent
<1>13. \A d \in Cans : /\ NewestQueued(rx_mq'[d], can_sent'[d])
                       /\ CalledInOrder(handled[d], can_sent'[d] - Len(rx_mq'[d]))
  BY <1>1, <1>8, <1>10, <1>11, <1>12
<1>14. QED
  BY <1>1, <1>5, <1>9, <1>13 DEF MessagesInv

LEMMA PollKeepsMessages ==
  ASSUME MessagesInv, ListsInv, NEW c \in Cans, sdk_can_recv_poll(c)
  PROVE  MessagesInv'
<1> DEFINE q == rx_mq[c]
           sent == can_sent[c]
           h == handled[c]
           msg == Head(q)
           matching == {e \in Entries : CanId[e] = msg.id}
           entry == get_canid_table_obj(c, msg.id)
           e == [entry |-> entry, dev |-> can_dev[c], id |-> msg.id, n |-> msg.n]
           last == sent - Len(q)
           now == sent - Len(Tail(q))
<1>1. /\ can_dev \in [Cans -> DOMAIN CanTables \cup {NONE}]
      /\ rx_mq \in [Cans -> Seq(Msgs)] /\ can_sent \in [Cans -> Nat] /\ handled \in [Cans -> Seq(Handleds)]
      /\ \A d \in Cans : /\ NewestQueued(rx_mq[d], can_sent[d])
                         /\ CalledInOrder(handled[d], can_sent[d] - Len(rx_mq[d]))
  BY DEF MessagesInv
<1>2. /\ q # <<>> /\ rx_mq' = [rx_mq EXCEPT ![c] = Tail(q)] /\ UNCHANGED <<can_dev, can_sent>>
      /\ handled' = [handled EXCEPT ![c] = IF entry = NONE THEN h ELSE Append(h, e)]
  BY <1>1 DEF sdk_can_recv_poll, sdk_can_read, sdk_can_msg_parse
<1>3. q \in Seq(Msgs) /\ sent \in Nat /\ NewestQueued(q, sent) /\ h \in Seq(Handleds) /\ CalledInOrder(h, last)
  BY <1>1
<1>4. /\ NewestQueued(Tail(q), sent) /\ Tail(q) \in Seq(Msgs) /\ msg \in Msgs
      /\ Len(Tail(q)) = Len(q) - 1 /\ Len(q) \in Nat /\ msg.n = last + 1
  BY <1>2, <1>3, QueueShrinks
<1>5. last \in Int /\ now \in Int /\ last <= now /\ now = last + 1 /\ msg.n > last /\ msg.n <= now
  BY <1>3, <1>4
<1>6. entry \in matching \cup {NONE}
  <2>1. PICK L : ListsAre(can_next, L)
    BY DEF ListsInv
  <2>2. DOMAIN can_next = Nodes /\ Leads(can_next, c, L[c])
    BY <2>1 DEF ListsAre
  <2> HIDE DEF matching
  <2>3. FirstMatch(can_next, c, matching) \in matching \cup {NONE}
    BY <2>2, NodesAre, FirstMatchIs
  <2>4. QED
    BY <2>3 DEF get_canid_table_obj, matching
<1>7. CASE entry = NONE
  <2>1. handled' = handled
    BY <1>1, <1>2, <1>7
  <2> HIDE DEF now, last, h, q, sent
  <2>2. CalledInOrder(h, now)
    BY <1>3, <1>5, CalledStays
  <2>3. /\ rx_mq' \in [Cans -> Seq(Msgs)] /\ rx_mq'[c] = Tail(q)
        /\ \A d \in Cans : d # c => rx_mq'[d] = rx_mq[d]
    BY <1>1, <1>2, <1>4
  <2>4. \A d \in Cans : /\ NewestQueued(rx_mq'[d], can_sent[d])
                        /\ CalledInOrder(handled[d], can_sent[d] - Len(rx_mq'[d]))
    BY <1>1, <1>4, <2>2, <2>3 DEF now, h, sent
  <2>5. QED
    BY <1>1, <1>2, <2>1, <2>3, <2>4 DEF MessagesInv
<1>8. CASE entry # NONE
  <2>1. entry \in Entries /\ CanId[entry] = msg.id
    BY <1>6, <1>8
  <2>2. msg.id \in CanIds /\ msg.n \in Nat /\ can_dev[c] \in DOMAIN CanTables \cup {NONE}
    BY <1>1, <1>4 DEF Msgs
  <2> HIDE DEF entry, msg, now, last, h, q, sent
  <2>3. e \in Handleds /\ e.entry = entry /\ e.id = msg.id /\ e.n = msg.n
    BY <2>1, <2>2 DEF Handleds
  <2> HIDE DEF e
  <2>4. CalledInOrder(Append(h, e), now)
    BY <1>3, <1>5, <2>1, <2>3, CallsGrow
  <2>5. Append(h, e) \in Seq(Handleds)
    BY <1>3, <2>3
  <2>6. handled' = [handled EXCEPT ![c] = Append(h, e)]
    BY <1>2, <1>8
  <2>7. /\ handled' \in [Cans -> Seq(Handleds)] /\ handled'[c] = Append(h, e)
        /\ \A d \in Cans : d # c => handled'[d] = handled[d]
    BY <1>1, <2>5, <2>6
  <2>8. /\ rx_mq' \in [Cans -> Seq(Msgs)] /\ rx_mq'[c] = Tail(q)
        /\ \A d \in Cans : d # c => rx_mq'[d] = rx_mq[d]
    BY <1>1, <1>2, <1>4
  <2>9. \A d \in Cans : /\ NewestQueued(rx_mq'[d], can_sent[d])
                        /\ CalledInOrder(handled'[d], can_sent[d] - Len(rx_mq'[d]))
    BY <1>1, <1>4, <2>4, <2>7, <2>8 DEF now, sent
  <2>10. QED
    BY <1>1, <1>2, <2>7, <2>8, <2>9 DEF MessagesInv
<1>9. QED
  BY <1>7, <1>8

LEMMA CanNextKeepsMessages == MessagesInv /\ ListsInv /\ [CanNext]_can_vars => MessagesInv'
<1> SUFFICES ASSUME MessagesInv, ListsInv, [CanNext]_can_vars PROVE MessagesInv'
  OBVIOUS
<1>1. CASE \E c \in Cans : sdk_can_rx_isr(c)
  BY <1>1, IsrKeepsMessages
<1>2. CASE \E c \in Cans : sdk_can_recv_poll(c)
  BY <1>2, PollKeepsMessages
<1>3. CASE \E c \in Cans : sdk_can_open(c) \/ sdk_can_close(c)
  <2>1. UNCHANGED <<can_dev, rx_mq, can_sent, handled>>
    BY <1>3 DEF sdk_can_open, sdk_can_close
  <2>2. QED
    BY <2>1 DEF MessagesInv
<1>4. CASE \E c \in Cans : \E t \in DOMAIN CanTables : sdk_can_register(c, t)
  <2>1. PICK c \in Cans, t \in DOMAIN CanTables : sdk_can_register(c, t)
    BY <1>4
  <2>2. UNCHANGED <<rx_mq, can_sent, handled>> /\ can_dev' = [can_dev EXCEPT ![c] = t]
    BY <2>1 DEF sdk_can_register
  <2>3. can_dev' \in [Cans -> DOMAIN CanTables \cup {NONE}]
    BY <2>2 DEF MessagesInv
  <2>4. QED
    BY <2>2, <2>3 DEF MessagesInv
<1>5. CASE UNCHANGED can_vars
  BY <1>5 DEF MessagesInv, can_vars
<1>6. QED
  BY <1>1, <1>2, <1>3, <1>4, <1>5 DEF CanNext

\* For any controllers, tables and queue length: handlers get messages in the
\* order in which they came, and the queue loses none but the oldest.
THEOREM MessagesReachHandlers == CanSpec => []MessagesInOrder
<1>1. CanInit => MessagesInv
  BY DEF CanInit, MessagesInv, NewestQueued, CalledInOrder
<1>2. MessagesInv => MessagesInOrder
  <2> SUFFICES ASSUME MessagesInv, NEW c \in Cans
               PROVE  /\ \A i \in DOMAIN handled[c] :
                           /\ CanId[handled[c][i].entry] = handled[c][i].id
                           /\ i > 1 => handled[c][i - 1].n < handled[c][i].n
                      /\ \A i \in DOMAIN rx_mq[c] : rx_mq[c][i].n = can_sent[c] - Len(rx_mq[c]) + i
    BY DEF MessagesInOrder
  <2>1. /\ DOMAIN handled[c] = 1 .. Len(handled[c]) /\ DOMAIN rx_mq[c] = 1 .. Len(rx_mq[c])
        /\ NewestQueued(rx_mq[c], can_sent[c])
        /\ CalledInOrder(handled[c], can_sent[c] - Len(rx_mq[c]))
    BY DEF MessagesInv
  <2>2. QED
    BY <2>1 DEF NewestQueued, CalledInOrder
<1>3. QED
  BY <1>1, <1>2, ListsInitHold, CanNextKeepsLists, CanNextKeepsMessages, PTL DEF CanSpec

--------------------------------------------------------------------------------
(* The Modbus master                                                       *)

MbRequests ==
  [kind : {"read", "write"}, func : {3, 16}, reg : MbRegs, num : MbNums] \ {NOTHING}

Plain == [v : Nat, crc : {<<>>}]

\* The bytes in front of the CRC of an answer, and those of an exception.
ReadBody(r) ==
  <<Byte(1), Byte(r.func), Byte(2 * r.num)>>
    \o [k \in 1 .. 2 * r.num |-> Word(r.reg + (k - 1) \div 2)[1 + ((k - 1) % 2)]]

WriteBody(r) == <<Byte(1), Byte(r.func)>> \o Word(r.reg) \o Word(r.num)

Refusals == {<<Byte(1), Byte(f + 128), Byte(code)>> : f \in {3, 16}, code \in 1 .. 4}

\* Body b and its CRC are in front of s.
Whole(b, s) == Len(s) >= Len(b) + 2 /\ \A i \in 1 .. Len(b) + 2 : s[i] = Sealed(b)[i]

\* The only bytes of s that are part of a CRC are of that of b, where it was sent.
Traces(b, s) ==
  /\ s \in Seq(Plain \cup {_bMBCRC16(b)[1], _bMBCRC16(b)[2]})
  /\ \A i \in 1 .. Len(s) : s[i].crc # <<>> => i \in {Len(b) + 1, Len(b) + 2} /\ s[i] = Sealed(b)[i]

\* s is not Sealed(b), and no further fault makes it so: the last byte of the CRC
\* is missing or another, or a byte of it was changed.
Damaged(b, s) ==
  \/ Len(s) < Len(b) + 2
  \/ s[Len(b) + 2] # Sealed(b)[Len(b) + 2]
  \/ \E i \in 1 .. Len(b) + 2 : i <= Len(s) /\ s[i] = Byte(7) /\ Sealed(b)[i] # Byte(7)

\* s is what became of the frame with body b, by which the slave meant m.
MbHolds(b, s, m) ==
  /\ b # <<>> /\ Traces(b, s)
  /\ \/ /\ s \in {Sealed(b), Append(Sealed(b), Byte(0))}
        /\ \/ m = NOTHING /\ b \in Refusals
           \/ m \in MbRequests /\ m.kind = "read" /\ b = ReadBody(m)
           \/ m \in MbRequests /\ m.kind = "write" /\ b = WriteBody(m)
     \/ m = NOTHING /\ Damaged(b, s)

MbInv ==
  /\ mb_request # NOTHING => mb_request \in MbRequests
  /\ mb_frame = <<>> => mb_data = NOTHING
  /\ mb_data # NOTHING => mb_data = Result(mb_frame)
  /\ mb_frame # <<>> => \E b \in Seq(Plain) : MbHolds(b, mb_frame, mb_meant)

\* A byte of the line that is part of no CRC.
LEMMA PlainByte ==
  ASSUME NEW v \in Nat
  PROVE  Byte(v) \in Plain /\ Byte(v).crc = <<>>
BY DEF Byte, Plain

LEMMA PlainCrc ==
  ASSUME NEW b \in Seq(Plain)
  PROVE  _bMBCRC16(b) = <<[v |-> 200, crc |-> b], [v |-> 201, crc |-> b]>>
<1> DEFINE k == Len(b)
<1>1. k \in Nat /\ \A i \in 1 .. k : b[i].crc = <<>>
  <2>1. k \in Nat /\ \A i \in 1 .. k : b[i] \in Plain
    OBVIOUS
  <2>2. \A x \in Plain : x.crc = <<>>
    BY DEF Plain
  <2> HIDE DEF k
  <2>3. QED
    BY <2>1, <2>2
<1>2. \A n \in 1 .. k : SubSeq(b, 1, n) # <<>>
  <2> SUFFICES ASSUME NEW n \in 1 .. k PROVE SubSeq(b, 1, n) # <<>>
    OBVIOUS
  <2>1. Len(SubSeq(b, 1, n)) = n /\ n # 0
    OBVIOUS
  <2>2. QED
    BY <2>1
<1> HIDE DEF k
<1>3. ~EndsInOwnLow(b)
  <2> SUFFICES ASSUME EndsInOwnLow(b) PROVE FALSE
    OBVIOUS
  <2>1. k > 1 /\ b[k] = Low(SubSeq(b, 1, k - 1)) /\ k - 1 \in 1 .. k
    BY <1>1 DEF EndsInOwnLow, k
  <2>2. b[k].crc = SubSeq(b, 1, k - 1)
    BY <2>1 DEF Low
  <2>3. QED
    BY <1>1, <1>2, <2>1, <2>2
<1>4. ~EndsInOwnCrc(b)
  <2> SUFFICES ASSUME NEW n \in 1 .. k - 2, b[n + 1] = Low(SubSeq(b, 1, n)) PROVE FALSE
    BY DEF EndsInOwnCrc, k
  <2>1. n \in 1 .. k /\ n + 1 \in 1 .. k
    BY <1>1
  <2>2. b[n + 1].crc = SubSeq(b, 1, n)
    BY DEF Low
  <2>3. QED
    BY <1>1, <1>2, <2>1, <2>2
<1>5. QED
  BY <1>3, <1>4 DEF _bMBCRC16, Low, High

LEMMA SealedIs ==
  ASSUME NEW b \in Seq(Plain)
  PROVE  /\ Len(b) \in Nat /\ Len(Sealed(b)) = Len(b) + 2
         /\ \A i \in {1, 2} : Sealed(b)[Len(b) + i] = _bMBCRC16(b)[i]
<1> DEFINE crc == _bMBCRC16(b)
           S == Plain \cup {crc[1], crc[2]}
           k == Len(b)
<1>1. crc \in Seq(S) /\ Len(crc) = 2
  <2>1. crc = <<crc[1], crc[2]>>
    BY PlainCrc
  <2>2. <<crc[1], crc[2]>> \in Seq(S) /\ Len(<<crc[1], crc[2]>>) = 2
    OBVIOUS
  <2>3. QED
    BY <2>1, <2>2
<1>2. b \in Seq(S) /\ k \in Nat /\ k = Len(b)
  OBVIOUS
<1> HIDE DEF S, crc, k
<1> DEFINE sent == b \o crc
<1>3. /\ Len(sent) = Len(b) + Len(crc)
      /\ \A j \in 1 .. Len(b) + Len(crc) : sent[j] = IF j <= Len(b) THEN b[j] ELSE crc[j - Len(b)]
  BY <1>1, <1>2, ConcatProperties
<1>4. sent = Sealed(b)
  BY DEF Sealed, crc
<1> HIDE DEF sent
<1>5. Len(sent) = k + 2 /\ \A j \in 1 .. k + 2 : sent[j] = IF j <= k THEN b[j] ELSE crc[j - k]
  BY <1>1, <1>2, <1>3
<1>6. ASSUME NEW i \in {1, 2} PROVE sent[k + i] = crc[i]
  BY <1>2, <1>5
<1>7. QED
  BY <1>2, <1>4, <1>5, <1>6 DEF crc, k

LEMMA SealedKeepsBody ==
  ASSUME NEW b \in Seq(Plain), NEW i \in 1 .. Len(b)
  PROVE  Sealed(b)[i] = b[i]
<1> DEFINE crc == _bMBCRC16(b)
           S == Plain \cup {crc[1], crc[2]}
<1>1. crc \in Seq(S)
  <2>1. crc = <<crc[1], crc[2]>>
    BY PlainCrc
  <2>2. <<crc[1], crc[2]>> \in Seq(S)
    OBVIOUS
  <2>3. QED
    BY <2>1, <2>2
<1>2. b \in Seq(S) /\ Len(b) \in Nat /\ i <= Len(b)
  OBVIOUS
<1> HIDE DEF S, crc
<1>3. \A j \in 1 .. Len(b) + Len(crc) : (b \o crc)[j] = IF j <= Len(b) THEN b[j] ELSE crc[j - Len(b)]
  BY <1>1, <1>2, ConcatProperties
<1>4. Len(crc) \in Nat
  BY <1>1
<1>5. QED
  BY <1>2, <1>3, <1>4 DEF Sealed, crc

LEMMA SealedIsTraced ==
  ASSUME NEW b \in Seq(Plain)
  PROVE  Traces(b, Sealed(b))
<1> DEFINE crc == _bMBCRC16(b)
           S == Plain \cup {crc[1], crc[2]}
<1>1. crc \in Seq(S)
  <2>1. crc = <<crc[1], crc[2]>>
    BY PlainCrc
  <2>2. <<crc[1], crc[2]>> \in Seq(S)
    OBVIOUS
  <2>3. QED
    BY <2>1, <2>2
<1>2. b \in Seq(S)
  OBVIOUS
<1> HIDE DEF S, crc
<1>3. b \o crc \in Seq(S)
  BY <1>1, <1>2, ConcatProperties
<1>4. ASSUME NEW i \in 1 .. Len(Sealed(b)), Sealed(b)[i].crc # <<>>
      PROVE  i \in {Len(b) + 1, Len(b) + 2}
  <2>1. i \in 1 .. Len(b) + 2 /\ Len(b) \in Nat
    BY SealedIs
  <2>2. CASE i \in 1 .. Len(b)
    <3>1. b[i] \in Plain
      BY <2>2
    <3>2. Sealed(b)[i].crc = <<>>
      BY <2>2, <3>1, SealedKeepsBody DEF Plain
    <3>3. QED
      BY <1>4, <3>2
  <2>3. QED
    BY <2>1, <2>2
<1>5. QED
  BY <1>3, <1>4 DEF Traces, Sealed, S, crc

\* What the checks accept was not damaged, and is as long as was sent, or a byte
\* longer, which is a 0; or there are more bytes than one behind it.
LEMMA MatchedIsWhole ==
  ASSUME NEW b \in Seq(Plain), NEW s, Traces(b, s), NEW n \in Nat \ {0}, CrcMatches(s, n)
  PROVE  /\ Whole(b, s) /\ ~Damaged(b, s)
         /\ \/ n = Len(b)
            \/ n = Len(b) + 1 /\ Len(s) >= Len(b) + 3 /\ s[Len(b) + 3] = Byte(0)
            \/ Len(s) >= Len(b) + 4
<1> DEFINE S == Plain \cup {_bMBCRC16(b)[1], _bMBCRC16(b)[2]}
           front == SubSeq(s, 1, n)
           back == SubSeq(s, n + 1, n + 2)
           k == Len(b)
           sent == Sealed(b)
<1>1. /\ s \in Seq(S) /\ Len(s) \in Nat /\ n + 2 <= Len(s)
      /\ \A i \in 1 .. Len(s) : s[i].crc # <<>> => i \in {k + 1, k + 2} /\ s[i] = sent[i]
  BY DEF Traces, CrcMatches
<1>2. back = _bMBCRC16(front)
  BY DEF CrcMatches
<1> HIDE DEF S
<1>3. Len(front) = n /\ \A i \in 1 .. n : front[i] = s[i]
  BY <1>1
<1>4. back[1] = s[n + 1] /\ back[2] = s[n + 2]
  BY <1>1
<1>5. \A i \in 1 .. n : SubSeq(front, 1, i) = SubSeq(s, 1, i)
  BY <1>1
<1> HIDE DEF front, back
<1>6. /\ k \in Nat
      /\ sent[k + 1] = [v |-> 200, crc |-> b] /\ sent[k + 2] = [v |-> 201, crc |-> b]
      /\ \A i \in 1 .. k : sent[i] = b[i]
  <2>1. k \in Nat /\ sent[k + 1] = [v |-> 200, crc |-> b] /\ sent[k + 2] = [v |-> 201, crc |-> b]
    BY SealedIs, PlainCrc
  <2>2. \A i \in 1 .. k : sent[i] = b[i]
    BY SealedKeepsBody
  <2>3. QED
    BY <2>1, <2>2
<1>7. \* The low byte of a CRC is where it was sent, and what is in front of it is b.
      ASSUME NEW i \in 1 .. Len(s) - 1, s[i + 1] = [v |-> 200, crc |-> SubSeq(s, 1, i)]
      PROVE  i = k /\ SubSeq(s, 1, i) = b
  <2>1. i \in 1 .. Len(s) /\ i + 1 \in 1 .. Len(s) /\ i # 0
    BY <1>1
  <2>2. Len(SubSeq(s, 1, i)) = i
    BY <1>1, <2>1
  <2>3. SubSeq(s, 1, i) # <<>>
    BY <2>1, <2>2
  <2>4. s[i + 1].crc = SubSeq(s, 1, i) /\ s[i + 1].v = 200
    BY <1>7
  <2>5. i + 1 \in {k + 1, k + 2} /\ s[i + 1] = sent[i + 1]
    BY <1>1, <2>1, <2>3, <2>4
  <2> HIDE DEF sent, k
  <2>6. i + 1 # k + 2
    BY <1>6, <2>4, <2>5
  <2>7. i + 1 = k + 1
    BY <2>5, <2>6
  <2>8. i = k
    BY <1>6, <2>7
  <2>9. SubSeq(s, 1, i) = b
    BY <1>6, <2>4, <2>5, <2>7
  <2>10. QED
    BY <2>8, <2>9
<1>8. \* The high byte of the CRC of b is where it was sent.
      ASSUME SubSeq(s, 1, k) = b, s[k + 1] = [v |-> 200, crc |-> b],
             s[k + 2] = [v |-> 201, crc |-> b], Len(s) >= k + 2
      PROVE  Whole(b, s) /\ ~Damaged(b, s)
  <2>1. \A i \in 1 .. k : s[i] = b[i]
    <3>1. \A i \in 1 .. k : SubSeq(s, 1, k)[i] = s[i]
      BY <1>1, <1>6, <1>8
    <3>2. QED
      BY <1>8, <3>1
  <2> HIDE DEF sent, k
  <2>2. \A i \in 1 .. k + 2 : s[i] = sent[i]
    <3> SUFFICES ASSUME NEW i \in 1 .. k + 2 PROVE s[i] = sent[i]
      OBVIOUS
    <3>1. CASE i \in 1 .. k
      BY <1>6, <2>1, <3>1
    <3>2. CASE i \in {k + 1, k + 2}
      BY <1>6, <1>8, <3>2
    <3>3. QED
      BY <1>6, <3>1, <3>2
  <2>3. k + 2 \in 1 .. k + 2
    BY <1>6
  <2>4. Len(s) >= k + 2 /\ ~(Len(s) < k + 2)
    BY <1>1, <1>6, <1>8
  <2>5. QED
    BY <2>2, <2>3, <2>4 DEF Whole, Damaged, k, sent
<1>9. CASE _bMBCRC16(front) = <<Low(front), High(front)>>
  <2>1. s[n + 1] = [v |-> 200, crc |-> front] /\ s[n + 2] = [v |-> 201, crc |-> front]
    BY <1>2, <1>4, <1>9 DEF Low, High
  <2>2. n \in 1 .. Len(s) - 1 /\ n + 2 <= Len(s)
    BY <1>1
  <2>3. n = k /\ front = b
    BY <1>7, <2>1, <2>2 DEF front
  <2>4. Whole(b, s) /\ ~Damaged(b, s)
    <3>1. Len(s) >= k + 2
      BY <1>1, <1>6, <2>2, <2>3
    <3>2. QED
      BY <1>8, <2>1, <2>3, <3>1 DEF front
  <2>5. QED
    BY <2>3, <2>4 DEF k
<1>10. CASE /\ EndsInOwnLow(front)
            /\ _bMBCRC16(front) = <<High(SubSeq(front, 1, n - 1)), Byte(0)>>
  <2> DEFINE i == n - 1
  <2>1. i \in 1 .. Len(s) - 1 /\ i \in 1 .. n /\ i + 1 = n /\ n \in 1 .. n
    BY <1>1, <1>3, <1>10 DEF EndsInOwnLow
  <2>2. front[n] = Low(SubSeq(front, 1, i)) /\ SubSeq(front, 1, i) = SubSeq(s, 1, i)
    BY <1>3, <1>5, <1>10, <2>1 DEF EndsInOwnLow
  <2>3. s[n] = [v |-> 200, crc |-> SubSeq(s, 1, i)]
    BY <1>3, <2>1, <2>2 DEF Low
  <2>4. s[n + 1] = [v |-> 201, crc |-> SubSeq(s, 1, i)] /\ s[n + 2] = Byte(0)
    BY <1>2, <1>4, <1>10, <2>2 DEF High
  <2> HIDE DEF i
  <2>5. i = k /\ SubSeq(s, 1, i) = b
    BY <1>7, <2>1, <2>3
  <2> HIDE DEF k
  <2>6. n = k + 1 /\ n + 1 = k + 2 /\ n + 2 = k + 3
    BY <1>6, <2>1, <2>5
  <2>7. Len(s) >= k + 2 /\ Len(s) >= k + 3
    BY <1>1, <1>6, <2>6
  <2>8. Whole(b, s) /\ ~Damaged(b, s)
    BY <1>8, <2>3, <2>4, <2>5, <2>6, <2>7
  <2>9. s[k + 3] = Byte(0)
    BY <2>4, <2>6
  <2>10. QED
    BY <2>6, <2>7, <2>8, <2>9 DEF k
<1>11. CASE EndsInOwnCrc(front)
  <2>1. PICK i \in 1 .. n - 2 : /\ front[i + 1] = Low(SubSeq(front, 1, i))
                                /\ front[i + 2] = High(SubSeq(front, 1, i))
    BY <1>3, <1>11 DEF EndsInOwnCrc
  <2>2. /\ i \in 1 .. n /\ i + 1 \in 1 .. n /\ i + 2 \in 1 .. n /\ i \in 1 .. Len(s) - 1
        /\ i + 4 <= Len(s)
    BY <1>1
  <2>3. /\ s[i + 1] = [v |-> 200, crc |-> SubSeq(s, 1, i)]
        /\ s[i + 2] = [v |-> 201, crc |-> SubSeq(s, 1, i)]
    <3>1. front[i + 1] = s[i + 1] /\ front[i + 2] = s[i + 2]
      BY <1>3, <2>2
    <3>2. SubSeq(front, 1, i) = SubSeq(s, 1, i)
      BY <1>5, <2>2
    <3>3. QED
      BY <2>1, <3>1, <3>2 DEF Low, High
  <2>4. i = k /\ SubSeq(s, 1, i) = b
    BY <1>7, <2>2, <2>3
  <2> HIDE DEF k
  <2>5. Len(s) >= k + 2 /\ Len(s) >= k + 4
    BY <1>1, <1>6, <2>2, <2>4
  <2>6. Whole(b, s) /\ ~Damaged(b, s)
    BY <1>8, <2>3, <2>4, <2>5
  <2>7. QED
    BY <2>5, <2>6 DEF k
<1>12. QED
  BY <1>3, <1>9, <1>10, <1>11 DEF _bMBCRC16

LEMMA WholeMatches ==
  ASSUME NEW b \in Seq(Plain), NEW s, Traces(b, s), Whole(b, s)
  PROVE  CrcMatches(s, Len(b))
<1> DEFINE S == Plain \cup {_bMBCRC16(b)[1], _bMBCRC16(b)[2]}
           k == Len(b)
           sent == Sealed(b)
           front == SubSeq(s, 1, k)
           back == SubSeq(s, k + 1, k + 2)
           x == [v |-> 200, crc |-> b]
           y == [v |-> 201, crc |-> b]
<1>1. /\ k \in Nat /\ sent[k + 1] = x /\ sent[k + 2] = y
      /\ \A i \in 1 .. k : sent[i] = b[i]
  <2>1. k \in Nat /\ sent[k + 1] = x /\ sent[k + 2] = y
    BY SealedIs, PlainCrc
  <2>2. \A i \in 1 .. k : sent[i] = b[i]
    BY SealedKeepsBody
  <2>3. QED
    BY <2>1, <2>2
<1>2. s \in Seq(S) /\ Len(s) \in Nat /\ Len(s) >= k + 2 /\ \A i \in 1 .. k + 2 : s[i] = sent[i]
  BY DEF Traces, Whole
<1>3. b \in Seq(S) /\ Len(b) = k
  OBVIOUS
<1> HIDE DEF S, sent, k, x, y
<1>4. front \in Seq(S) /\ Len(front) = k /\ \A i \in 1 .. k : front[i] = s[i]
  BY <1>1, <1>2
<1>5. \A i \in 1 .. k : front[i] = b[i]
  BY <1>1, <1>2, <1>4
<1>6. front = b
  <2> HIDE DEF front
  <2>1. QED
    BY <1>3, <1>4, <1>5, SeqEqual
<1>7. back \in Seq(S) /\ Len(back) = 2 /\ back[1] = s[k + 1] /\ back[2] = s[k + 2]
  BY <1>1, <1>2
<1>8. back = <<x, y>>
  <2>1. s[k + 1] = x /\ s[k + 2] = y
    BY <1>1, <1>2
  <2> HIDE DEF back
  <2>2. QED
    BY <1>7, <2>1
<1>9. k + 2 <= Len(s)
  BY <1>2
<1>10. QED
  BY <1>6, <1>8, <1>9, PlainCrc DEF CrcMatches, k, x, y

\* With a byte behind the frame at most, the lengths are right, but for ZeroBehind.
LEMMA ReadCheckAcceptsWhole ==
  ASSUME NEW b \in Seq(Plain), NEW s, Traces(b, s), _bMB_CheckRTUReadACK(s)
  PROVE  /\ Whole(b, s) /\ ~Damaged(b, s)
         /\ Len(s) <= Len(b) + 3 /\ ~ZeroBehind(s) => Len(b) = 3 + s[3].v
<1> DEFINE S == Plain \cup {_bMBCRC16(b)[1], _bMBCRC16(b)[2]}
           v == s[3].v
           n == 3 + v
           k == Len(b)
<1>1. s \in Seq(S) /\ Len(s) \in Nat /\ Len(s) >= 3 /\ CrcMatches(s, n) /\ k \in Nat
  BY DEF _bMB_CheckRTUReadACK, Traces
<1>2. \A x \in S : x.v \in Nat
  BY PlainCrc DEF Plain
<1>3. s[3] \in S
  <2> HIDE DEF S
  <2>1. QED
    BY <1>1
<1>4. v \in Nat /\ n \in Nat \ {0}
  BY <1>2, <1>3
<1> HIDE DEF S, n
<1>5. /\ Whole(b, s) /\ ~Damaged(b, s)
      /\ \/ n = k
         \/ n = k + 1 /\ Len(s) >= k + 3 /\ s[k + 3] = Byte(0)
         \/ Len(s) >= k + 4
  BY <1>1, <1>4, MatchedIsWhole
<1>6. CrcMatches(s, k)
  BY <1>5, WholeMatches
<1> HIDE DEF v, k
<1>7. ASSUME Len(s) <= k + 3, ~ZeroBehind(s) PROVE n = k
  <2>1. ~(Len(s) >= k + 4)
    BY <1>1, <1>7
  <2>2. CASE n = k + 1 /\ Len(s) >= k + 3 /\ s[k + 3] = Byte(0)
    <3>1. k = 2 + v
      BY <1>1, <1>4, <2>2 DEF n
    <3>2. ZeroBehind(s)
      BY <1>6, <2>2, <3>1 DEF ZeroBehind, v
    <3>3. QED
      BY <1>7, <3>2
  <2>3. QED
    BY <1>5, <2>1, <2>2
<1>8. QED
  BY <1>5, <1>7 DEF n, v, k

LEMMA WriteCheckAcceptsWhole ==
  ASSUME NEW b \in Seq(Plain), NEW s, Traces(b, s), _bMB_CheckRTUWriteACK(s)
  PROVE  /\ Whole(b, s) /\ ~Damaged(b, s)
         /\ Len(s) <= Len(b) + 3 => Len(b) \in {5, 6}
<1>1. CrcMatches(s, 6) /\ 6 \in Nat \ {0} /\ Len(b) \in Nat /\ Len(s) \in Nat
  BY DEF _bMB_CheckRTUWriteACK, Traces
<1>2. /\ Whole(b, s) /\ ~Damaged(b, s)
      /\ 6 = Len(b) \/ 6 = Len(b) + 1 \/ Len(s) >= Len(b) + 4
  BY <1>1, MatchedIsWhole
<1> DEFINE k == Len(b)
           l == Len(s)
<1>3. k \in Nat /\ l \in Nat /\ (6 = k \/ 6 = k + 1 \/ l >= k + 4)
  BY <1>1, <1>2
<1> HIDE DEF k, l
<1>4. l <= k + 3 => k \in {5, 6}
  BY <1>3
<1>5. QED
  BY <1>2, <1>4 DEF k, l

LEMMA WordAgain ==
  ASSUME NEW w \in Nat
  PROVE  (w \div 256) * 256 + (w % 256) = w
BY SMT

\* A word keeps its value on the line.
LEMMA WordIs ==
  ASSUME NEW w \in Nat
  PROVE  /\ Word(w)[1] = Byte(w \div 256) /\ Word(w)[2] = Byte(w % 256)
         /\ w \div 256 \in Nat /\ w % 256 \in Nat
         /\ Word(w)[1] \in Plain /\ Word(w)[2] \in Plain
<1>1. w \div 256 \in Nat /\ w % 256 \in Nat
  OBVIOUS
<1>2. Word(w)[1] = Byte(w \div 256) /\ Word(w)[2] = Byte(w % 256)
  BY DEF Word
<1>3. \A v \in Nat : Byte(v) \in Plain
  BY DEF Byte, Plain
<1>4. QED
  BY <1>1, <1>2, <1>3

LEMMA RequestIs ==
  ASSUME NEW r \in MbRequests
  PROVE  r.num \in 1 .. 127 /\ r.reg \in Nat /\ r.func \in {3, 16}
<1>1. r.num \in MbNums /\ r.reg \in MbRegs /\ r.func \in {3, 16}
  BY DEF MbRequests
<1>2. \A x \in MbNums : x \in 1 .. 127
  BY MbRange
<1>3. \A x \in MbRegs : x \in Nat
  BY MbRange
<1>4. QED
  BY <1>1, <1>2, <1>3

LEMMA ReadBodyIs ==
  ASSUME NEW r \in MbRequests
  PROVE  /\ ReadBody(r) \in Seq(Plain) /\ Len(ReadBody(r)) = 3 + 2 * r.num
         /\ ReadBody(r)[2] = Byte(r.func) /\ ReadBody(r)[3] = Byte(2 * r.num)
         /\ \A i \in 1 .. r.num : /\ ReadBody(r)[2 + 2 * i] = Word(r.reg + i - 1)[1]
                                 /\ ReadBody(r)[3 + 2 * i] = Word(r.reg + i - 1)[2]
<1> DEFINE n == r.num
           reg == r.reg
           front == <<Byte(1), Byte(r.func), Byte(2 * r.num)>>
           back == [k \in 1 .. 2 * r.num |-> Word(r.reg + (k - 1) \div 2)[1 + ((k - 1) % 2)]]
<1>1. n \in 1 .. 127 /\ reg \in Nat /\ r.func \in Nat
  BY RequestIs
<1>2. front \in Seq(Plain) /\ Len(front) = 3 /\ front[2] = Byte(r.func) /\ front[3] = Byte(2 * n)
  <2>1. \A v \in Nat : Byte(v) \in Plain
    BY DEF Byte, Plain
  <2>2. Byte(1) \in Plain /\ Byte(r.func) \in Plain /\ Byte(2 * r.num) \in Plain
    BY <1>1, <2>1
  <2>3. QED
    BY <2>2
<1>3. ASSUME NEW k \in 1 .. 2 * n
      PROVE  reg + (k - 1) \div 2 \in Nat /\ 1 + ((k - 1) % 2) \in {1, 2}
  BY <1>1
<1>4. ASSUME NEW k \in 1 .. 2 * n PROVE back[k] \in Plain
  <2> DEFINE w == reg + (k - 1) \div 2
             h == 1 + ((k - 1) % 2)
  <2>1. back[k] = Word(w)[h]
    OBVIOUS
  <2>2. w \in Nat /\ h \in {1, 2}
    BY <1>3
  <2> HIDE DEF w, h
  <2>3. Word(w)[1] \in Plain /\ Word(w)[2] \in Plain
    BY <2>2, WordIs
  <2>4. QED
    BY <2>1, <2>2, <2>3
<1>5. back \in Seq(Plain) /\ Len(back) = 2 * n /\ 2 * n \in Nat
  <2> DEFINE m == 2 * n
  <2>1. m \in Nat
    BY <1>1
  <2>2. DOMAIN back = 1 .. m /\ back = [k \in 1 .. m |-> back[k]]
    OBVIOUS
  <2> HIDE DEF m, back
  <2>3. \A k \in 1 .. m : back[k] \in Plain
    BY <1>4 DEF m
  <2>4. back \in [1 .. m -> Plain]
    BY <2>2, <2>3
  <2>5. back \in Seq(Plain) /\ Len(back) = m
    BY <2>1, <2>4
  <2>6. QED
    BY <2>1, <2>5 DEF m
<1>6. /\ ReadBody(r) \in Seq(Plain) /\ Len(ReadBody(r)) = 3 + 2 * n
      /\ \A i \in 1 .. 3 + 2 * n : ReadBody(r)[i] = IF i <= 3 THEN front[i] ELSE back[i - 3]
  <2>1. ReadBody(r) = front \o back
    BY DEF ReadBody
  <2> DEFINE m == 2 * n
  <2>2. back \in Seq(Plain) /\ Len(back) = m /\ m \in Nat
    BY <1>5
  <2> HIDE DEF front, back, m
  <2>3. /\ front \o back \in Seq(Plain) /\ Len(front \o back) = 3 + m
        /\ \A i \in 1 .. 3 + m : (front \o back)[i] = IF i <= 3 THEN front[i] ELSE back[i - 3]
    <3>1. /\ front \o back \in Seq(Plain) /\ Len(front \o back) = Len(front) + Len(back)
          /\ \A i \in 1 .. Len(front) + Len(back) :
               (front \o back)[i] = IF i <= Len(front) THEN front[i] ELSE back[i - Len(front)]
      BY <1>2, <2>2, ConcatProperties
    <3>2. Len(front) = 3 /\ Len(back) = m
      BY <1>2, <2>2
    <3>3. QED
      BY <3>1, <3>2
  <2>4. QED
    BY <2>1, <2>3 DEF m
<1>7. ASSUME NEW i \in 1 .. n
      PROVE  back[2 * i - 1] = Word(reg + i - 1)[1] /\ back[2 * i] = Word(reg + i - 1)[2]
  <2> DEFINE a == 2 * i - 1
             b == 2 * i
  <2>1. a \in 1 .. 2 * n /\ b \in 1 .. 2 * n
    BY <1>1
  <2>2. (a - 1) \div 2 = i - 1 /\ (a - 1) % 2 = 0 /\ (b - 1) \div 2 = i - 1 /\ (b - 1) % 2 = 1
    BY <1>1
  <2> HIDE DEF a, b
  <2>3. /\ back[a] = Word(reg + (a - 1) \div 2)[1 + ((a - 1) % 2)]
        /\ back[b] = Word(reg + (b - 1) \div 2)[1 + ((b - 1) % 2)]
    BY <2>1
  <2>4. reg + (i - 1) = reg + i - 1
    BY <1>1
  <2>5. QED
    BY <2>2, <2>3, <2>4 DEF a, b
<1>8. ASSUME NEW i \in 1 .. n
      PROVE  /\ ReadBody(r)[2 + 2 * i] = Word(reg + i - 1)[1]
             /\ ReadBody(r)[3 + 2 * i] = Word(reg + i - 1)[2]
  <2> DEFINE a == 2 + 2 * i
             b == 3 + 2 * i
  <2>1. /\ a \in 1 .. 3 + 2 * n /\ b \in 1 .. 3 + 2 * n /\ ~(a <= 3) /\ ~(b <= 3)
        /\ a - 3 = 2 * i - 1 /\ b - 3 = 2 * i
    BY <1>1
  <2> HIDE DEF a, b, back
  <2>2. ReadBody(r)[a] = back[a - 3] /\ ReadBody(r)[b] = back[b - 3]
    BY <1>6, <2>1
  <2>3. QED
    BY <1>7, <2>1, <2>2 DEF a, b
<1>9. 2 \in 1 .. 3 + 2 * n /\ 3 \in 1 .. 3 + 2 * n
  BY <1>1
<1> HIDE DEF front, back
<1>10. QED
  BY <1>2, <1>6, <1>8, <1>9

LEMMA WriteBodyIs ==
  ASSUME NEW r \in MbRequests
  PROVE  /\ WriteBody(r) \in Seq(Plain) /\ Len(WriteBody(r)) = 6
         /\ WriteBody(r)[2] = Byte(r.func)
         /\ WriteBody(r)[3] = Byte(r.reg \div 256) /\ WriteBody(r)[4] = Byte(r.reg % 256)
         /\ WriteBody(r)[5] = Byte(r.num \div 256) /\ WriteBody(r)[6] = Byte(r.num % 256)
<1>1. r.num \in Nat /\ r.reg \in Nat /\ r.func \in Nat
  BY RequestIs
<1>2. \A v \in Nat : Byte(v) \in Plain
  BY DEF Byte, Plain
<1>3. \A w \in Nat : w \div 256 \in Nat /\ w % 256 \in Nat
  OBVIOUS
<1> DEFINE a == Byte(1)
           b == Byte(r.func)
           c == Byte(r.reg \div 256)
           d == Byte(r.reg % 256)
           e == Byte(r.num \div 256)
           f == Byte(r.num % 256)
<1>4. a \in Plain /\ b \in Plain /\ c \in Plain /\ d \in Plain /\ e \in Plain /\ f \in Plain
  BY <1>1, <1>2, <1>3
<1> DEFINE s == <<a, b>>
           u == <<c, d>>
           w == <<e, f>>
<1>5. WriteBody(r) = s \o u \o w
  BY DEF WriteBody, Word
<1>6. /\ s \in Seq(Plain) /\ Len(s) = 2 /\ s[1] = a /\ s[2] = b
      /\ u \in Seq(Plain) /\ Len(u) = 2 /\ u[1] = c /\ u[2] = d
      /\ w \in Seq(Plain) /\ Len(w) = 2 /\ w[1] = e /\ w[2] = f
  BY <1>4
<1> HIDE DEF a, b, c, d, e, f, s, u, w
<1> DEFINE x == s \o u
<1>7. /\ x \in Seq(Plain) /\ Len(x) = 4
      /\ \A i \in 1 .. 4 : x[i] = IF i <= 2 THEN s[i] ELSE u[i - 2]
  <2>1. /\ x \in Seq(Plain) /\ Len(x) = Len(s) + Len(u)
        /\ \A i \in 1 .. Len(s) + Len(u) : x[i] = IF i <= Len(s) THEN s[i] ELSE u[i - Len(s)]
    BY <1>6, ConcatProperties
  <2> HIDE DEF x
  <2>2. QED
    BY <1>6, <2>1
<1> HIDE DEF x
<1>8. /\ x \o w \in Seq(Plain) /\ Len(x \o w) = 6
      /\ \A i \in 1 .. 6 : (x \o w)[i] = IF i <= 4 THEN x[i] ELSE w[i - 4]
  <2> DEFINE y == x \o w
  <2>1. /\ y \in Seq(Plain) /\ Len(y) = Len(x) + Len(w)
        /\ \A i \in 1 .. Len(x) + Len(w) : y[i] = IF i <= Len(x) THEN x[i] ELSE w[i - Len(x)]
    BY <1>6, <1>7, ConcatProperties
  <2> HIDE DEF y
  <2>2. y \in Seq(Plain) /\ Len(y) = 6 /\ \A i \in 1 .. 6 : y[i] = IF i <= 4 THEN x[i] ELSE w[i - 4]
    BY <1>6, <1>7, <2>1
  <2>3. QED
    BY <2>2 DEF y
<1>9. WriteBody(r) = x \o w
  BY <1>5 DEF x
<1> DEFINE y == WriteBody(r)
<1>10. y[2] = b /\ y[3] = c /\ y[4] = d /\ y[5] = e /\ y[6] = f
  <2>1. x[2] = s[2] /\ x[3] = u[1] /\ x[4] = u[2]
    BY <1>7
  <2> HIDE DEF y
  <2>2. \A i \in 1 .. 6 : y[i] = IF i <= 4 THEN x[i] ELSE w[i - 4]
    BY <1>8, <1>9 DEF y
  <2>3. y[2] = x[2] /\ y[3] = x[3] /\ y[4] = x[4] /\ y[5] = w[1] /\ y[6] = w[2]
    BY <2>2
  <2>4. QED
    BY <1>6, <2>1, <2>3
<1>11. QED
  BY <1>8, <1>9, <1>10 DEF a, b, c, d, e, f

\* A read that arrives whole is taken for what it is.
LEMMA ReadResult ==
  ASSUME NEW r \in MbRequests, r.kind = "read", NEW s, Traces(ReadBody(r), s), Whole(ReadBody(r), s)
  PROVE  Result(s) = Meaning(r)
<1> DEFINE b == ReadBody(r)
           n == r.num
           reg == r.reg
<1>1. n \in 1 .. 127 /\ reg \in Nat /\ r.func \in Nat
  BY RequestIs
<1>2. b \in Seq(Plain) /\ Len(b) = 3 + 2 * n /\ b[2] = Byte(r.func) /\ b[3] = Byte(2 * n)
  BY ReadBodyIs
<1>3. Len(s) >= 3 /\ \A i \in 1 .. 3 + 2 * n : s[i] = b[i]
  <2>1. \A i \in 1 .. Len(b) : Sealed(b)[i] = b[i]
    BY <1>2, SealedKeepsBody
  <2> HIDE DEF b, n
  <2>2. Len(s) >= Len(b) + 2 /\ \A i \in 1 .. Len(b) + 2 : s[i] = Sealed(b)[i]
    BY DEF Whole, b
  <2>3. Len(s) \in Nat
    BY DEF Traces, b
  <2>4. QED
    <3> DEFINE m == 3 + 2 * n
    <3>1. m \in Nat /\ Len(b) = m /\ m >= 3
      BY <1>1, <1>2
    <3> HIDE DEF m
    <3>2. \A i \in 1 .. m : s[i] = b[i]
      BY <2>1, <2>2, <3>1
    <3>3. Len(s) >= 3
      BY <2>2, <2>3, <3>1
    <3>4. QED
      BY <3>2, <3>3 DEF m
<1>4. s[2] = Byte(r.func) /\ s[3] = Byte(2 * n)
  <2>1. 2 \in 1 .. 3 + 2 * n /\ 3 \in 1 .. 3 + 2 * n
    BY <1>1
  <2> HIDE DEF b, n
  <2>2. QED
    BY <1>2, <1>3, <2>1
<1>5. s[2].v = r.func /\ s[3].v = 2 * n
  BY <1>4 DEF Byte
<1>6. CrcMatches(s, 3 + s[3].v)
  <2>1. CrcMatches(s, Len(b))
    BY <1>2, WholeMatches
  <2>2. QED
    BY <1>2, <1>5, <2>1
<1>7. _bMB_CheckRTUReadACK(s)
  BY <1>3, <1>6 DEF _bMB_CheckRTUReadACK
<1>8. (2 * n) \div 2 = n
  BY <1>1
<1>9. ASSUME NEW i \in 1 .. n PROVE WordAt(s, 2 + 2 * i) = reg + i - 1
  <2> DEFINE w == reg + i - 1
             k == 2 + 2 * i
  <2>1. w \in Nat /\ k \in 1 .. 3 + 2 * n /\ k + 1 \in 1 .. 3 + 2 * n /\ k + 1 = 3 + 2 * i
    BY <1>1
  <2>2. b[2 + 2 * i] = Word(w)[1] /\ b[3 + 2 * i] = Word(w)[2]
    BY ReadBodyIs
  <2> HIDE DEF w, b, n
  <2>3. s[k] = Word(w)[1] /\ s[k + 1] = Word(w)[2]
    <3>1. b[k] = Word(w)[1] /\ b[k + 1] = Word(w)[2]
      BY <2>1, <2>2
    <3> HIDE DEF k
    <3>2. QED
      BY <1>3, <2>1, <3>1
  <2> HIDE DEF k
  <2>4. s[k].v = w \div 256 /\ s[k + 1].v = w % 256
    <3>1. s[k] = Byte(w \div 256) /\ s[k + 1] = Byte(w % 256)
      BY <2>1, <2>3, WordIs
    <3>2. QED
      BY <3>1 DEF Byte
  <2>5. s[k].v * 256 + s[k + 1].v = w
    BY <2>1, <2>4, WordAgain
  <2>6. QED
    BY <2>5 DEF WordAt, w, k
<1>10. Result(s) = [type |-> 0, func |-> s[2].v, reg_num |-> s[3].v \div 2,
                    values |-> [i \in 1 .. s[3].v \div 2 |-> WordAt(s, 2 + 2 * i)]]
  BY <1>7 DEF Result
<1>11. s[3].v \div 2 = n
  BY <1>5, <1>8
<1>12. [i \in 1 .. s[3].v \div 2 |-> WordAt(s, 2 + 2 * i)] = [i \in 1 .. n |-> reg + i - 1]
  BY <1>9, <1>11
<1>13. Result(s) = [type |-> 0, func |-> r.func, reg_num |-> n,
                    values |-> [i \in 1 .. n |-> reg + i - 1]]
  BY <1>5, <1>10, <1>11, <1>12
<1>14. QED
  BY <1>13 DEF Meaning

\* So is the confirmation of a write, unless its third byte is the length of a read.
LEMMA WriteResult ==
  ASSUME NEW r \in MbRequests, r.kind = "write", r.reg \div 256 # 3,
         NEW s, Traces(WriteBody(r), s), Whole(WriteBody(r), s),
         Len(s) <= 9, ~ZeroBehind(s)
  PROVE  Result(s) = Meaning(r)
<1> DEFINE b == WriteBody(r)
<1>1. r.num \in Nat /\ r.reg \in Nat /\ r.func \in Nat
  <2>1. r.num \in 1 .. 127 /\ r.reg \in Nat /\ r.func \in {3, 16}
    BY RequestIs
  <2>2. \A x \in 1 .. 127 : x \in Nat
    OBVIOUS
  <2>3. \A x \in {3, 16} : x \in Nat
    OBVIOUS
  <2>4. QED
    BY <2>1, <2>2, <2>3
<1>2. /\ b \in Seq(Plain) /\ Len(b) = 6 /\ b[2] = Byte(r.func)
      /\ b[3] = Byte(r.reg \div 256) /\ b[4] = Byte(r.reg % 256)
      /\ b[5] = Byte(r.num \div 256) /\ b[6] = Byte(r.num % 256)
  BY WriteBodyIs
<1>3. \A i \in 1 .. 6 : s[i] = b[i]
  <2>1. \A i \in 1 .. Len(b) : Sealed(b)[i] = b[i]
    BY <1>2, SealedKeepsBody
  <2> HIDE DEF b
  <2>2. \A i \in 1 .. Len(b) + 2 : s[i] = Sealed(b)[i]
    BY DEF Whole, b
  <2>3. QED
    BY <1>2, <2>1, <2>2
<1>4. /\ s[2].v = r.func /\ s[3].v = r.reg \div 256 /\ s[4].v = r.reg % 256
      /\ s[5].v = r.num \div 256 /\ s[6].v = r.num % 256
  <2> HIDE DEF b
  <2>1. /\ s[2] = Byte(r.func) /\ s[3] = Byte(r.reg \div 256) /\ s[4] = Byte(r.reg % 256)
        /\ s[5] = Byte(r.num \div 256) /\ s[6] = Byte(r.num % 256)
    BY <1>2, <1>3
  <2>2. QED
    BY <2>1 DEF Byte
<1>5. _bMB_CheckRTUWriteACK(s)
  BY <1>2, WholeMatches DEF _bMB_CheckRTUWriteACK
<1>6. ASSUME _bMB_CheckRTUReadACK(s) PROVE FALSE
  <2>1. Len(b) = 3 + s[3].v
    <3>1. b \in Seq(Plain) /\ Traces(b, s) /\ Len(s) <= Len(b) + 3
      BY <1>2
    <3> HIDE DEF b
    <3>2. QED
      BY <1>6, <3>1, ReadCheckAcceptsWhole
  <2>2. r.reg \div 256 \in Nat
    BY <1>1
  <2>3. 6 = 3 + (r.reg \div 256)
    BY <1>2, <1>4, <2>1
  <2>4. QED
    BY <2>2, <2>3
<1>7. WordAt(s, 3) = r.reg /\ WordAt(s, 5) = r.num
  <2>1. /\ (r.reg \div 256) * 256 + (r.reg % 256) = r.reg
        /\ (r.num \div 256) * 256 + (r.num % 256) = r.num
    BY <1>1, WordAgain
  <2>2. WordAt(s, 3) = s[3].v * 256 + s[4].v /\ WordAt(s, 5) = s[5].v * 256 + s[6].v
    BY DEF WordAt
  <2>3. QED
    BY <1>4, <2>1, <2>2
<1>8. Result(s) = [type |-> 1, func |-> s[2].v, reg |-> WordAt(s, 3), reg_num |-> WordAt(s, 5)]
  BY <1>5, <1>6 DEF Result
<1>9. QED
  BY <1>4, <1>7, <1>8 DEF Meaning

LEMMA RefusalIs ==
  ASSUME NEW b \in Refusals
  PROVE  /\ b \in Seq(Plain) /\ b # <<>> /\ Len(b) = 3
         /\ \E code \in 1 .. 4 : b[3] = Byte(code)
<1>1. PICK f \in {3, 16}, code \in 1 .. 4 : b = <<Byte(1), Byte(f + 128), Byte(code)>>
  BY DEF Refusals
<1>2. \A v \in Nat : Byte(v) \in Plain
  BY DEF Byte, Plain
<1>3. Byte(1) \in Plain /\ Byte(f + 128) \in Plain /\ Byte(code) \in Plain
  BY <1>2
<1>4. QED
  BY <1>1, <1>3

\* Neither check accepts an exception, but for ZeroBehind.
LEMMA RefusalIsRefused ==
  ASSUME NEW b \in Refusals, NEW s, Traces(b, s), s[3] = b[3], Len(s) <= 6, ~ZeroBehind(s)
  PROVE  ~_bMB_CheckRTUReadACK(s) /\ ~_bMB_CheckRTUWriteACK(s)
<1>1. b \in Seq(Plain) /\ Len(b) = 3 /\ Len(s) <= Len(b) + 3
  BY RefusalIs
<1>2. PICK code \in 1 .. 4 : b[3] = Byte(code)
  BY RefusalIs
<1>3. s[3].v = code
  BY <1>2 DEF Byte
<1>4. ASSUME _bMB_CheckRTUReadACK(s) PROVE FALSE
  <2>1. Len(b) = 3 + s[3].v
    BY <1>1, <1>4, ReadCheckAcceptsWhole
  <2>2. 3 = 3 + code
    BY <1>1, <1>3, <2>1
  <2>3. QED
    BY <1>2, <2>2
<1>5. ASSUME _bMB_CheckRTUWriteACK(s) PROVE FALSE
  <2>1. Len(b) \in {5, 6}
    BY <1>1, <1>5, WriteCheckAcceptsWhole
  <2>2. QED
    BY <1>1, <2>1
<1>6. QED
  BY <1>4, <1>5

\* A frame that came whole is followed by a byte at most.
LEMMA HeldLength ==
  ASSUME NEW b \in Seq(Plain), NEW s \in {Sealed(b), Append(Sealed(b), Byte(0))}
  PROVE  Len(s) <= Len(b) + 3
<1> DEFINE sent == Sealed(b)
           S == Plain \cup {_bMBCRC16(b)[1], _bMBCRC16(b)[2]}
           x == Byte(0)
<1>1. sent \in Seq(S) /\ x \in S /\ Len(sent) = Len(b) + 2 /\ Len(b) \in Nat
  BY SealedIsTraced, SealedIs, PlainByte DEF Traces
<1>2. s \in {sent, Append(sent, x)}
  OBVIOUS
<1> HIDE DEF sent, S, x
<1>3. Len(Append(sent, x)) = Len(sent) + 1
  BY <1>1, AppendProperties
<1>4. QED
  BY <1>1, <1>2, <1>3

LEMMA HeldIsSound ==
  ASSUME NEW b \in Seq(Plain), NEW s, NEW m, MbHolds(b, s, m), Result(s) # NOTHING, ~ZeroBehind(s)
  PROVE  m # NOTHING /\ (~(m.kind = "write" /\ m.reg \div 256 = 3) => Result(s) = Meaning(m))
<1>1. Traces(b, s)
  BY DEF MbHolds
<1>2. _bMB_CheckRTUReadACK(s) \/ _bMB_CheckRTUWriteACK(s)
  BY DEF Result
<1>3. Whole(b, s) /\ ~Damaged(b, s)
  BY <1>1, <1>2, ReadCheckAcceptsWhole, WriteCheckAcceptsWhole
<1>4. Len(s) <= Len(b) + 3
  BY <1>3, HeldLength DEF MbHolds
<1>5. b \notin Refusals
  <2> SUFFICES ASSUME b \in Refusals PROVE FALSE
    OBVIOUS
  <2>1. Len(b) = 3 /\ Len(s) <= 6
    BY <1>4, RefusalIs
  <2>2. s[3] = Sealed(b)[3]
    BY <1>3, <2>1 DEF Whole
  <2>3. s[3] = b[3]
    <3>1. 3 \in 1 .. Len(b) /\ b \in Seq(Plain)
      BY <2>1
    <3>2. Sealed(b)[3] = b[3]
      BY <3>1, SealedKeepsBody
    <3>3. QED
      BY <2>2, <3>2
  <2>4. QED
    BY <1>1, <1>2, <2>1, <2>3, RefusalIsRefused
<1>6. \/ m \in MbRequests /\ m.kind = "read" /\ b = ReadBody(m)
      \/ m \in MbRequests /\ m.kind = "write" /\ b = WriteBody(m)
  BY <1>3, <1>5 DEF MbHolds
<1>7. CASE m \in MbRequests /\ m.kind = "read" /\ b = ReadBody(m)
  <2>1. Result(s) = Meaning(m)
    BY <1>1, <1>3, <1>7, ReadResult
  <2>2. QED
    BY <1>7, <2>1 DEF MbRequests
<1>8. CASE m \in MbRequests /\ m.kind = "write" /\ b = WriteBody(m)
  <2>1. Len(s) <= 9
    <3>1. Len(WriteBody(m)) = 6
      BY <1>8, WriteBodyIs
    <3>2. QED
      BY <1>4, <1>8, <3>1
  <2>2. m.reg \div 256 # 3 => Result(s) = Meaning(m)
    BY <1>1, <1>3, <1>8, <2>1, WriteResult
  <2>3. QED
    BY <1>8, <2>2 DEF MbRequests
<1>9. QED
  BY <1>6, <1>7, <1>8

\* What the slave sends is held, whatever it means.
LEMMA AnswersAreHeld ==
  ASSUME NEW b \in Seq(Plain), b # <<>>, NEW m,
         \/ m = NOTHING /\ b \in Refusals
         \/ m \in MbRequests /\ m.kind = "read" /\ b = ReadBody(m)
         \/ m \in MbRequests /\ m.kind = "write" /\ b = WriteBody(m)
  PROVE  MbHolds(b, Sealed(b), m)
BY SealedIsTraced DEF MbHolds

LEMMA SlaveKeepsInv ==
  ASSUME MbInv, SlaveAnswers
  PROVE  MbInv'
<1> DEFINE r == mb_request
<1>1. r \in MbRequests /\ mb_frame = <<>> /\ mb_data = NOTHING /\ mb_request' = NOTHING /\ mb_data' = mb_data
  BY DEF MbInv, SlaveAnswers
<1>2. \E b \in Seq(Plain) : b # <<>> /\ mb_frame' = Sealed(b) /\ MbHolds(b, mb_frame', mb_meant')
  <2>1. \/ mb_frame' = (IF r.kind = "read" THEN ReadAnswer(r) ELSE WriteAnswer(r)) /\ mb_meant' = r
        \/ /\ \E code \in 1 .. 4 : mb_frame' = Sealed(<<Byte(1), Byte(r.func + 128), Byte(code)>>)
           /\ mb_meant' = NOTHING
    BY DEF SlaveAnswers
  <2>2. r.kind \in {"read", "write"}
    BY <1>1 DEF MbRequests
  <2>3. CASE r.kind = "read" /\ mb_frame' = ReadAnswer(r) /\ mb_meant' = r
    <3> DEFINE b == ReadBody(r)
    <3>1. mb_frame' = Sealed(b)
      BY <2>3 DEF ReadAnswer, ReadBody
    <3>2. b \in Seq(Plain) /\ b # <<>>
      <4>1. b \in Seq(Plain) /\ Len(b) = 3 + 2 * r.num
        BY <1>1, ReadBodyIs
      <4>2. r.num \in 1 .. 127
        BY <1>1, RequestIs
      <4>3. 3 + 2 * r.num # 0
        BY <4>2
      <4> HIDE DEF b, r
      <4>4. QED
        BY <4>1, <4>3
    <3>3. MbHolds(b, Sealed(b), r)
      <4>1. r \in MbRequests /\ r.kind = "read" /\ b = ReadBody(r)
        BY <1>1, <2>3
      <4> HIDE DEF b, r
      <4>2. QED
        BY <3>2, <4>1, AnswersAreHeld
    <3>4. QED
      BY <2>3, <3>1, <3>2, <3>3
  <2>4. CASE r.kind = "write" /\ mb_frame' = WriteAnswer(r) /\ mb_meant' = r
    <3> DEFINE b == WriteBody(r)
    <3>1. mb_frame' = Sealed(b)
      BY <2>4 DEF WriteAnswer, WriteBody
    <3>2. b \in Seq(Plain) /\ b # <<>>
      <4>1. b \in Seq(Plain) /\ Len(b) = 6
        BY <1>1, WriteBodyIs
      <4> HIDE DEF b
      <4>2. QED
        BY <4>1
    <3>3. MbHolds(b, Sealed(b), r)
      <4>1. r \in MbRequests /\ r.kind = "write" /\ b = WriteBody(r)
        BY <1>1, <2>4
      <4> HIDE DEF b, r
      <4>2. QED
        BY <3>2, <4>1, AnswersAreHeld
    <3>4. QED
      BY <2>4, <3>1, <3>2, <3>3
  <2>5. CASE /\ \E code \in 1 .. 4 : mb_frame' = Sealed(<<Byte(1), Byte(r.func + 128), Byte(code)>>)
             /\ mb_meant' = NOTHING
    <3>1. PICK code \in 1 .. 4 : mb_frame' = Sealed(<<Byte(1), Byte(r.func + 128), Byte(code)>>)
      BY <2>5
    <3> DEFINE b == <<Byte(1), Byte(r.func + 128), Byte(code)>>
    <3>2. b \in Refusals
      BY <1>1, <3>1, RequestIs DEF Refusals
    <3>3. mb_frame' = Sealed(b)
      BY <3>1
    <3> HIDE DEF b
    <3>4. b \in Seq(Plain) /\ b # <<>>
      BY <3>2, RefusalIs
    <3>5. MbHolds(b, Sealed(b), NOTHING)
      BY <3>2, <3>4, AnswersAreHeld
    <3>6. QED
      BY <2>5, <3>3, <3>4, <3>5
  <2>6. QED
    BY <2>1, <2>2, <2>3, <2>4, <2>5
<1>3. QED
  BY <1>1, <1>2 DEF MbInv

LEMMA SealEnds ==
  ASSUME NEW b \in Seq(Plain), b # <<>>
  PROVE  /\ Len(b) \in Nat /\ Len(Sealed(b)) = Len(b) + 2
         /\ \A v \in Nat : Sealed(b)[Len(b) + 2] # Byte(v)
<1> DEFINE k == Len(b)
           sent == Sealed(b)
<1>1. k \in Nat /\ Len(sent) = k + 2 /\ sent[k + 2] = [v |-> 201, crc |-> b]
  <2>1. Len(b) \in Nat /\ Len(Sealed(b)) = Len(b) + 2
    BY SealedIs
  <2>2. Sealed(b)[Len(b) + 2] = [v |-> 201, crc |-> b]
    BY SealedIs, PlainCrc
  <2>3. QED
    BY <2>1, <2>2
<1> HIDE DEF k, sent
<1>2. ASSUME NEW v \in Nat PROVE sent[k + 2] # Byte(v)
  BY <1>1 DEF Byte
<1>3. QED
  BY <1>1, <1>2 DEF k, sent

LEMMA CutKeeps ==
  ASSUME NEW b \in Seq(Plain), NEW s, Traces(b, s), NEW n \in 1 .. Len(s) - 1,
         s = Sealed(b) \/ Damaged(b, s)
  PROVE  Traces(b, SubSeq(s, 1, n)) /\ Damaged(b, SubSeq(s, 1, n)) /\ SubSeq(s, 1, n) # <<>>
<1> DEFINE S == Plain \cup {_bMBCRC16(b)[1], _bMBCRC16(b)[2]}
           t == SubSeq(s, 1, n)
           k == Len(b)
           sent == Sealed(b)
<1>1. /\ s \in Seq(S) /\ Len(s) \in Nat
      /\ \A i \in 1 .. Len(s) : s[i].crc # <<>> => i \in {k + 1, k + 2} /\ s[i] = sent[i]
  BY DEF Traces
<1>2. k \in Nat /\ Len(sent) = k + 2
  BY SealedIs
<1> HIDE DEF S, k, sent
<1>3. t \in Seq(S) /\ Len(t) = n /\ n \in Nat /\ n < Len(s) /\ \A i \in 1 .. n : t[i] = s[i]
  BY <1>1
<1> HIDE DEF t
<1>4. Traces(b, t)
  <2>1. \A i \in 1 .. Len(t) : t[i].crc # <<>> => i \in {k + 1, k + 2} /\ t[i] = sent[i]
    BY <1>1, <1>3
  <2>2. QED
    BY <1>3, <2>1 DEF Traces, S, k, sent
<1>5. Damaged(b, t)
  <2>1. CASE n < k + 2
    BY <1>3, <2>1 DEF Damaged, k
  <2>2. CASE n >= k + 2
    <3>1. ~(s = sent) /\ ~(Len(s) < k + 2)
      BY <1>2, <1>3, <2>2
    <3>2. \/ s[k + 2] # sent[k + 2]
          \/ \E i \in 1 .. k + 2 : i <= Len(s) /\ s[i] = Byte(7) /\ sent[i] # Byte(7)
      BY <3>1 DEF Damaged, k, sent
    <3>3. \A i \in 1 .. k + 2 : t[i] = s[i] /\ i <= Len(t)
      BY <1>2, <1>3, <2>2
    <3>4. k + 2 \in 1 .. k + 2
      BY <1>2
    <3>5. \/ t[k + 2] # sent[k + 2]
          \/ \E i \in 1 .. k + 2 : i <= Len(t) /\ t[i] = Byte(7) /\ sent[i] # Byte(7)
      BY <3>2, <3>3, <3>4
    <3>6. QED
      BY <3>5 DEF Damaged, k, sent
  <2>3. QED
    BY <1>2, <1>3, <2>1, <2>2
<1>6. t # <<>>
  BY <1>3
<1>7. QED
  BY <1>4, <1>5, <1>6 DEF t

LEMMA ChangeKeeps ==
  ASSUME NEW b \in Seq(Plain), b # <<>>, NEW s, Traces(b, s), NEW n \in 1 .. Len(s),
         [s EXCEPT ![n] = Byte(7)] # s, s = Sealed(b) \/ Damaged(b, s)
  PROVE  /\ Traces(b, [s EXCEPT ![n] = Byte(7)]) /\ Damaged(b, [s EXCEPT ![n] = Byte(7)])
         /\ [s EXCEPT ![n] = Byte(7)] # <<>>
<1> DEFINE S == Plain \cup {_bMBCRC16(b)[1], _bMBCRC16(b)[2]}
           x == Byte(7)
           t == [s EXCEPT ![n] = x]
           k == Len(b)
           sent == Sealed(b)
<1>1. /\ s \in Seq(S) /\ Len(s) \in Nat
      /\ \A i \in 1 .. Len(s) : s[i].crc # <<>> => i \in {k + 1, k + 2} /\ s[i] = sent[i]
  BY DEF Traces
<1>2. k \in Nat /\ Len(sent) = k + 2 /\ sent[k + 2] # x
  BY SealEnds
<1>3. x \in S /\ x.crc = <<>>
  BY PlainByte
<1>4. t # s
  OBVIOUS
<1> HIDE DEF S, k, sent, x
<1>5. /\ t \in Seq(S) /\ Len(t) = Len(s) /\ t[n] = x
      /\ \A i \in 1 .. Len(s) : i # n => t[i] = s[i]
  BY <1>1, <1>3
<1>6. s[n] # x
  <2> SUFFICES ASSUME s[n] = x PROVE FALSE
    OBVIOUS
  <2> HIDE DEF t
  <2>1. \A i \in 1 .. Len(s) : t[i] = s[i]
    BY <1>5
  <2>2. t = s
    BY <1>1, <1>5, <2>1, SeqEqual
  <2>3. QED
    BY <1>4, <2>2
<1> HIDE DEF t
<1>7. Traces(b, t)
  <2>1. ASSUME NEW i \in 1 .. Len(t), t[i].crc # <<>>
        PROVE  i \in {k + 1, k + 2} /\ t[i] = sent[i]
    <3>1. i # n
      BY <1>3, <1>5, <2>1
    <3>2. QED
      BY <1>1, <1>5, <2>1, <3>1
  <2>2. QED
    BY <1>5, <2>1 DEF Traces, S, k, sent
<1>8. Damaged(b, t)
  <2>1. CASE s = sent
    <3>1. n \in 1 .. k + 2 /\ n <= Len(t) /\ t[n] = x /\ sent[n] # x
      BY <1>2, <1>5, <1>6, <2>1
    <3>2. QED
      BY <3>1 DEF Damaged, k, sent, x
  <2>2. CASE Len(s) < k + 2
    BY <1>5, <2>2 DEF Damaged, k
  <2>3. CASE ~(Len(s) < k + 2) /\ s[k + 2] # sent[k + 2]
    <3>1. k + 2 \in 1 .. Len(s)
      BY <1>1, <1>2, <2>3
    <3>2. t[k + 2] # sent[k + 2]
      BY <1>2, <1>5, <2>3, <3>1
    <3>3. QED
      BY <3>2 DEF Damaged, k, sent
  <2>4. CASE \E i \in 1 .. k + 2 : i <= Len(s) /\ s[i] = x /\ sent[i] # x
    <3>1. PICK i \in 1 .. k + 2 : i <= Len(s) /\ s[i] = x /\ sent[i] # x
      BY <2>4
    <3>2. i \in 1 .. Len(s)
      BY <1>1, <1>2, <3>1
    <3>3. i <= Len(t) /\ t[i] = x
      BY <1>5, <3>1, <3>2
    <3>4. QED
      BY <3>1, <3>3 DEF Damaged, k, sent, x
  <2>5. s = sent \/ Damaged(b, s)
    BY DEF sent
  <2>6. QED
    BY <2>1, <2>2, <2>3, <2>4, <2>5 DEF Damaged, k, sent, x
<1>9. t # <<>>
  BY <1>5
<1>10. QED
  BY <1>7, <1>8, <1>9 DEF t, x

LEMMA AppendKeeps ==
  ASSUME NEW b \in Seq(Plain), b # <<>>, NEW s, Traces(b, s)
  PROVE  /\ Traces(b, Append(s, Byte(0))) /\ Append(s, Byte(0)) # <<>>
         /\ Damaged(b, s) => Damaged(b, Append(s, Byte(0)))
<1> DEFINE S == Plain \cup {_bMBCRC16(b)[1], _bMBCRC16(b)[2]}
           x == Byte(0)
           t == Append(s, x)
           k == Len(b)
           sent == Sealed(b)
<1>1. /\ s \in Seq(S) /\ Len(s) \in Nat
      /\ \A i \in 1 .. Len(s) : s[i].crc # <<>> => i \in {k + 1, k + 2} /\ s[i] = sent[i]
  BY DEF Traces
<1>2. k \in Nat /\ sent[k + 2] # x
  BY SealEnds
<1>3. x \in S /\ x.crc = <<>>
  BY PlainByte
<1> HIDE DEF S, k, sent, x
<1>4. /\ t \in Seq(S) /\ Len(t) = Len(s) + 1 /\ t[Len(s) + 1] = x
      /\ \A i \in 1 .. Len(s) : t[i] = s[i]
  BY <1>1, <1>3, AppendProperties
<1> HIDE DEF t
<1>5. Traces(b, t)
  <2>1. ASSUME NEW i \in 1 .. Len(t), t[i].crc # <<>>
        PROVE  i \in {k + 1, k + 2} /\ t[i] = sent[i]
    <3>1. i # Len(s) + 1
      BY <1>3, <1>4, <2>1
    <3>2. i \in 1 .. Len(s)
      BY <1>1, <1>4, <3>1
    <3>3. QED
      BY <1>1, <1>4, <2>1, <3>2
  <2>2. QED
    BY <1>4, <2>1 DEF Traces, S, k, sent
<1>6. ASSUME Damaged(b, s) PROVE Damaged(b, t)
  <2>1. CASE Len(s) < k + 2
    <3>1. CASE Len(s) < k + 1
      BY <1>1, <1>2, <1>4, <3>1 DEF Damaged, k
    <3>2. CASE Len(s) = k + 1
      <4>1. Len(s) + 1 = k + 2
        BY <1>2, <3>2
      <4>2. t[k + 2] # sent[k + 2]
        BY <1>2, <1>4, <4>1
      <4>3. QED
        BY <4>2 DEF Damaged, k, sent
    <3>3. QED
      BY <1>1, <1>2, <2>1, <3>1, <3>2
  <2>2. CASE ~(Len(s) < k + 2) /\ s[k + 2] # sent[k + 2]
    <3>1. k + 2 \in 1 .. Len(s)
      BY <1>1, <1>2, <2>2
    <3>2. t[k + 2] # sent[k + 2]
      BY <1>4, <2>2, <3>1
    <3>3. QED
      BY <3>2 DEF Damaged, k, sent
  <2>3. CASE \E i \in 1 .. k + 2 : i <= Len(s) /\ s[i] = Byte(7) /\ sent[i] # Byte(7)
    <3>1. PICK i \in 1 .. k + 2 : i <= Len(s) /\ s[i] = Byte(7) /\ sent[i] # Byte(7)
      BY <2>3
    <3>2. i \in 1 .. Len(s)
      BY <1>1, <1>2, <3>1
    <3>3. i <= Len(t) /\ t[i] = Byte(7)
      BY <1>1, <1>4, <3>1, <3>2
    <3>4. QED
      BY <3>1, <3>3 DEF Damaged, k, sent
  <2>4. QED
    BY <1>6, <2>1, <2>2, <2>3 DEF Damaged, k, sent
<1>7. t # <<>>
  BY <1>1, <1>4
<1>8. QED
  BY <1>5, <1>6, <1>7 DEF t, x

LEMMA FaultKeepsInv ==
  ASSUME MbInv, LineFault
  PROVE  MbInv'
<1> DEFINE s == mb_frame
           m == mb_meant
<1>1. /\ s # <<>> /\ Last(s) # Byte(0) /\ mb_data = NOTHING
      /\ mb_request' = mb_request /\ mb_data' = mb_data
      /\ mb_request # NOTHING => mb_request \in MbRequests
  BY DEF MbInv, LineFault
<1>2. PICK b \in Seq(Plain) : MbHolds(b, s, m)
  BY <1>1 DEF MbInv
<1>3. b # <<>> /\ Traces(b, s)
  BY <1>2 DEF MbHolds
<1>4. s # Append(Sealed(b), Byte(0))
  <2> SUFFICES ASSUME s = Append(Sealed(b), Byte(0)) PROVE FALSE
    OBVIOUS
  <2> DEFINE sent == Sealed(b)
             S == Plain \cup {_bMBCRC16(b)[1], _bMBCRC16(b)[2]}
             x == Byte(0)
  <2>1. sent \in Seq(S) /\ x \in S
    BY SealedIsTraced, PlainByte DEF Traces
  <2> HIDE DEF sent, S, x
  <2>2. Len(Append(sent, x)) = Len(sent) + 1 /\ Append(sent, x)[Len(sent) + 1] = x
    BY <2>1, AppendProperties
  <2>3. Last(Append(sent, x)) = x
    BY <2>2 DEF Last
  <2>4. QED
    BY <1>1, <2>3 DEF sent, x
<1>5. s = Sealed(b) \/ Damaged(b, s)
  BY <1>2, <1>4 DEF MbHolds
<1>6. CASE mb_meant' = NOTHING /\ \E n \in 1 .. Len(mb_frame) - 1 : mb_frame' = SubSeq(mb_frame, 1, n)
  <2>1. PICK n \in 1 .. Len(s) - 1 : mb_frame' = SubSeq(s, 1, n)
    BY <1>6
  <2>2. Traces(b, SubSeq(s, 1, n)) /\ Damaged(b, SubSeq(s, 1, n)) /\ SubSeq(s, 1, n) # <<>>
    BY <1>3, <1>5, CutKeeps
  <2>3. MbHolds(b, mb_frame', mb_meant') /\ mb_frame' # <<>>
    BY <1>3, <1>6, <2>1, <2>2 DEF MbHolds
  <2>4. QED
    BY <1>1, <2>3 DEF MbInv
<1>7. CASE /\ mb_meant' = NOTHING /\ mb_frame' # mb_frame
           /\ \E n \in 1 .. Len(mb_frame) : mb_frame' = [mb_frame EXCEPT ![n] = Byte(7)]
  <2>1. PICK n \in 1 .. Len(s) : mb_frame' = [s EXCEPT ![n] = Byte(7)]
    BY <1>7
  <2>2. [s EXCEPT ![n] = Byte(7)] # s
    BY <1>7, <2>1
  <2>3. /\ Traces(b, [s EXCEPT ![n] = Byte(7)]) /\ Damaged(b, [s EXCEPT ![n] = Byte(7)])
        /\ [s EXCEPT ![n] = Byte(7)] # <<>>
    BY <1>3, <1>5, <2>2, ChangeKeeps
  <2>4. MbHolds(b, mb_frame', mb_meant') /\ mb_frame' # <<>>
    BY <1>3, <1>7, <2>1, <2>3 DEF MbHolds
  <2>5. QED
    BY <1>1, <2>4 DEF MbInv
<1>8. CASE mb_frame' = Append(mb_frame, Byte(0)) /\ mb_meant' = mb_meant
  <2>1. /\ Traces(b, Append(s, Byte(0))) /\ Append(s, Byte(0)) # <<>>
        /\ Damaged(b, s) => Damaged(b, Append(s, Byte(0)))
    BY <1>3, AppendKeeps
  <2>2. MbHolds(b, mb_frame', mb_meant') /\ mb_frame' # <<>>
    BY <1>2, <1>3, <1>4, <1>8, <2>1 DEF MbHolds
  <2>3. QED
    BY <1>1, <2>2 DEF MbInv
<1>9. QED
  BY <1>6, <1>7, <1>8 DEF LineFault

LEMMA MbNextKeepsInv == MbInv /\ [MbNext]_mb_vars => MbInv'
<1> SUFFICES ASSUME MbInv, [MbNext]_mb_vars PROVE MbInv'
  OBVIOUS
<1>1. CASE \E reg \in MbRegs, num \in MbNums :
             /\ mb_request = NOTHING /\ mb_frame = <<>>
             /\ bMB_ReadRegs(reg, num) \/ bMB_WriteRegs(reg, num)
  <2>1. PICK reg \in MbRegs, num \in MbNums :
          /\ mb_request = NOTHING /\ mb_frame = <<>>
          /\ bMB_ReadRegs(reg, num) \/ bMB_WriteRegs(reg, num)
    BY <1>1
  <2>2. /\ UNCHANGED <<mb_frame, mb_meant, mb_data>>
        /\ mb_request' # NOTHING => mb_request' \in MbRequests
    BY <2>1 DEF bMB_ReadRegs, bMB_WriteRegs, MbRequests
  <2>3. mb_frame = <<>> /\ mb_data = NOTHING
    BY <2>1 DEF MbInv
  <2>4. QED
    BY <2>2, <2>3 DEF MbInv
<1>2. CASE SlaveAnswers
  BY <1>2, SlaveKeepsInv
<1>3. CASE LineFault
  BY <1>3, FaultKeepsInv
<1>4. CASE bMB_FeedReceivedData
  BY <1>4 DEF bMB_FeedReceivedData, MbInv
<1>5. CASE Forget
  BY <1>5 DEF Forget, MbInv
<1>6. CASE UNCHANGED mb_vars
  BY <1>6 DEF mb_vars, MbInv
<1>7. QED
  BY <1>1, <1>2, <1>3, <1>4, <1>5, <1>6 DEF MbNext

\* What the callback gets is the result of the read or the write that the slave
\* answered, from a frame that arrived whole, but for what the property leaves out:
\* the confirmations of writes and the exceptions that look like reads
\* (bMB_FeedReceivedData).
THEOREM AnswersTakenForWhatTheyAre == MbSpec => []MbTakenForWhatItIs
<1>1. MbInit => MbInv
  BY DEF MbInit, MbInv
<1>2. MbInv => MbTakenForWhatItIs
  <2> SUFFICES ASSUME MbInv, mb_data # NOTHING, ~ZeroBehind(mb_frame)
               PROVE  /\ mb_meant # NOTHING
                      /\ ~(mb_meant.kind = "write" /\ mb_meant.reg \div 256 = 3) =>
                           mb_data = Meaning(mb_meant)
    BY DEF MbTakenForWhatItIs
  <2>1. mb_frame # <<>> /\ mb_data = Result(mb_frame)
    BY DEF MbInv
  <2>2. PICK b \in Seq(Plain) : MbHolds(b, mb_frame, mb_meant)
    BY <2>1 DEF MbInv
  <2>3. QED
    BY <2>1, <2>2, HeldIsSound
<1>3. QED
  BY <1>1, <1>2, MbNextKeepsInv, PTL DEF MbSpec

================================================================================
