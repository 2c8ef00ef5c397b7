-------------------------------- MODULE Tm1668 ---------------------------------
(***************************************************************************)
(* The TM1668 display driver (components/device/tm1668.c): a shadow of the *)
(* icons in chip->reg, the display memory of the chip behind a serial      *)
(* line, and the calls that print a speed, a riding mode and a battery     *)
(* level.  The value at an address is the set of its icons and, at the     *)
(* addresses of the two white digits, a digit; an icon there is bit 0x80.  *)
(***************************************************************************)
EXTENDS Integers, Sequences

CONSTANTS
  Speeds,       \* what the application prints
  Percents,
  AppIcons,     \* icons it prints itself
  Brightnesses,
  BLANK         \* no digit

VARIABLES
  tm,       \* chip->reg, chip->brightness, and the memory of the chip
  tm_last   \* history: icons known to be on or off since tm1668_init

tm_vars == <<tm, tm_last>>

Addresses == {0, 2, 4, 6, 8, 10, 12}

Icons == 40 .. 67

ASSUME TmInputs ==
  Speeds \subseteq Nat /\ Percents \subseteq Nat /\ Brightnesses \subseteq Int /\ AppIcons \subseteq Icons

\* characters: where an icon is.
Address(icon) ==
  CASE icon \in 40 .. 47 -> 8
    [] icon \in 48 .. 55 -> 10
    [] icon \in 56 .. 63 -> 12
    [] icon = 64 -> 2  [] icon = 65 -> 4  [] icon = 66 -> 6  [] icon = 67 -> 0

\* Characters 0 to 9 are the tens, 10 to 19 the units.
DigitAddress(character) == IF character < 10 THEN 0 ELSE 2

\* tm1668_send of an address and a value, bit by bit through tm1668_writeb.
tm1668_send(c, address, icons, digit) ==
  [c EXCEPT !.ram[address] = [icons |-> icons, digit |-> digit]]

\* The shadow has no digits: at a digit's address this blanks the digit.
tm1668_print_icon(c, icon, display) ==
  LET a   == Address(icon)
      reg == IF display THEN c.reg[a] \cup {icon} ELSE c.reg[a] \ {icon}
  IN  tm1668_send([c EXCEPT !.reg[a] = reg], a, reg, BLANK)

tm1668_print_num(c, character) ==
  LET a == DigitAddress(character) IN tm1668_send(c, a, c.reg[a], character % 10)

\* A tm1668_print_icon for each icon of on and of off, in any order: what the
\* last of those at an address sends is its part of the shadow.
PrintIcons(c, on, off) ==
  LET at(icons, a) == {i \in icons : Address(i) = a}
      reg     == [a \in Addresses |-> (c.reg[a] \cup at(on, a)) \ at(off, a)]
      changed == {Address(i) : i \in on \cup off}
  IN  [c EXCEPT !.reg = reg,
                !.ram = [a \in Addresses |->
                  IF a \in changed THEN [icons |-> reg[a], digit |-> BLANK] ELSE c.ram[a]]]

\* speed_h is a uint8_t.
Tens(speed) == (speed \div 10) % 256

PrintSpeed(c, speed) ==
  LET cut == Tens(speed) > 9
      h   == IF cut THEN 9 ELSE Tens(speed)
      l   == IF cut THEN 9 ELSE speed % 10
  IN  tm1668_print_num(tm1668_print_num(c, h), l + 10)

\* WORKMODE_WALK_ASSIST, _NORMAL and _SPORT; nothing changes in _ECO.
ModeIcons == 41 .. 43

PrintMode(c, mode) ==
  IF mode \in ModeIcons THEN PrintIcons(c, {mode}, ModeIcons \ {mode}) ELSE c

\* Mutant: a switch without the icons to switch off at four bars.
BatterySwitchesFour(btc) ==
  CASE btc = 5 -> <<{55, 53, 59, 58, 57}, {54, 52}>>
    [] btc = 4 -> <<{55, 53, 59, 58}, {54, 52}>>
    [] btc = 3 -> <<{55, 53, 59}, {54, 52, 58, 57}>>
    [] btc = 2 -> <<{54, 52}, {57, 58, 59, 53, 55}>>
    [] btc = 1 -> <<{54}, {57, 58, 59, 53, 55, 52}>>
    [] btc = 0 -> <<{}, {54, 52, 57, 58, 59, 53, 55}>>

\* tm1668_print_battery: the icons to switch on and off.
BatterySwitches(btc) ==
  CASE btc = 5 -> <<{55, 53, 59, 58, 57}, {54, 52}>>
    [] btc = 4 -> <<{55, 53, 59, 58}, {54, 52, 57}>>
    [] btc = 3 -> <<{55, 53, 59}, {54, 52, 58, 57}>>
    [] btc = 2 -> <<{54, 52}, {57, 58, 59, 53, 55}>>
    [] btc = 1 -> <<{54}, {57, 58, 59, 53, 55, 52}>>
    [] btc = 0 -> <<{}, {54, 52, 57, 58, 59, 53, 55}>>

\* btc is a uint8_t.
PrintBattery(c, percent) ==
  LET btc == (percent \div 15) % 256
      s   == BatterySwitches(IF btc > 5 THEN 5 ELSE btc)
  IN  PrintIcons(c, s[1], s[2])

--------------------------------------------------------------------------------
(* Calls                                                                   *)

\* The chip powers up with any content; only that of 12 is sure to be cleared,
\* because tm1668_clear starts its 14 bytes there and the chip has to wrap.
Cleared(ram, wraps) ==
  [a \in Addresses |-> IF wraps \/ a = 12 THEN [icons |-> {}, digit |-> BLANK] ELSE ram[a]]

TmInit ==
  /\ \E wraps \in BOOLEAN :
       tm = [reg |-> [a \in Addresses |-> {}], brightness |-> 1,
             ram |-> Cleared([a \in Addresses |-> [icons |-> {i \in Icons : Address(i) = a},
                                                    digit |-> BLANK]], wraps)]
  /\ tm_last = [on |-> {}, known |-> {}]

\* Later calls find chip->reg as it was, but for reg[0].
tm1668_init ==
  /\ \E wraps \in BOOLEAN :
       tm' = [tm EXCEPT !.ram = Cleared(@, wraps), !.brightness = 1, !.reg[0] = {}]
  /\ tm_last' = [on |-> {}, known |-> {}]

\* A call that leaves the icons of on lit and those of off dark.
Printed(on, off) ==
  [tm_last EXCEPT !.on = (@ \cup on) \ off, !.known = @ \cup on \cup off]

PrintAppIcon ==
  \E icon \in AppIcons, display \in BOOLEAN :
    /\ tm' = tm1668_print_icon(tm, icon, display)
    /\ tm_last' = IF display THEN Printed({icon}, {}) ELSE Printed({}, {icon})

tm1668_print_speed ==
  \E speed \in Speeds :
    /\ tm' = PrintSpeed(tm, speed)
    /\ UNCHANGED tm_last

tm1668_print_mode ==
  \E mode \in ModeIcons \cup {0} :
    /\ tm' = PrintMode(tm, mode)
    /\ tm_last' = IF mode = 0 THEN tm_last ELSE Printed({mode}, ModeIcons \ {mode})

\* What a level looks like: below three bars the first two are red.
White == <<55, 53, 59, 58, 57>>
Red == <<54, 52>>
BatteryIcons == {55, 53, 59, 58, 57, 54, 52}
BatteryLooks(bars) ==
  IF bars >= 3 THEN {White[k] : k \in 1 .. bars} ELSE {Red[k] : k \in 1 .. bars}

tm1668_print_battery ==
  \E percent \in Percents :
    /\ tm' = PrintBattery(tm, percent)
    /\ LET looks == BatteryLooks(IF percent >= 75 THEN 5 ELSE percent \div 15)
       IN  tm_last' = Printed(looks, BatteryIcons \ looks)

\* Clamped to 0 .. 8; tm1668_close sets 0.
tm1668_set_brightness ==
  \E b \in Brightnesses \cup {0} :
    /\ tm' = [tm EXCEPT !.brightness = IF b < 0 THEN 0 ELSE IF b > 8 THEN 8 ELSE b]
    /\ UNCHANGED tm_last

TmNext ==
  \/ tm1668_init
  \/ PrintAppIcon
  \/ tm1668_print_speed
  \/ tm1668_print_mode
  \/ tm1668_print_battery
  \/ tm1668_set_brightness

TmSpec == TmInit /\ [][TmNext]_tm_vars

--------------------------------------------------------------------------------
(* Properties                                                              *)

Lit == UNION {tm.ram[a].icons : a \in Addresses}

\* Whatever was shown before, and whatever shares an address with it: each icon
\* printed since tm1668_init is as the last call left it.  Three icons at one
\* address, or a digit and an icon, do not disturb each other's icons.  It says
\* nothing of icons that were not printed since then, which a call for another icon
\* at their address may light again: tm1668_init forgets reg[0] only.  And it needs
\* percentages: from 3840 on btc has wrapped, and bars are missing.
IconsAsLastPrinted == Lit \cap tm_last.known = tm_last.on
================================================================================
