----------------------------- MODULE MCModule -----------------------------
(***************************************************************************)
(* The device table of devspec.h and devinfo.c, and small instances of     *)
(* OrngModule on it.                                                       *)
(***************************************************************************)
EXTENDS OrngModule

CONSTANTS b1, b2, b3

Row(id, cname, name, hasAbs) == [id |-> id, cname |-> cname, name |-> name, abs |-> hasAbs]

NoId    == Id(0, 0, 0, 0)
Handset == Id(0, 1, 1, 1)

DevSpec == <<
  Row(NoId, "otoro-atmel-touchscreen", "atmel-touchscreen", TRUE),
  Row(NoId, "otoro-roamer2_keypad", "roamer2_keypad", FALSE),
  Row(NoId, "otoro-light", "light", TRUE),
  Row(NoId, "otoro-proximity", "proximity", TRUE),
  Row(NoId, "otoro-compass", "compass", TRUE),
  Row(Handset, "otoro-7k_handset", "7k_handset", FALSE),
  Row(Id(25, 1, 1, 256), "pandaboard-gpio-keys", "gpio-keys", FALSE),
  Row(NoId, "pandaboard-panda_headset_jack", "Panda Headset Jack", FALSE),
  Row(NoId, "unagi-atmel-touchscreen", "atmel-touchscreen", TRUE),
  Row(NoId, "unagi-nice_keypad", "nice_keypad", FALSE),
  Row(NoId, "unagi-light", "light", TRUE),
  Row(NoId, "unagi-proximity", "proximity", TRUE),
  Row(NoId, "unagi-compass", "compass", TRUE),
  Row(Id(24, 0, 0, 0), "unagi-kxtik_accel", "kxtik_accel", TRUE),
  Row(Handset, "unagi-7k_handset", "7k_handset", FALSE),
  Row(NoId, "generic-720p_touchscreen", "720p touchscreen", TRUE) >>

Ask(devices, names, id) == [devices |-> devices, names |-> names, id |-> id]

\* Lists by either name, precedence, the same device twice, an unknown one after
\* known ones, ids that are shared, unique and unknown.
Loads ==
  {Ask(<<"otoro-light", "unagi-7k_handset">>, << >>, NoId),
   Ask(<<"unagi-light", "unagi-light">>, <<"gpio-keys">>, Handset),
   Ask(<<"otoro-7k_handset", "otoro-light", "otoro-nothing">>, << >>, NoId),
   Ask(<< >>, <<"light", "7k_handset", "light">>, NoId),
   Ask(<< >>, <<"otoro-light">>, NoId),
   Ask(<< >>, << >>, Handset),
   Ask(<< >>, << >>, Id(25, 1, 1, 256)),
   Ask(<< >>, << >>, Id(25, 1, 1, 255))}

===========================================================================
