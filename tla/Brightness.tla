----------------------------- MODULE Brightness -----------------------------
(***************************************************************************)
(* Percentages and brightnesses as upnp.rs converts them.  The code        *)
(* computes in f32 and rounds half away from zero; no quotient here comes  *)
(* closer to a half without being one than f32 can tell, so the integer    *)
(* arithmetic below gives the same results.                                *)
(***************************************************************************)
EXTENDS Naturals

Rounded(n, d) == (2 * n + d) \div (2 * d)

Capped(n, cap) == IF n > cap THEN cap ELSE n

\* A light that is on has a brightness of at least 1.
percent_to_hue_brightness(percent) ==
  LET b == Rounded(Capped(percent, 100) * 254, 100) IN IF b < 1 THEN 1 ELSE b

\* Mutant: the conversion truncates.
TruncatedPercent(brightness) == (Capped(brightness, 254) * 100) \div 254

hue_brightness_to_percent(brightness) == Rounded(Capped(brightness, 254) * 100, 254)

=============================================================================
