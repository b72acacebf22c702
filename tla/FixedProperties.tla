--------------------------- MODULE FixedProperties ---------------------------
(***************************************************************************)
(* What the fixed-layout view promises: the right items side by side, and, *)
(* whatever order the iframes load in, a layout and a report of the spread *)
(* shown once they have.                                                   *)
(***************************************************************************)
EXTENDS FixedView

(* The type invariant.                                                      *)
TypeOK ==
    /\ spread \in Spreads
    /\ isSyntheticSpread \in BOOLEAN
    /\ pageViews \in [Sides -> PageView]
    /\ redraws \in Seq(SUBSET Sides)
    /\ meta_size \in MetaSizes
    /\ contentMetaSize \in MetaSizes \cup {Unknown}
    /\ reported \in SUBSET Items
    /\ cutShort \in BOOLEAN /\ cameLate \in BOOLEAN
    /\ calls \in 0 .. MaxCalls

Busy(pages) == {s \in Sides : pages[s].requested \/ pages[s].loading}
AtRest      == Busy(pageViews) = {}

(* Once the iframes are at rest the host has been told of exactly the items *)
(* now in the spread (current_pages_info.js: "Used to report pagination     *)
(* state back to the host application"), unless a load event was cut short. *)
RestIsReported == AtRest /\ ~cutShort => reported = validItems(spread)

(* Once the iframes are at rest every page displayed has been given the     *)
(* size last read, and the scale that goes with it, by onPagesLoaded: no    *)
(* page is left as an earlier, partial layout made it.  Not so after a      *)
(* superseded document fired its load event, or one was cut short.          *)
RestIsScaled ==
    AtRest /\ ~cutShort /\ ~cameLate =>
        \A s \in Displayed(pageViews) : /\ pageViews[s].size = meta_size
                                        /\ pageViews[s].scale = meta_size

(* Although all pages share one size, a spread whose pages are of one size  *)
(* gets that size, however large the other pages of the book are and        *)
(* whatever was abandoned while it loaded.                                  *)
RestKeepsSize ==
    AtRest /\ ~cutShort /\ ~cameLate =>
        \A size \in MetaSizes \ {0} :
            (\A s \in Displayed(pageViews) : SizeOf[spread[s]] = size)
                => \A s \in Displayed(pageViews) : pageViews[s].size = size

(* Whatever the reader opens is on display, beside its neighbour or not:    *)
(* setItem of the neighbour never takes its place.                          *)
OpenedIsShown ==
    [][\A item \in Items : readerOpenPage(item) => item \in validItems(spread')]_vars

(* Turning a page and back (openPageNext, openPagePrev) returns to the same *)
(* spread, in either direction: no page is skipped or shown twice.          *)
TurnsComeBack ==
    LET synthetic == isSyntheticSpread IN
    validItems(spread) # {} =>
        /\ nextItem(lastOf(spread)) # NoItem =>
              openPrev(openNext(spread, synthetic), synthetic) = spread
        /\ prevItem(firstOf(spread)) # NoItem =>
              openNext(openPrev(spread, synthetic), synthetic) = spread

(* A change of settings (updateSettings) keeps the reader's place: the      *)
(* first item shown is shown still.                                         *)
SettingsKeepPlace ==
    [][UpdateSettings /\ validItems(spread) # {} => firstOf(spread) \in validItems(spread')]_vars

(* A load event is cut short only by a redraw that was abandoned: the one   *)
(* that shows the present spread is still waiting.                          *)
OnlyAbandonedThrow ==
    [][~cutShort /\ cutShort' => redraws'[Len(redraws')] # {}]_vars

(* Left alone, the view comes to report the spread it shows, or has had a   *)
(* load event cut short.                                                    *)
EventuallyReported == <>[](cutShort \/ (AtRest /\ reported = validItems(spread)))

(* The claim of current_pages_info.js:18 without the exception: at rest the *)
(* host has been told the items shown.  It is false: see the README.        *)
AlwaysReported == AtRest => reported = validItems(spread)

(* fixed_view.js:270 on the size of a pair of pages: "normalize by height", *)
(* which supposes that each has a size of its own.  At rest a page whose    *)
(* document gives a size has that size.  It is false: see the README.       *)
PagesKeepTheirSize ==
    AtRest /\ ~cutShort /\ ~cameLate =>
        \A s \in Displayed(pageViews) : SizeOf[spread[s]] # 0
            => pageViews[s].size = SizeOf[spread[s]]
=============================================================================
