--------------------------- MODULE ProgramsProofs ---------------------------
(* What MCPrograms checks on small instances, for constants of any value.    *)
EXTENDS MCPrograms, NaturalsInduction, WellFoundedInduction, SequenceTheorems, FiniteSetTheorems, TLAPS

-----------------------------------------------------------------------------
(* TheScreen: what is not marked dirty is shown.                             *)

\* The displays gfx.c knows.  Which modes a kernel grants, and which modes and geometries a guest
\* sets, is left open.
ScreenSizes == \A machine \in Machines : machine.kind \in {"window", "vesa", "vga", "none"}

Colours == Values \cup {0, 1}
Modes == {"03"} \cup UNION {machine.modes : machine \in Machines}
Shapes == {"small", "wide", "tall"} \cup UNION {machine.geometries : machine \in Machines}
GuestState == [mode : Modes, chain : BOOLEAN, wide : BOOLEAN, geo : Shapes, pal : Colours,
               planes : Colours, linear : Colours, text : Colours, unseen : BOOLEAN]
Pictures == [kind : {"none", "text", "x", "planar", "linear", "blank"}, data : Colours, geo : Shapes,
             wide : BOOLEAN, pal : Colours]
HostState == [kind : {"window", "vesa", "vga", "none"}, machine : Machines, chosen : BOOLEAN,
              mode : {"03", "12", "13"}, dac : Colours, shadow : Colours, loaded : BOOLEAN,
              identity : BOOLEAN, vram : Pictures, seen : Pictures]

\* The adapter and the display hold what they should.
ScreenTypes ==
    /\ guest \in GuestState /\ screenHost \in HostState
    /\ dirty \in BOOLEAN /\ shown \in BOOLEAN /\ screenOn \in BOOLEAN

\* While the guest runs: the DAC holds the palette gfx.c takes it to hold, and nothing is
\* loaded before a backend is chosen; and a VGA in a graphics mode in which nothing was
\* shown yet is empty.
DisplayKnown ==
    screenOn =>
        /\ screenHost.loaded => screenHost.chosen /\ screenHost.dac = screenHost.shadow
        /\ screenHost.kind = "vga" /\ ~shown /\ screenHost.mode # "03" => screenHost.vram = Screen!NoPicture

ScreenInv == ScreenTypes /\ DisplayKnown /\ Screen!ScreenCurrent

\* A picture is one of the guest's, and no empty one.
LEMMA PictureIs == ASSUME ScreenTypes PROVE Screen!Picture(guest) \in Pictures
<1>1. /\ guest.text \in Colours /\ guest.planes \in Colours /\ guest.linear \in Colours /\ guest.pal \in Colours
      /\ guest.geo \in Shapes /\ guest.wide \in BOOLEAN
  BY DEF ScreenTypes, GuestState
<1>2. 0 \in Colours /\ "small" \in Shapes
  BY DEF Colours, Shapes
<1>3. ASSUME NEW k \in {"text", "x", "planar", "linear", "blank"}, NEW d \in Colours, NEW p \in Colours,
             NEW z \in Shapes, NEW w \in BOOLEAN
      PROVE  /\ [kind |-> k, data |-> d, geo |-> z, wide |-> w, pal |-> p] \in Pictures
             /\ [kind |-> k, geo |-> z, wide |-> w, pal |-> p, data |-> d] \in Pictures
  BY <1>3 DEF Pictures
<1>4. CASE Screen!Graphics(guest)
  <2> DEFINE k == Screen!Layout(guest)
             d == IF Screen!Mapped(guest) THEN guest.planes ELSE IF guest.mode = "13" THEN guest.linear ELSE 0
  <2>1. k \in {"text", "x", "planar", "linear", "blank"}
    BY DEF Screen!Layout
  <2>2. d \in Colours
    BY <1>1, <1>2
  <2>3. Screen!Picture(guest) = [kind |-> k, geo |-> guest.geo, wide |-> guest.wide, pal |-> guest.pal, data |-> d]
    BY <1>4 DEF Screen!Picture
  <2> HIDE DEF k, d
  <2> QED
    BY <1>1, <1>3, <2>1, <2>2, <2>3
<1>5. CASE ~Screen!Graphics(guest)
  BY <1>1, <1>2, <1>3, <1>5 DEF Screen!Picture
<1> QED
  BY <1>4, <1>5

LEMMA NoPictureIs == Screen!NoPicture \in Pictures
  BY DEF Screen!NoPicture, Pictures, Colours, Shapes

\* set_video_mode(), field by field.
LEMMA VideoModeIs ==
  ASSUME NEW h \in HostState, NEW w \in {"03", "12", "13"}
  PROVE  /\ Screen!SetVideoMode(h, w) \in HostState
         /\ Screen!SetVideoMode(h, w).kind = h.kind /\ Screen!SetVideoMode(h, w).chosen = h.chosen
         /\ Screen!SetVideoMode(h, w).machine = h.machine
         /\ Screen!SetVideoMode(h, w).mode = w /\ Screen!SetVideoMode(h, w).loaded = h.loaded
         /\ Screen!SetVideoMode(h, w).vram = Screen!NoPicture
  BY NoPictureIs DEF Screen!SetVideoMode, HostState, Colours

LEMMA ScreenInit == ASSUME ScreenSizes, Screen!Init PROVE ScreenInv
<1>1. ScreenTypes
  <2>1. guest \in GuestState
    BY DEF Screen!Init, GuestState, Colours, Modes, Shapes, Screen!NulText
  <2>2. screenHost \in HostState
    BY NoPictureIs DEF Screen!Init, HostState, Colours, ScreenSizes
  <2> QED
    BY <2>1, <2>2 DEF Screen!Init, ScreenTypes
<1>2. DisplayKnown
  BY DEF Screen!Init, DisplayKnown
<1>3. Screen!ScreenCurrent
  BY DEF Screen!Init, Screen!ScreenCurrent, Screen!Settled
<1> QED
  BY <1>1, <1>2, <1>3 DEF ScreenInv

\* A change of the guest's adapter or memory that is noticed, the display left alone.
LEMMA NoticedKeeps ==
  ASSUME ScreenInv, screenOn, guest' \in GuestState, dirty' = TRUE, UNCHANGED <<screenHost, shown, screenOn>>
  PROVE  ScreenInv'
<1>1. ScreenTypes' /\ DisplayKnown'
  BY DEF ScreenInv, ScreenTypes, DisplayKnown
<1>2. Screen!ScreenCurrent'
  BY DEF ScreenInv, Screen!ScreenCurrent, Screen!Settled
<1> QED
  BY <1>1, <1>2 DEF ScreenInv

LEMMA SetModeKeeps ==
  ASSUME ScreenInv, NEW w \in screenHost.machine.modes, Screen!SetMode(w) PROVE ScreenInv'
<1>1. w \in Modes /\ Screen!Geometry(w) \in Shapes
  BY DEF ScreenInv, ScreenTypes, HostState, Modes, Shapes, Screen!Geometry
<1>2. guest' \in GuestState
  BY ZenonT(60), <1>1 DEF Screen!SetMode, ScreenInv, ScreenTypes, GuestState, Colours
<1> DEFINE h == [screenHost EXCEPT !.loaded = FALSE]
<1>3. /\ h \in HostState /\ h.loaded = FALSE /\ h.kind = screenHost.kind /\ h.chosen = screenHost.chosen
      /\ h.mode = screenHost.mode /\ h.vram = screenHost.vram
  BY DEF ScreenInv, ScreenTypes, HostState
<1>4. screenHost' = IF w = "03" /\ shown /\ screenHost.kind = "vga" THEN Screen!SetVideoMode(h, "03") ELSE h
  BY DEF Screen!SetMode, Screen!GfxModeChanged
<1> HIDE DEF h
<1>5. /\ screenHost' \in HostState /\ screenHost'.loaded = FALSE /\ screenHost'.kind = screenHost.kind
      /\ screenHost'.chosen = screenHost.chosen
      /\ w = "03" /\ shown /\ screenHost.kind = "vga" => screenHost'.mode = "03"
      /\ ~(w = "03" /\ shown /\ screenHost.kind = "vga") =>
           screenHost'.mode = screenHost.mode /\ screenHost'.vram = screenHost.vram
  BY <1>3, <1>4, VideoModeIs
<1>6. screenOn /\ screenOn' /\ dirty' = TRUE /\ shown' = (shown /\ w # "03")
  BY DEF Screen!SetMode
<1>7. ScreenTypes'
  BY <1>2, <1>5, <1>6 DEF ScreenInv, ScreenTypes
<1>8. DisplayKnown'
  BY <1>5, <1>6 DEF ScreenInv, ScreenTypes, DisplayKnown
<1>9. Screen!ScreenCurrent'
  BY <1>6 DEF Screen!ScreenCurrent, Screen!Settled
<1> QED
  BY <1>7, <1>8, <1>9 DEF ScreenInv

LEMMA GuestKeeps ==
  ASSUME ScreenInv, NEW v \in Values, Screen!WritePixels(v) \/ Screen!WriteText(v) \/ Screen!SetPalette(v) PROVE ScreenInv'
<1>1. /\ screenOn /\ dirty' = TRUE /\ UNCHANGED <<screenHost, shown, screenOn>>
      /\ guest' \in {[guest EXCEPT !.planes = v], [guest EXCEPT !.linear = v], [guest EXCEPT !.text = v],
                     [guest EXCEPT !.pal = v]}
  BY DEF Screen!WritePixels, Screen!WriteText, Screen!SetPalette
<1>2. guest' \in GuestState
  BY <1>1 DEF ScreenInv, ScreenTypes, GuestState, Colours
<1> QED
  BY <1>1, <1>2, NoticedKeeps

LEMMA FormatKeeps ==
  ASSUME ScreenInv, NEW chain \in BOOLEAN, NEW wide \in BOOLEAN, Screen!SetFormat(chain, wide) PROVE ScreenInv'
<1>1. /\ screenOn /\ dirty' = TRUE /\ UNCHANGED <<screenHost, shown, screenOn>>
      /\ guest' = [guest EXCEPT !.chain = chain, !.wide = wide]
  BY DEF Screen!SetFormat, Screen!Noticed
<1>2. guest' \in GuestState
  BY <1>1 DEF ScreenInv, ScreenTypes, GuestState
<1> QED
  BY <1>1, <1>2, NoticedKeeps

LEMMA GeometryKeeps ==
  ASSUME ScreenInv, NEW v \in screenHost.machine.geometries, Screen!SetGeometry(v) PROVE ScreenInv'
<1>1. v \in Shapes /\ guest \in GuestState
  BY DEF ScreenInv, ScreenTypes, HostState, Shapes
<1>2. /\ screenOn /\ guest' = [guest EXCEPT !.geo = v, !.unseen = TRUE]
      /\ UNCHANGED <<screenHost, dirty, shown, screenOn>>
  BY DEF Screen!SetGeometry
<1>3. guest' \in GuestState /\ guest'.unseen
  BY <1>1, <1>2 DEF GuestState
<1>4. ScreenTypes' /\ DisplayKnown'
  BY <1>2, <1>3 DEF ScreenInv, ScreenTypes, DisplayKnown
<1>5. Screen!ScreenCurrent'
  BY <1>2, <1>3 DEF Screen!ScreenCurrent, Screen!Settled
<1> QED
  BY <1>4, <1>5 DEF ScreenInv

\* choose_backend(): a VGA, if it is granted a mode, is empty then.
LEMMA BackendIs ==
  ASSUME ScreenInv, screenOn
  PROVE  LET h == Screen!ChooseBackend(screenHost)
         IN  /\ h \in HostState /\ h.chosen /\ h.kind \in {screenHost.kind, "none"}
             /\ h.loaded => h.dac = h.shadow
             /\ h.kind = "vga" /\ ~shown /\ h.mode # "03" => h.vram = Screen!NoPicture
<1> DEFINE h == screenHost
           chosen(g) == [g EXCEPT !.chosen = TRUE]
<1>1. h \in HostState
  BY DEF ScreenInv, ScreenTypes
<1>2. ASSUME NEW g \in HostState
      PROVE  /\ chosen(g) \in HostState /\ chosen(g).chosen /\ chosen(g).kind = g.kind /\ chosen(g).mode = g.mode
             /\ chosen(g).loaded = g.loaded /\ chosen(g).dac = g.dac /\ chosen(g).shadow = g.shadow
             /\ chosen(g).vram = g.vram /\ chosen(g).seen = g.seen
  BY DEF HostState
<1>3. CASE h.chosen
  BY <1>1, <1>3 DEF Screen!ChooseBackend, ScreenInv, DisplayKnown
<1>4. CASE ~h.chosen /\ h.kind # "vga"
  BY <1>1, <1>2, <1>4 DEF Screen!ChooseBackend, ScreenInv, DisplayKnown
<1>5. CASE ~h.chosen /\ h.kind = "vga"
  <2>1. h.loaded = FALSE
    BY <1>1, <1>5 DEF ScreenInv, DisplayKnown, HostState
  <2> DEFINE none == [h EXCEPT !.chosen = TRUE, !.kind = "none"]
  <2>2. \/ \E w \in {"12", "13"} : Screen!ChooseBackend(h) = chosen(Screen!SetVideoMode(h, w))
        \/ Screen!ChooseBackend(h) = none
    BY <1>5 DEF Screen!ChooseBackend, Screen!Want
  <2>3. none \in HostState /\ none.chosen /\ none.kind = "none" /\ none.loaded = h.loaded
    BY <1>1 DEF HostState
  <2> HIDE DEF none
  <2>4. ASSUME NEW w \in {"12", "13"}
        PROVE  LET g == chosen(Screen!SetVideoMode(h, w))
               IN  /\ g \in HostState /\ g.chosen /\ g.kind = h.kind /\ g.loaded = FALSE
                   /\ g.vram = Screen!NoPicture
    BY <1>1, <1>2, <2>1, VideoModeIs
  <2> HIDE DEF chosen
  <2> QED
    BY <2>1, <2>2, <2>3, <2>4
<1> QED
  BY <1>3, <1>4, <1>5

\* present_vga(): in a mode that is granted the picture is there with its palette in the DAC;
\* in another nothing is.
LEMMA PresentedIs ==
  ASSUME NEW h \in HostState, h.kind = "vga", h.loaded => h.dac = h.shadow, NEW w \in {"12", "13"},
         NEW p \in Pictures
  PROVE  LET g == Screen!PresentVga(h, w, p)
         IN  /\ g \in HostState /\ g.kind = "vga" /\ g.chosen = h.chosen /\ g.machine = h.machine
             /\ g.loaded => g.dac = g.shadow
             /\ w \in h.machine.grants => g.mode = w /\ g.dac = p.pal /\ g.vram = p
<1> DEFINE e == Screen!HostVgaEnter(h, w)
           fresh(x) == [x EXCEPT !.loaded = FALSE, !.identity = (w = "12")]
           filled(x) == [x EXCEPT !.vram = p]
           tuned(x) == [x EXCEPT !.dac = p.pal, !.shadow = p.pal, !.loaded = TRUE]
<1>1. /\ e \in HostState /\ e.kind = "vga" /\ e.chosen = h.chosen /\ e.machine = h.machine
      /\ e.loaded => e.dac = e.shadow
      /\ w \in h.machine.grants => e.mode = w
  <2>1. CASE h.mode = w \/ w \notin h.machine.grants
    BY <2>1 DEF Screen!HostVgaEnter
  <2>2. CASE ~(h.mode = w \/ w \notin h.machine.grants)
    <3>1. e = fresh(Screen!SetVideoMode(h, w))
      BY <2>2 DEF Screen!HostVgaEnter
    <3>2. ASSUME NEW x \in HostState
          PROVE  /\ fresh(x) \in HostState /\ fresh(x).kind = x.kind /\ fresh(x).chosen = x.chosen
                 /\ fresh(x).machine = x.machine /\ fresh(x).mode = x.mode /\ fresh(x).loaded = FALSE
      BY DEF HostState
    <3> HIDE DEF fresh
    <3> DEFINE s == Screen!SetVideoMode(h, w)
    <3>3. s \in HostState /\ s.kind = h.kind /\ s.chosen = h.chosen /\ s.machine = h.machine /\ (w \in h.machine.grants => s.mode = w)
      BY VideoModeIs
    <3> HIDE DEF s, e
    <3>4. e = fresh(s)
      BY <3>1 DEF s
    <3> QED
      BY <3>2, <3>3, <3>4
  <2> QED
    BY <2>1, <2>2
<1>2. p.pal \in Colours
  BY DEF Pictures
<1>3. ASSUME NEW x \in HostState
      PROVE  /\ tuned(x) \in HostState /\ tuned(x).kind = x.kind /\ tuned(x).chosen = x.chosen /\ tuned(x).mode = x.mode
             /\ tuned(x).machine = x.machine /\ tuned(x).dac = p.pal /\ tuned(x).shadow = p.pal
             /\ filled(x) \in HostState /\ filled(x).kind = x.kind /\ filled(x).chosen = x.chosen /\ filled(x).mode = x.mode
             /\ filled(x).machine = x.machine /\ filled(x).loaded = x.loaded
             /\ filled(x).dac = x.dac /\ filled(x).shadow = x.shadow /\ filled(x).vram = p
  BY <1>2 DEF HostState
<1>4. Screen!PresentVga(h, w, p) = IF e.mode # w THEN e ELSE filled(Screen!LoadDac(e, p.pal))
  BY DEF Screen!PresentVga
<1> HIDE DEF e
<1>5. Screen!LoadDac(e, p.pal) \in {e, tuned(e)} /\ (Screen!LoadDac(e, p.pal) = e => (e.loaded /\ e.shadow = p.pal) \/ e = tuned(e))
  BY DEF Screen!LoadDac
<1> HIDE DEF fresh, filled, tuned
<1> DEFINE l == Screen!LoadDac(e, p.pal)
<1>6. /\ l \in HostState /\ l.kind = "vga" /\ l.chosen = h.chosen /\ l.machine = h.machine /\ l.mode = e.mode
      /\ l.dac = l.shadow /\ l.dac = p.pal
  BY <1>1, <1>3, <1>5
<1>7. CASE e.mode # w
  BY <1>1, <1>4, <1>7
<1>8. CASE e.mode = w
  <2>1. Screen!PresentVga(h, w, p) = filled(l)
    BY <1>4, <1>8
  <2> HIDE DEF l
  <2>2. /\ filled(l) \in HostState /\ filled(l).kind = l.kind /\ filled(l).chosen = l.chosen
        /\ filled(l).mode = l.mode /\ filled(l).machine = l.machine /\ filled(l).dac = l.dac
        /\ filled(l).shadow = l.shadow /\ filled(l).vram = p
    BY <1>3, <1>6
  <2> QED
    BY <1>6, <1>8, <2>1, <2>2
<1> QED
  BY <1>7, <1>8

\* Noting that a frame was made changes neither the picture nor what it takes to show it.
LEMMA SamePicture ==
  ASSUME ScreenTypes, guest' = [guest EXCEPT !.unseen = FALSE]
  PROVE  /\ guest' \in GuestState /\ guest'.text = guest.text
         /\ Screen!Picture(guest)' = Screen!Picture(guest) /\ Screen!Want(guest)' = Screen!Want(guest)
         /\ Screen!Graphics(guest)' <=> Screen!Graphics(guest)
<1>1. /\ guest' \in GuestState /\ guest'.text = guest.text /\ guest'.mode = guest.mode /\ guest'.chain = guest.chain
      /\ guest'.wide = guest.wide /\ guest'.geo = guest.geo /\ guest'.pal = guest.pal
      /\ guest'.planes = guest.planes /\ guest'.linear = guest.linear
  BY DEF ScreenTypes, GuestState
<1>2. /\ Screen!Graphics(guest)' <=> Screen!Graphics(guest)
      /\ Screen!Unchained(guest)' <=> Screen!Unchained(guest)
      /\ Screen!Planar(guest)' <=> Screen!Planar(guest)
      /\ Screen!Mapped(guest)' <=> Screen!Mapped(guest)
  BY <1>1 DEF Screen!Graphics, Screen!Unchained, Screen!Planar, Screen!Mapped
<1>3. Screen!Layout(guest)' = Screen!Layout(guest)
  BY <1>1, <1>2 DEF Screen!Layout
<1>4. Screen!Picture(guest)' = Screen!Picture(guest)
  BY <1>1, <1>2, <1>3 DEF Screen!Picture
<1>5. Screen!Want(guest)' = Screen!Want(guest)
  BY <1>1, <1>2 DEF Screen!Want, Screen!Large
<1> QED
  BY <1>1, <1>2, <1>4, <1>5

\* gfx_frame().
LEMMA FrameKeeps ==
  ASSUME ScreenInv, NEW reading \in BOOLEAN, Screen!GfxFrame(reading) PROVE ScreenInv'
<1> DEFINE h == Screen!ChooseBackend(screenHost)
           p == Screen!Picture(guest)
           seen(x) == [x EXCEPT !.seen = p]
<1>1. screenOn /\ dirty /\ UNCHANGED screenOn /\ p \in Pictures
  BY PictureIs DEF ScreenInv, Screen!GfxFrame
<1>2. /\ h \in HostState /\ h.chosen /\ h.kind \in {screenHost.kind, "none"}
      /\ h.loaded => h.dac = h.shadow
      /\ h.kind = "vga" /\ ~shown /\ h.mode # "03" => h.vram = Screen!NoPicture
  BY <1>1, BackendIs
<1>3. IF h.kind = "window"
      THEN /\ screenHost' = IF reading THEN h ELSE seen(h)
           /\ dirty' = (reading /\ Screen!Refused(h))
           /\ UNCHANGED shown
      ELSE /\ dirty' = FALSE
           /\ IF Screen!Graphics(guest)
              THEN /\ screenHost' = IF h.kind = "none" THEN h ELSE Screen!PresentGraphics(h, p)
                   /\ shown' = (shown \/ h.kind # "none")
              ELSE /\ screenHost' = IF shown \/ guest.text # Screen!NulText THEN seen(h) ELSE h
                   /\ UNCHANGED shown
  BY DEF Screen!GfxFrame
<1>4. ASSUME NEW x \in HostState
      PROVE  /\ seen(x) \in HostState /\ seen(x).kind = x.kind /\ seen(x).chosen = x.chosen /\ seen(x).mode = x.mode
             /\ seen(x).loaded = x.loaded /\ seen(x).dac = x.dac /\ seen(x).shadow = x.shadow /\ seen(x).vram = x.vram
             /\ seen(x).seen = p
  BY <1>1 DEF HostState
<1>5. /\ guest' \in GuestState /\ guest'.text = guest.text
      /\ Screen!Picture(guest)' = p /\ Screen!Want(guest)' = Screen!Want(guest)
      /\ Screen!Graphics(guest)' <=> Screen!Graphics(guest)
  BY SamePicture DEF ScreenInv, Screen!GfxFrame
<1> HIDE DEF h, p, seen
<1>6. CASE h.kind = "window"
  <2>1. /\ screenHost' \in HostState /\ screenHost'.chosen /\ screenHost'.kind = "window" /\ dirty' = reading
        /\ screenHost'.loaded => screenHost'.dac = screenHost'.shadow
        /\ ~reading => screenHost'.seen = p
        /\ UNCHANGED shown
    BY <1>2, <1>3, <1>4, <1>6 DEF Screen!Refused
  <2>2. ScreenTypes' /\ DisplayKnown'
    BY <1>1, <1>5, <2>1 DEF ScreenInv, ScreenTypes, DisplayKnown
  <2>3. Screen!ScreenCurrent'
    BY <1>1, <1>5, <2>1 DEF Screen!ScreenCurrent, Screen!Settled, Screen!Visible
  <2> QED
    BY <2>2, <2>3 DEF ScreenInv
<1>7. CASE h.kind # "window" /\ ~Screen!Graphics(guest)
  <2>1. shown' = shown /\ dirty' = FALSE /\ screenHost' = IF shown \/ guest.text # Screen!NulText THEN seen(h) ELSE h
    BY <1>3, <1>7
  <2>2. /\ screenHost' \in HostState /\ screenHost'.chosen /\ screenHost'.kind = h.kind
        /\ screenHost'.loaded => screenHost'.dac = screenHost'.shadow
        /\ screenHost'.mode = h.mode /\ screenHost'.vram = h.vram
        /\ shown \/ guest.text # Screen!NulText => screenHost'.seen = p
    BY <1>2, <1>4, <2>1
  <2>3. ScreenTypes' /\ DisplayKnown'
    BY <1>1, <1>2, <1>5, <2>1, <2>2 DEF ScreenInv, ScreenTypes, DisplayKnown
  <2>4. CASE (screenHost'.kind = "vga" /\ screenHost'.mode # "03") \/ (guest.text = Screen!NulText /\ ~shown)
    <3>1. Screen!TextHidden'
      BY <1>5, <1>7, <2>1, <2>4 DEF Screen!TextHidden
    <3> QED
      BY <1>1, <2>3, <3>1 DEF ScreenInv, Screen!ScreenCurrent
  <2>5. CASE ~((screenHost'.kind = "vga" /\ screenHost'.mode # "03") \/ (guest.text = Screen!NulText /\ ~shown))
    <3>1. Screen!Visible(screenHost)' = Screen!Picture(guest)'
      BY <1>5, <2>2, <2>5 DEF Screen!Visible
    <3> QED
      BY <1>1, <2>3, <3>1 DEF ScreenInv, Screen!ScreenCurrent
  <2> QED
    BY <2>4, <2>5
<1>8. CASE h.kind = "none" /\ Screen!Graphics(guest)
  <2>1. screenHost' = h /\ dirty' = FALSE /\ shown' = shown
    BY <1>3, <1>8 DEF ScreenInv, ScreenTypes
  <2> QED
    BY <1>1, <1>2, <1>5, <1>8, <2>1 DEF ScreenInv, ScreenTypes, DisplayKnown, Screen!ScreenCurrent, Screen!Settled
<1>9. CASE h.kind = "vesa" /\ Screen!Graphics(guest)
  <2>1. screenHost' = seen(h) /\ dirty' = FALSE /\ shown' = TRUE
    BY <1>3, <1>9 DEF ScreenInv, ScreenTypes, Screen!PresentGraphics, seen
  <2>2. ScreenTypes' /\ DisplayKnown'
    BY <1>1, <1>2, <1>4, <1>5, <1>9, <2>1 DEF ScreenInv, ScreenTypes, DisplayKnown
  <2>3. Screen!ScreenCurrent'
    BY <1>1, <1>2, <1>4, <1>5, <1>9, <2>1 DEF Screen!ScreenCurrent, Screen!Visible
  <2> QED
    BY <2>2, <2>3 DEF ScreenInv
<1>10. CASE h.kind = "vga" /\ Screen!Graphics(guest)
  <2> DEFINE w == Screen!Want(guest)
  <2>1. w \in {"12", "13"} /\ screenHost' = Screen!PresentVga(h, w, p)
    BY <1>3, <1>10 DEF Screen!PresentGraphics, Screen!Want
  <2>2. dirty' = FALSE /\ shown' = TRUE
    BY <1>3, <1>10 DEF ScreenInv, ScreenTypes
  <2> HIDE DEF w
  <2>3. /\ screenHost' \in HostState /\ screenHost'.kind = "vga" /\ screenHost'.chosen
        /\ screenHost'.machine = h.machine
        /\ screenHost'.loaded => screenHost'.dac = screenHost'.shadow
        /\ w \in h.machine.grants => screenHost'.mode = w /\ screenHost'.dac = p.pal /\ screenHost'.vram = p
    BY <1>1, <1>2, <1>10, <2>1, PresentedIs
  <2>4. ScreenTypes' /\ DisplayKnown'
    BY <1>1, <1>2, <1>5, <1>10, <2>2, <2>3 DEF ScreenInv, ScreenTypes, DisplayKnown
  <2>5. CASE w \notin h.machine.grants
    <3>1. Screen!ModeRefused'
      BY <1>5, <1>10, <2>3, <2>5 DEF Screen!ModeRefused, w
    <3> QED
      BY <1>1, <2>3, <2>4, <3>1 DEF ScreenInv, Screen!ScreenCurrent
  <2>6. CASE w \in h.machine.grants
    <3>1. [p EXCEPT !.pal = p.pal] = p
      BY <1>1 DEF Pictures
    <3>2. Screen!Recoloured' \/ Screen!Visible(screenHost)' = Screen!Picture(guest)'
      BY <1>5, <2>1, <2>3, <2>6, <3>1 DEF Screen!Visible, Screen!Recoloured
    <3> QED
      BY <1>1, <2>3, <2>4, <3>2 DEF ScreenInv, Screen!ScreenCurrent
  <2> QED
    BY <2>5, <2>6
<1> QED
  BY <1>2, <1>6, <1>7, <1>8, <1>9, <1>10 DEF HostState

\* gfx_shutdown().
LEMMA FinishKeeps ==
  ASSUME ScreenInv, NEW died \in BOOLEAN, Screen!Finish(died) PROVE ScreenInv'
<1> DEFINE h == screenHost
           p == Screen!Picture(guest)
<1>1. /\ h \in HostState /\ p \in Pictures /\ screenOn /\ screenOn' = FALSE /\ guest' = guest /\ shown' = FALSE
      /\ dirty' = (h.kind = "window" /\ died)
      /\ screenHost' = IF h.kind = "window" THEN (IF died THEN h ELSE [h EXCEPT !.seen = p])
                       ELSE IF h.kind = "vga" /\ shown THEN Screen!SetVideoMode(h, "03") ELSE h
  BY PictureIs DEF ScreenInv, ScreenTypes, Screen!Finish
<1>2. Screen!Picture(guest)' = p
  BY <1>1
<1> HIDE DEF p
<1>3. /\ [h EXCEPT !.seen = p] \in HostState /\ [h EXCEPT !.seen = p].kind = h.kind /\ [h EXCEPT !.seen = p].seen = p
  BY <1>1 DEF HostState
<1>4. /\ screenHost' \in HostState /\ screenHost'.kind = h.kind
      /\ h.kind = "window" /\ ~died => screenHost'.seen = p
      /\ h.kind = "vga" /\ shown => screenHost'.mode = "03"
      /\ h.kind = "vga" /\ ~shown => screenHost' = h
  BY <1>1, <1>3, VideoModeIs
<1>5. ScreenTypes' /\ DisplayKnown'
  BY <1>1, <1>4 DEF ScreenInv, ScreenTypes, DisplayKnown
<1>6. Screen!ScreenCurrent'
  BY <1>1, <1>2, <1>4 DEF ScreenInv, DisplayKnown, Screen!ScreenCurrent, Screen!Settled, Screen!TooEarly
<1> QED
  BY <1>5, <1>6 DEF ScreenInv

LEMMA ScreenStep == ASSUME ScreenInv, [Screen!Next]_Screen!vars PROVE ScreenInv'
<1>1. ASSUME UNCHANGED Screen!vars PROVE ScreenInv'
  <2>1. guest' = guest /\ screenHost' = screenHost /\ dirty' = dirty /\ shown' = shown /\ screenOn' = screenOn
    BY <1>1 DEF Screen!vars
  <2>2. Screen!Picture(guest)' = Screen!Picture(guest) /\ Screen!Visible(screenHost)' = Screen!Visible(screenHost)
    BY <2>1
  <2>3. /\ Screen!TooEarly' = Screen!TooEarly /\ Screen!TextHidden' = Screen!TextHidden
        /\ Screen!ModeRefused' = Screen!ModeRefused /\ Screen!Recoloured' = Screen!Recoloured
        /\ Screen!Settled' = Screen!Settled
    BY <2>1 DEF Screen!TooEarly, Screen!TextHidden, Screen!ModeRefused, Screen!Recoloured, Screen!Settled
  <2>4. ScreenTypes' /\ DisplayKnown'
    BY <2>1 DEF ScreenInv, ScreenTypes, DisplayKnown
  <2>5. Screen!ScreenCurrent'
    BY <2>1, <2>2, <2>3, Zenon DEF ScreenInv, Screen!ScreenCurrent
  <2> QED
    BY <2>4, <2>5 DEF ScreenInv
<1>2. ASSUME Screen!Next PROVE ScreenInv'
  BY <1>2, SetModeKeeps, GuestKeeps, FormatKeeps, GeometryKeeps, FrameKeeps, FinishKeeps DEF Screen!Next
<1> QED
  BY <1>1, <1>2

-----------------------------------------------------------------------------
(* HostedWindow: a block of memory that a window and a program share.        *)

\* A ring that the indices' range is a multiple of, as 2^32 is.
HostedSizes ==
    /\ HostedSlots \subseteq Nat /\ MaxLaunches \in Nat /\ Queue \in Nat \ {0}
    /\ IndexMod \in Nat /\ IndexMod > Queue /\ \E k \in Nat : IndexMod = Queue * k
    /\ HostedBounds \subseteq [slots : SUBSET HostedSlots, launches : 0 .. MaxLaunches, frames : Nat,
                               commands : Nat, copies : Nat, sizes : SUBSET Nat]

Commands == {"none", "key", "size"} \X Nat
PixelType == [left : Nat \X Nat, right : Nat \X Nat]
FrameType == [state : {"ready", "reading", "writing"}, serial : Nat, px : PixelType]
BlockType == [quit : BOOLEAN, exited : BOOLEAN, error : BOOLEAN, head : Nat, tail : Nat,
              cells : [0 .. Queue - 1 -> Commands], front : 0 .. 2, frame : Nat, frames : [0 .. 1 -> FrameType],
              copy : BOOLEAN, text : Nat, attention : BOOLEAN, queued : Seq(Commands)]
WindowType == [pc : {"closed", "top", "wait", "reap", "send", "resize", "exit", "copy", "copied", "attention", "frame",
                     "check", "paint", "front", "claim", "left half", "right half", "painted"},
               slot : Nat, shown : Nat, pic : PixelType, want : Nat, sent : Nat, ended : BOOLEAN, dirty : BOOLEAN,
               front : 0 .. 2, next : {"top", "exit", "front"}, cmd : Commands, clip : Seq(Nat)]
Away == {"none", "left", "gone"}
Drawing == {"left half", "right half", "ready"}
ProgramType == [pc : Away \cup Drawing \cup {"start", "poll", "input", "took", "draw", "front", "serial", "copy", "copied",
                                             "leave"},
                slot : Nat, back : 0 .. 1, cmd : Commands, taken : Seq(Commands), copies : Nat]

HostedTypes ==
    /\ blk \in [HostedSlots -> BlockType] /\ slot \in [HostedSlots -> [child : Nat, orphan : BOOLEAN]]
    /\ wnd \in WindowType /\ prog \in [Hosted!Launches -> ProgramType]
    /\ count \in [started : Nat, most : HostedBounds]

\* The program h that a block b was given to has it to itself; a program that has said that
\* it left does not come back to it; and the window's block is the one of its program.
SlotOwned ==
    /\ count.started \in 0 .. MaxLaunches
    /\ \A h \in Hosted!Launches : h > count.started <=> prog[h].pc = "none"
    /\ \A h \in Hosted!Launches :
          prog[h].pc \notin Away => prog[h].slot \in HostedSlots /\ slot[prog[h].slot].child = h
    /\ \A s \in HostedSlots : LET h == slot[s].child
                              IN  h # 0 => /\ h \in 1 .. count.started
                                           /\ prog[h].pc \notin Away => prog[h].slot = s
                                           /\ blk[s].exited => prog[h].pc \in {"left", "gone"}
    /\ wnd.pc # "closed" =>
          /\ wnd.slot \in HostedSlots /\ slot[wnd.slot].child # 0 /\ ~slot[wnd.slot].orphan
          /\ wnd.ended => prog[slot[wnd.slot].child].pc \in {"left", "gone"}

\* A frame that nobody writes is blank, or one picture of the program's, all of it.
WholeFrame(f, h) == f.px.left = f.px.right /\ (f.px = Hosted!NoPixels \/ f.px.left = <<h, f.serial>>)
FramesOk(b, h) == \A i \in {0, 1} : b.frames[i].state # "writing" => WholeFrame(b.frames[i], h)

\* While the program draws, the frame is its own.
DrawOk(b, p, h) ==
    p.pc \in Drawing => LET f == b.frames[p.back]
                        IN  /\ f.state = "writing"
                            /\ p.pc = "right half" => f.px.left = <<h, b.frame + 1>>
                            /\ p.pc = "ready" => WholeFrame(f, h)

\* The ring: what was taken is the beginning of what was queued, and the rest is in the cells.
RingOk(b, p) ==
    LET n == Len(p.taken)
        k == Len(b.queued)
    IN  /\ n <= k /\ k <= n + Queue /\ b.head = k % IndexMod /\ b.tail = n % IndexMod
        /\ \A i \in 1 .. n : p.taken[i] = b.queued[i]
        /\ \A i \in n + 1 .. k : b.cells[(i - 1) % Queue] = b.queued[i]
        /\ p.pc = "took" => n < k /\ p.cmd = b.queued[n + 1]

\* The cell that is filled and not yet to be seen.
SendOk(b, p, w) ==
    w.pc = "send" => Len(b.queued) < Len(p.taken) + Queue /\ b.cells[Len(b.queued) % Queue] = w.cmd

\* What the window is painted with, and the frame it reads.
ReadOk(b, w, h) ==
    /\ w.pc \in {"claim", "left half", "right half", "painted"} => w.front \in {0, 1}
    /\ w.pc \in {"left half", "right half", "painted"} => b.frames[w.front].state = "reading"
    /\ w.pc = "right half" => w.pic.left = b.frames[w.front].px.left
    /\ w.pc # "right half" => /\ w.pic.left = w.pic.right
                              /\ w.pic # Hosted!NoPixels /\ ~w.ended /\ w.shown # 0 => w.pic.left = <<h, w.shown>>

\* The last size in the queue is the one the window takes for told.
LastSize(q, size) == \E i \in 1 .. Len(q) : q[i] = <<"size", size>> /\ \A k \in i + 1 .. Len(q) : q[k][1] # "size"
SizeOk(b, w) == ~w.ended /\ w.sent # 0 => LastSize(b.queued, w.sent)

\* The texts the clipboard got, and the one that waits.
ClipOk(b, w) ==
    /\ \A i \in 1 .. Len(w.clip) : w.clip[i] = i
    /\ b.copy => b.text = Len(w.clip) + (IF w.pc = "copied" THEN 0 ELSE 1)
    /\ w.pc = "copied" => b.copy
CopyOk(b, p, w) ==
    IF p.pc = "copied" THEN ~b.copy /\ b.text = p.copies /\ p.copies = Len(w.clip) + 1
    ELSE p.copies = Len(w.clip) + (IF b.copy /\ w.pc # "copied" THEN 1 ELSE 0)

Shared(b, p, h) == FramesOk(b, h) /\ (p.pc \notin Away => RingOk(b, p) /\ DrawOk(b, p, h))
Looks(b, p, w, h) == ReadOk(b, w, h) /\ SizeOk(b, w) /\ ClipOk(b, w) /\ (p.pc \notin Away => SendOk(b, p, w) /\ CopyOk(b, p, w))

HostedInv ==
    /\ HostedTypes /\ SlotOwned
    /\ \A s \in HostedSlots : slot[s].child # 0 => Shared(blk[s], prog[slot[s].child], slot[s].child)
    /\ wnd.pc # "closed" => Looks(blk[wnd.slot], prog[slot[wnd.slot].child], wnd, slot[wnd.slot].child)

-----------------------------------------------------------------------------
\* Remainders.

LEMMA Remainder ==
  ASSUME NEW a \in Int, NEW M \in Nat \ {0}, NEW k \in Int, NEW r \in 0 .. M - 1, a = r + k * M
  PROVE  a % M = r
  OBVIOUS

LEMMA Quotient ==
  ASSUME NEW a \in Int, NEW M \in Nat \ {0}
  PROVE  a % M \in 0 .. M - 1 /\ a \div M \in Int /\ a = (a % M) + (a \div M) * M
  OBVIOUS

LEMMA Cycle ==
  ASSUME NEW a \in Int, NEW M \in Nat \ {0}, NEW k \in Int PROVE (a + k * M) % M = a % M
<1> DEFINE r == a % M
           d == a \div M
<1>1. r \in 0 .. M - 1 /\ d \in Int /\ a = r + d * M
  BY Quotient
<1> HIDE DEF r, d
<1>2. a + k * M \in Int /\ d + k \in Int /\ a + k * M = r + (d + k) * M
  BY <1>1
<1>3. (a + k * M) % M = r
  BY <1>1, <1>2, Remainder
<1> QED
  BY <1>3 DEF r

\* Counters that wrap: one more, and how far one is ahead of another.
LEMMA IndexPlus == ASSUME NEW M \in Nat \ {0}, NEW a \in Nat PROVE ((a % M) + 1) % M = (a + 1) % M
<1> DEFINE r == a % M
           d == a \div M
<1>1. r \in Int /\ d \in Int /\ a = r + d * M
  BY Quotient
<1> HIDE DEF r, d
<1>2. a + 1 = (r + 1) + d * M /\ r + 1 \in Int
  BY <1>1
<1>3. ((r + 1) + d * M) % M = (r + 1) % M
  BY <1>1, <1>2, Cycle
<1> QED
  BY <1>2, <1>3 DEF r

LEMMA IndexMinus ==
  ASSUME NEW M \in Nat \ {0}, NEW a \in Nat, NEW z \in Nat, z <= a, a - z < M
  PROVE  ((a % M) - (z % M)) % M = a - z
<1> DEFINE r == a % M
           d == a \div M
           t == z % M
           e == z \div M
<1>1. r \in Int /\ d \in Int /\ a = r + d * M /\ t \in Int /\ e \in Int /\ z = t + e * M
  BY Quotient
<1> HIDE DEF r, d, t, e
<1>2. PICK x \in Int : x = r - t
  BY <1>1
<1>3. PICK y \in 0 .. M - 1 : y = a - z
  BY <1>1
<1>4. PICK k \in Int : k = e - d
  BY <1>1
<1>5. x = y + k * M
  BY <1>1, <1>2, <1>3, <1>4
<1>6. x % M = y
  BY <1>5, Remainder
<1> QED
  BY <1>2, <1>3, <1>6 DEF r, t

\* The cell of a wrapped counter is that of the counter.
LEMMA CellOf ==
  ASSUME NEW L \in Nat \ {0}, NEW M \in Nat \ {0}, NEW j \in Nat, NEW a \in Nat
  PROVE  M = L * j => (a % M) % L = a % L
<1> DEFINE r == a % M
           d == a \div M
<1>1. r \in Int /\ d \in Int /\ a = r + d * M
  BY Quotient
<1> HIDE DEF r, d
<1>2. PICK k \in Int : k = d * j
  BY <1>1
<1>3. ASSUME M = L * j PROVE a = r + k * L
  BY <1>1, <1>2, <1>3
<1>4. (r + k * L) % L = r % L
  BY <1>1, Cycle
<1> QED
  BY <1>3, <1>4 DEF r

\* Counters less than a turn of the ring apart have cells of their own.
LEMMA CellsDiffer ==
  ASSUME NEW L \in Nat \ {0}, NEW a \in Nat, NEW z \in Nat, z < a, a - z < L PROVE a % L # z % L
<1>1. ((a % L) - (z % L)) % L = a - z
  <2>1. z <= a
    OBVIOUS
  <2> QED
    BY <2>1, IndexMinus
<1>2. a % L \in Int /\ 0 % L = 0
  BY Quotient
<1> QED
  BY <1>1, <1>2

-----------------------------------------------------------------------------
\* What a block shared by a window and its program goes through.

LEMMA SharedSame ==
  ASSUME NEW b, NEW d, NEW p, NEW q, NEW h, Shared(b, p, h), p.pc \notin Away,
         d.frames = b.frames, d.head = b.head, d.tail = b.tail, d.cells = b.cells, d.queued = b.queued,
         q.pc \notin Away => q.taken = p.taken, q.pc \notin Drawing, q.pc # "took"
  PROVE  Shared(d, q, h)
  BY Zenon DEF Shared, FramesOk, DrawOk, RingOk

LEMMA LooksSame ==
  ASSUME NEW b, NEW d, NEW p, NEW q, NEW w, NEW h, Looks(b, p, w, h), p.pc \notin Away,
         w.pc \in {"left half", "right half", "painted"} => d.frames[w.front] = b.frames[w.front],
         d.cells = b.cells, d.queued = b.queued, d.copy = b.copy, d.text = b.text,
         q.pc \notin Away => q.taken = p.taken /\ q.copies = p.copies /\ (q.pc = "copied" <=> p.pc = "copied")
  PROVE  Looks(d, q, w, h)
<1>1. ReadOk(d, w, h)
  BY Zenon DEF Looks, ReadOk
<1>2. SizeOk(d, w) /\ ClipOk(d, w)
  BY Zenon DEF Looks, SizeOk, ClipOk
<1>3. q.pc \notin Away => SendOk(d, q, w) /\ CopyOk(d, q, w)
  BY Zenon DEF Looks, SendOk, CopyOk
<1> QED
  BY Zenon, <1>1, <1>2, <1>3 DEF Looks

LEMMA ProgramKeeps ==
  ASSUME HostedSizes, HostedInv, NEW c \in Hosted!Launches, prog[c].pc \notin Away, NEW p \in ProgramType, NEW b \in BlockType,
         UNCHANGED <<slot, wnd, count>>, prog' = [prog EXCEPT ![c] = p], blk' = [blk EXCEPT ![prog[c].slot] = b],
         p.pc # "none", p.pc \in Away \/ p.slot = prog[c].slot,
         b.exited => blk[prog[c].slot].exited \/ p.pc \in {"left", "gone"},
         Shared(b, p, c), wnd.pc # "closed" /\ wnd.slot = prog[c].slot => Looks(b, p, wnd, c)
  PROVE  HostedInv'
<1> DEFINE s == prog[c].slot
<1>0. MaxLaunches \in Nat /\ c \in 1 .. MaxLaunches
  BY DEF HostedSizes, Hosted!Launches
<1>1. s \in HostedSlots /\ slot[s].child = c /\ prog \in [Hosted!Launches -> ProgramType] /\ blk \in [HostedSlots -> BlockType]
  BY DEF HostedInv, HostedTypes, SlotOwned
<1> HIDE DEF s
<1>2. prog'[c] = p /\ blk'[s] = b /\ (\A h \in Hosted!Launches : h # c => prog'[h] = prog[h])
      /\ (\A t \in HostedSlots : t # s => blk'[t] = blk[t])
  BY <1>1 DEF s
<1>3. HostedTypes'
  BY <1>1 DEF HostedInv, HostedTypes, s
<1>4. \A t \in HostedSlots : slot[t].child = c => t = s
  BY <1>0 DEF HostedInv, SlotOwned, s
<1>5. SlotOwned'
  <2>1. count'.started \in 0 .. MaxLaunches /\ \A h \in Hosted!Launches : h > count'.started <=> prog'[h].pc = "none"
    BY SMTT(60), <1>2 DEF HostedInv, SlotOwned, Away
  <2>2. \A h \in Hosted!Launches :
          prog'[h].pc \notin Away => prog'[h].slot \in HostedSlots /\ slot'[prog'[h].slot].child = h
    BY <1>1, <1>2 DEF HostedInv, SlotOwned, s
  <2>3. ASSUME NEW t \in HostedSlots, slot'[t].child # 0
        PROVE  LET h == slot'[t].child
               IN  /\ h \in 1 .. count'.started
                   /\ prog'[h].pc \notin Away => prog'[h].slot = t
                   /\ blk'[t].exited => prog'[h].pc \in {"left", "gone"}
    <3>1. CASE t = s
      BY SMTT(60), <1>0, <1>1, <1>2, <3>1 DEF HostedInv, SlotOwned, s, Away
    <3>2. CASE t # s
      BY <1>1, <1>2, <1>4, <2>3, <3>2 DEF HostedInv, SlotOwned, Hosted!Launches
    <3> QED
      BY SMTT(60), <3>1, <3>2
  <2>4. wnd'.pc # "closed" =>
          /\ wnd'.slot \in HostedSlots /\ slot'[wnd'.slot].child # 0 /\ ~slot'[wnd'.slot].orphan
          /\ wnd'.ended => prog'[slot'[wnd'.slot].child].pc \in {"left", "gone"}
    BY <1>1, <1>2, <1>4 DEF HostedInv, SlotOwned, Hosted!Launches, Away
  <2> QED
    BY SMTT(60), <2>1, <2>2, <2>3, <2>4 DEF SlotOwned
<1>6. ASSUME NEW t \in HostedSlots, slot'[t].child # 0 PROVE Shared(blk'[t], prog'[slot'[t].child], slot'[t].child)
  <2>1. slot[t].child \in Hosted!Launches
    BY <1>0, <1>6 DEF HostedInv, SlotOwned, Hosted!Launches
  <2>2. CASE t = s
    BY <1>1, <1>2, <2>2
  <2>3. CASE t # s
    BY <1>2, <1>4, <1>6, <2>1, <2>3 DEF HostedInv
  <2> QED
    BY <2>2, <2>3
<1>7. ASSUME wnd'.pc # "closed" PROVE Looks(blk'[wnd'.slot], prog'[slot'[wnd'.slot].child], wnd', slot'[wnd'.slot].child)
  <2>1. wnd.slot \in HostedSlots /\ slot[wnd.slot].child \in Hosted!Launches
    BY <1>0, <1>7 DEF HostedInv, SlotOwned, Hosted!Launches
  <2>2. CASE wnd.slot = s
    BY <1>1, <1>2, <1>7, <2>2 DEF s
  <2>3. CASE wnd.slot # s
    BY SMTT(60), <1>2, <1>4, <1>7, <2>1, <2>3 DEF HostedInv
  <2> QED
    BY <2>2, <2>3
<1> QED
  BY <1>3, <1>5, <1>6, <1>7 DEF HostedInv

LEMMA WindowKeeps ==
  ASSUME HostedSizes, HostedInv, wnd.pc # "closed", NEW w \in WindowType, NEW b \in BlockType,
         UNCHANGED <<slot, prog, count>>, wnd' = w, blk' = [blk EXCEPT ![wnd.slot] = b],
         w.pc # "closed", w.slot = wnd.slot,
         w.ended => wnd.ended \/ prog[slot[wnd.slot].child].pc \in {"left", "gone"},
         b.exited => blk[wnd.slot].exited,
         Shared(b, prog[slot[wnd.slot].child], slot[wnd.slot].child),
         Looks(b, prog[slot[wnd.slot].child], w, slot[wnd.slot].child)
  PROVE  HostedInv'
<1> DEFINE s == wnd.slot
           h == slot[s].child
<1>1. s \in HostedSlots /\ h # 0 /\ blk \in [HostedSlots -> BlockType]
  BY DEF HostedInv, HostedTypes, SlotOwned
<1>2. blk'[s] = b /\ \A t \in HostedSlots : t # s => blk'[t] = blk[t]
  BY SMTT(60), <1>1
<1>3. HostedTypes'
  BY SMTT(60), <1>1 DEF HostedInv, HostedTypes
<1>4. SlotOwned'
  BY SMTT(60), <1>1, <1>2 DEF HostedInv, SlotOwned
<1>5. ASSUME NEW t \in HostedSlots, slot'[t].child # 0 PROVE Shared(blk'[t], prog'[slot'[t].child], slot'[t].child)
  BY SMTT(60), <1>1, <1>2, <1>5 DEF HostedInv
<1>6. Looks(blk'[wnd'.slot], prog'[slot'[wnd'.slot].child], wnd', slot'[wnd'.slot].child)
  BY <1>1, <1>2
<1> QED
  BY SMTT(60), <1>3, <1>4, <1>5, <1>6 DEF HostedInv

\* The program of a block and what is known of the two.
LEMMA ProgramHas ==
  ASSUME HostedSizes, HostedInv, NEW c \in Hosted!Launches, prog[c].pc \notin Away
  PROVE  /\ prog[c] \in ProgramType /\ prog[c].slot \in HostedSlots /\ blk[prog[c].slot] \in BlockType
         /\ c \in Nat /\ c # 0 /\ slot[prog[c].slot].child = c
         /\ Shared(blk[prog[c].slot], prog[c], c) /\ RingOk(blk[prog[c].slot], prog[c])
         /\ FramesOk(blk[prog[c].slot], c) /\ DrawOk(blk[prog[c].slot], prog[c], c)
         /\ wnd.pc # "closed" /\ wnd.slot = prog[c].slot => Looks(blk[prog[c].slot], prog[c], wnd, c)
         /\ wnd \in WindowType
<1>1. c \in Nat /\ c # 0
  BY DEF HostedSizes, Hosted!Launches
<1>2. /\ prog[c] \in ProgramType /\ prog[c].slot \in HostedSlots /\ blk[prog[c].slot] \in BlockType
      /\ slot[prog[c].slot].child = c /\ wnd \in WindowType
  BY DEF HostedInv, HostedTypes, SlotOwned
<1>3. Shared(blk[prog[c].slot], prog[c], c)
  BY <1>1, <1>2 DEF HostedInv
<1>4. wnd.pc # "closed" /\ wnd.slot = prog[c].slot => Looks(blk[prog[c].slot], prog[c], wnd, c)
  BY SMTT(60), <1>2 DEF HostedInv
<1> QED
  BY <1>1, <1>2, <1>3, <1>4 DEF Shared

\* A program goes on, or ends, and touches neither the ring, nor the frames, nor the text.
LEMMA PlainKeeps ==
  ASSUME HostedSizes, HostedInv, NEW c \in Hosted!Launches, prog[c].pc \notin Away, NEW p \in ProgramType, NEW b \in BlockType,
         UNCHANGED <<slot, wnd, count>>, prog' = [prog EXCEPT ![c] = p], blk' = [blk EXCEPT ![prog[c].slot] = b],
         b.frames = blk[prog[c].slot].frames, b.head = blk[prog[c].slot].head, b.tail = blk[prog[c].slot].tail,
         b.cells = blk[prog[c].slot].cells, b.queued = blk[prog[c].slot].queued, b.copy = blk[prog[c].slot].copy,
         b.text = blk[prog[c].slot].text,
         \/ p.pc = "gone"
         \/ /\ p.slot = prog[c].slot /\ p.taken = prog[c].taken /\ p.copies = prog[c].copies /\ prog[c].pc # "copied"
            /\ p.pc \notin Drawing \cup {"none", "took", "copied"},
         b.exited => blk[prog[c].slot].exited \/ p.pc \in {"left", "gone"}
  PROVE  HostedInv'
<1>1. Shared(b, p, c)
  BY ZenonT(60), ProgramHas, SharedSame DEF Drawing, Away
<1>2. wnd.pc # "closed" /\ wnd.slot = prog[c].slot => Looks(b, p, wnd, c)
  BY Zenon, ProgramHas, LooksSame DEF Drawing, Away
<1> QED
  BY <1>1, <1>2, ProgramKeeps DEF Away

\* The program's steps that are plain.
LEMMA GoesOn ==
  ASSUME HostedSizes, HostedInv, NEW c \in Hosted!Launches, prog[c].pc \notin Away \cup {"copied"}, UNCHANGED blk, Hosted!Others,
         NEW pc \in {"poll", "input", "draw", "copy", "leave"}, Hosted!Step(c, pc)
  PROVE  HostedInv'
<1> DEFINE p == [prog[c] EXCEPT !.pc = pc]
<1>1. /\ p \in ProgramType /\ p.slot = prog[c].slot /\ p.taken = prog[c].taken /\ p.copies = prog[c].copies
      /\ p.pc = pc
  BY ProgramHas DEF ProgramType, Away
<1>2. prog' = [prog EXCEPT ![c] = p] /\ blk' = [blk EXCEPT ![prog[c].slot] = blk[prog[c].slot]]
  BY ProgramHas DEF Hosted!Step, HostedInv, HostedTypes, Away
<1> HIDE DEF p
<1> QED
  BY ZenonT(60), <1>1, <1>2, ProgramHas, PlainKeeps DEF Hosted!Others, Away, Drawing

LEMMA GoneIs == Hosted!Gone \in ProgramType /\ Hosted!Gone.pc = "gone"
<1>1. <<"none", 0>> \in Commands /\ << >> \in Seq(Commands)
  BY SMTT(60) DEF Commands
<1> QED
  BY <1>1 DEF Hosted!Gone, ProgramType, Away

\* The same with a word in the block.
LEMMA SaysKeeps ==
  ASSUME HostedSizes, HostedInv, NEW c \in Hosted!Launches, prog[c].pc \notin Away \cup {"copied"}, Hosted!Others,
         NEW pc \in {"poll", "leave", "left", "serial"}, Hosted!Step(c, pc), NEW b \in BlockType,
         blk' = [blk EXCEPT ![prog[c].slot] = b],
         b.frames = blk[prog[c].slot].frames, b.head = blk[prog[c].slot].head, b.tail = blk[prog[c].slot].tail,
         b.cells = blk[prog[c].slot].cells, b.queued = blk[prog[c].slot].queued, b.copy = blk[prog[c].slot].copy,
         b.text = blk[prog[c].slot].text, b.exited => blk[prog[c].slot].exited \/ pc = "left"
  PROVE  HostedInv'
<1> DEFINE p == [prog[c] EXCEPT !.pc = pc]
<1>1. /\ p \in ProgramType /\ p.slot = prog[c].slot /\ p.taken = prog[c].taken /\ p.copies = prog[c].copies
      /\ p.pc = pc
  BY ProgramHas DEF ProgramType, Away
<1>2. prog' = [prog EXCEPT ![c] = p]
  BY DEF Hosted!Step
<1> HIDE DEF p
<1>3. \/ p.pc = "gone"
      \/ /\ p.slot = prog[c].slot /\ p.taken = prog[c].taken /\ p.copies = prog[c].copies /\ prog[c].pc # "copied"
         /\ p.pc \notin Drawing \cup {"none", "took", "copied"}
  BY Zenon, <1>1 DEF Drawing
<1>4. b.exited => blk[prog[c].slot].exited \/ p.pc \in {"left", "gone"}
  BY <1>1
<1>5. prog[c].pc \notin Away /\ UNCHANGED <<slot, wnd, count>>
  BY DEF Hosted!Others
<1> QED
  BY <1>1, <1>2, <1>3, <1>4, <1>5, PlainKeeps

LEMMA TimeOutKeeps ==
  ASSUME HostedSizes, HostedInv, NEW c \in Hosted!Launches, Hosted!TimeOut(c) \/ Hosted!NoCopy(c) \/ Hosted!Leave(c)
  PROVE  HostedInv'
<1> DEFINE b == blk[prog[c].slot]
           said(x) == [b EXCEPT !.error = x]
           called(x) == [b EXCEPT !.attention = x]
           left == [b EXCEPT !.exited = TRUE]
<1>1. prog[c].pc \in {"poll", "copy", "leave"} /\ prog[c].pc \notin Away \cup {"copied"} /\ Hosted!Others
  BY DEF Hosted!TimeOut, Hosted!NoCopy, Hosted!Leave, Hosted!Is, Away
<1>2. b \in BlockType
  BY SMTT(60), <1>1, ProgramHas
<1>3. CASE Hosted!TimeOut(c)
  <2>1. Hosted!Step(c, "leave") /\ blk' = [blk EXCEPT ![prog[c].slot] = said(TRUE)]
    BY <1>3 DEF Hosted!TimeOut
  <2>2. /\ said(TRUE) \in BlockType /\ said(TRUE).frames = b.frames /\ said(TRUE).head = b.head /\ said(TRUE).tail = b.tail
        /\ said(TRUE).cells = b.cells /\ said(TRUE).queued = b.queued /\ said(TRUE).copy = b.copy
        /\ said(TRUE).text = b.text /\ said(TRUE).exited = b.exited
    BY <1>2 DEF BlockType
  <2> HIDE DEF said
  <2> QED
    BY <1>1, <2>1, <2>2, SaysKeeps
<1>4. CASE Hosted!NoCopy(c)
  <2>1. PICK x \in {TRUE, b.attention} : blk' = [blk EXCEPT ![prog[c].slot].attention = x]
    BY <1>4 DEF Hosted!NoCopy, Hosted!P
  <2>2. Hosted!Step(c, "poll") /\ blk' = [blk EXCEPT ![prog[c].slot] = called(x)]
    BY <1>4, <2>1 DEF Hosted!NoCopy
  <2>3. /\ called(x) \in BlockType /\ called(x).frames = b.frames /\ called(x).head = b.head /\ called(x).tail = b.tail
        /\ called(x).cells = b.cells /\ called(x).queued = b.queued /\ called(x).copy = b.copy
        /\ called(x).text = b.text /\ called(x).exited = b.exited
    BY <1>2 DEF BlockType
  <2> HIDE DEF called
  <2> QED
    BY <1>1, <2>2, <2>3, SaysKeeps
<1>5. CASE Hosted!Leave(c)
  <2>1. Hosted!Step(c, "left") /\ blk' = [blk EXCEPT ![prog[c].slot] = left]
    BY <1>5 DEF Hosted!Leave
  <2>2. /\ left \in BlockType /\ left.frames = b.frames /\ left.head = b.head /\ left.tail = b.tail
        /\ left.cells = b.cells /\ left.queued = b.queued /\ left.copy = b.copy /\ left.text = b.text
    BY <1>2 DEF BlockType
  <2> HIDE DEF left
  <2> QED
    BY <1>1, <2>1, <2>2, SaysKeeps
<1> QED
  BY SMTT(60), <1>3, <1>4, <1>5

LEMMA CommitKeeps ==
  ASSUME HostedSizes, HostedInv, NEW c \in Hosted!Launches, Hosted!CommitFront(c) \/ Hosted!CommitSerial(c) PROVE HostedInv'
<1> DEFINE b == blk[prog[c].slot]
           turned == [b EXCEPT !.front = prog[c].back]
           counted == [b EXCEPT !.frame = b.frames[prog[c].back].serial]
<1>1. prog[c].pc \in {"front", "serial"} /\ prog[c].pc \notin Away \cup {"copied"} /\ Hosted!Others
  BY DEF Hosted!CommitFront, Hosted!CommitSerial, Hosted!Is, Away
<1>2. b \in BlockType /\ prog[c].back \in 0 .. 1
  BY SMTT(60), <1>1, ProgramHas DEF ProgramType
<1>3. b.frames[prog[c].back].serial \in Nat
  BY <1>2 DEF BlockType, FrameType
<1>4. CASE Hosted!CommitFront(c)
  <2>1. Hosted!Step(c, "serial") /\ blk' = [blk EXCEPT ![prog[c].slot] = turned]
    BY <1>4 DEF Hosted!CommitFront
  <2>2. /\ turned \in BlockType /\ turned.frames = b.frames /\ turned.head = b.head /\ turned.tail = b.tail
        /\ turned.cells = b.cells /\ turned.queued = b.queued /\ turned.copy = b.copy /\ turned.text = b.text
        /\ turned.exited = b.exited
    BY SMTT(60), <1>2 DEF BlockType
  <2> HIDE DEF turned
  <2> QED
    BY <1>1, <2>1, <2>2, SaysKeeps
<1>5. CASE Hosted!CommitSerial(c)
  <2>1. Hosted!Step(c, "poll") /\ blk' = [blk EXCEPT ![prog[c].slot] = counted]
    BY <1>5 DEF Hosted!CommitSerial, Hosted!P
  <2>2. /\ counted \in BlockType /\ counted.frames = b.frames /\ counted.head = b.head /\ counted.tail = b.tail
        /\ counted.cells = b.cells /\ counted.queued = b.queued /\ counted.copy = b.copy /\ counted.text = b.text
        /\ counted.exited = b.exited
    BY <1>2, <1>3 DEF BlockType
  <2> HIDE DEF counted
  <2> QED
    BY <1>1, <2>1, <2>2, SaysKeeps
<1> QED
  BY <1>4, <1>5

LEMMA CrashKeeps ==
  ASSUME HostedSizes, HostedInv, NEW c \in Hosted!Launches, Hosted!Crash(c) PROVE HostedInv'
<1> DEFINE b == blk[prog[c].slot]
           said(x) == [b EXCEPT !.error = x]
<1>1. prog[c].pc \notin Away /\ UNCHANGED <<slot, wnd, count>> /\ prog' = [prog EXCEPT ![c] = Hosted!Gone]
  BY DEF Hosted!Crash, Hosted!Touches, Hosted!Others, Away
<1>2. b \in BlockType
  BY <1>1, ProgramHas
<1>3. PICK x \in {TRUE, b.error} : blk' = [blk EXCEPT ![prog[c].slot] = said(x)]
  BY DEF Hosted!Crash, Hosted!P
<1>4. /\ said(x) \in BlockType /\ said(x).frames = b.frames /\ said(x).head = b.head /\ said(x).tail = b.tail
      /\ said(x).cells = b.cells /\ said(x).queued = b.queued /\ said(x).copy = b.copy
      /\ said(x).text = b.text /\ said(x).exited = b.exited
  BY <1>2 DEF BlockType
<1> HIDE DEF said
<1> QED
  BY <1>1, <1>3, <1>4, GoneIs, PlainKeeps

\* A program that is gone for good, whether it said so or not, and no block changes.
LEMMA GoneKeeps ==
  ASSUME HostedSizes, HostedInv, NEW c \in Hosted!Launches, prog[c].pc # "none", UNCHANGED <<blk, slot, count>>,
         prog' = [prog EXCEPT ![c] = Hosted!Gone],
         wnd' \in WindowType, wnd'.pc # "closed" <=> wnd.pc # "closed", wnd'.slot = wnd.slot, wnd'.ended = wnd.ended,
         wnd.pc # "closed" => \A p \in ProgramType, h \in Nat : Looks(blk[wnd.slot], p, wnd, h) => Looks(blk[wnd.slot], p, wnd', h)
  PROVE  HostedInv'
<1>1. prog'[c] = Hosted!Gone /\ \A h \in Hosted!Launches : h # c => prog'[h] = prog[h]
  BY DEF HostedInv, HostedTypes
<1>2. HostedTypes'
  BY GoneIs DEF HostedInv, HostedTypes
<1>3. MaxLaunches \in Nat
  BY DEF HostedSizes
<1>4. SlotOwned'
  BY <1>1, <1>3, GoneIs DEF HostedInv, SlotOwned, Hosted!Launches, Away
<1>5. \A s \in HostedSlots : slot[s].child # 0 => slot[s].child \in Hosted!Launches
  BY <1>3 DEF HostedInv, SlotOwned, Hosted!Launches
<1>6. ASSUME NEW s \in HostedSlots, slot'[s].child # 0 PROVE Shared(blk'[s], prog'[slot'[s].child], slot'[s].child)
  <2>1. Shared(blk[s], prog[slot[s].child], slot[s].child)
    BY SMTT(60), <1>6 DEF HostedInv
  <2> QED
    BY <1>1, <1>5, <1>6, <2>1, GoneIs DEF Shared, Away
<1>7. ASSUME wnd'.pc # "closed" PROVE Looks(blk'[wnd'.slot], prog'[slot'[wnd'.slot].child], wnd', slot'[wnd'.slot].child)
  <2> DEFINE h == slot[wnd.slot].child
  <2>1. wnd.slot \in HostedSlots /\ h \in Hosted!Launches /\ h \in Nat /\ prog[h] \in ProgramType
    BY <1>5, <1>7 DEF HostedInv, SlotOwned, HostedTypes
  <2>2. Looks(blk[wnd.slot], prog[h], wnd, h)
    BY <1>7 DEF HostedInv
  <2>3. Looks(blk[wnd.slot], prog[h], wnd', h)
    BY <1>7, <2>1, <2>2
  <2> QED
    BY <1>1, <2>1, <2>3, GoneIs DEF Looks, Away
<1> QED
  BY <1>2, <1>4, <1>6, <1>7 DEF HostedInv

LEMMA EndKeeps ==
  ASSUME HostedSizes, HostedInv, NEW c \in Hosted!Launches, Hosted!Exit(c) PROVE HostedInv'
<1>1. prog[c].pc # "none" /\ UNCHANGED <<blk, slot, wnd, count>> /\ prog' = [prog EXCEPT ![c] = Hosted!Gone]
  BY DEF Hosted!Exit, Hosted!Is, Hosted!Others
<1>2. wnd' \in WindowType
  BY <1>1 DEF HostedInv, HostedTypes
<1> QED
  BY <1>1, <1>2, GoneKeeps

\* Next(): the oldest command that waits.
LEMMA TookKeeps ==
  ASSUME HostedSizes, HostedInv, NEW c \in Hosted!Launches, Hosted!Took(c) PROVE HostedInv'
<1> DEFINE b == blk[prog[c].slot]
           p == prog[c]
           n == Len(p.taken)
           k == Len(b.queued)
<1>1. p.pc = "input" /\ p.pc \notin Away /\ b.head # b.tail /\ UNCHANGED <<slot, wnd, count>>
  BY DEF Hosted!Took, Hosted!Is, Hosted!P, Hosted!Others, Away
<1>2. b \in BlockType /\ p \in ProgramType /\ RingOk(b, p)
  BY <1>1, ProgramHas
<1>3. n \in Nat /\ k \in Nat
  BY SMTT(60), <1>2 DEF BlockType, ProgramType
<1>4. /\ n <= k /\ k <= n + Queue /\ b.head = k % IndexMod /\ b.tail = n % IndexMod
      /\ \A i \in n + 1 .. k : b.cells[(i - 1) % Queue] = b.queued[i]
  BY <1>2 DEF RingOk
<1>5. Queue \in Nat \ {0} /\ IndexMod \in Nat \ {0} /\ IndexMod > Queue /\ \E j \in Nat : IndexMod = Queue * j
  BY DEF HostedSizes
<1> HIDE DEF n, k
<1>6. (b.head - b.tail) % IndexMod = k - n
  <2>1. k - n < IndexMod
    BY <1>3, <1>4, <1>5
  <2>2. ((k % IndexMod) - (n % IndexMod)) % IndexMod = k - n
    BY <1>3, <1>4, <1>5, <2>1, IndexMinus
  <2> QED
    BY <1>4, <2>2
<1>7. b.tail % Queue = n % Queue
  <2>1. PICK j \in Nat : IndexMod = Queue * j
    BY <1>5
  <2>2. (n % IndexMod) % Queue = n % Queue
    BY ZenonT(60), <1>3, <1>5, <2>1, CellOf
  <2> QED
    BY <1>4, <2>2
<1>8. n < k
  BY <1>1, <1>3, <1>4 DEF n, k
<1>9. b.cells[n % Queue] = b.queued[n + 1] /\ b.queued[n + 1] \in Commands
  <2>1. n + 1 \in n + 1 .. k /\ (n + 1) - 1 = n /\ n + 1 \in 1 .. k
    BY <1>3, <1>8
  <2>2. b.queued \in Seq(Commands)
    BY <1>2 DEF BlockType
  <2> QED
    BY <1>4, <2>1, <2>2 DEF k
<1> DEFINE q == [p EXCEPT !.pc = "took", !.cmd = b.cells[b.tail % Queue]]
<1>10. prog' = [prog EXCEPT ![c] = q] /\ UNCHANGED blk
  <2>1. ~((b.head - b.tail) % IndexMod > Queue)
    BY <1>3, <1>4, <1>5, <1>6
  <2> QED
    BY <2>1 DEF Hosted!Took, Hosted!P
<1>11. /\ q \in ProgramType /\ q.pc = "took" /\ q.slot = p.slot /\ q.taken = p.taken /\ q.copies = p.copies
       /\ q.cmd = b.queued[n + 1]
  BY <1>2, <1>7, <1>9 DEF ProgramType
<1>12. blk' = [blk EXCEPT ![p.slot] = b]
  BY <1>10 DEF HostedInv, HostedTypes
<1> HIDE DEF q
<1>13. Shared(b, q, c)
  <2>1. RingOk(b, q)
    BY <1>2, <1>8, <1>11 DEF RingOk, n, k
  <2>2. Shared(b, p, c)
    BY <1>1, ProgramHas
  <2> QED
    BY ZenonT(60), <1>11, <2>1, <2>2 DEF Shared, DrawOk, Drawing
<1>14. wnd.pc # "closed" /\ wnd.slot = p.slot => Looks(b, q, wnd, c)
  BY Zenon, <1>1, <1>11, ProgramHas, LooksSame
<1> HIDE DEF b
<1>15. b \in BlockType /\ b.exited => blk[p.slot].exited
  BY DEF b
<1> QED
  BY <1>1, <1>2, <1>10, <1>11, <1>12, <1>13, <1>14, <1>15, ProgramKeeps

\* ... whose cell the window may fill again.
LEMMA TakenKeeps ==
  ASSUME HostedSizes, HostedInv, NEW c \in Hosted!Launches, Hosted!Took2(c) PROVE HostedInv'
<1> DEFINE b == blk[prog[c].slot]
           p == prog[c]
           n == Len(p.taken)
           k == Len(b.queued)
           d == [b EXCEPT !.tail = (b.tail + 1) % IndexMod]
           q == [p EXCEPT !.pc = "input", !.taken = Append(p.taken, p.cmd)]
<1>1. p.pc = "took" /\ p.pc \notin Away /\ UNCHANGED <<slot, wnd, count>>
  BY DEF Hosted!Took2, Hosted!Is, Hosted!Others, Away
<1>2. b \in BlockType /\ p \in ProgramType /\ RingOk(b, p)
  BY <1>1, ProgramHas
<1>3. /\ p.taken \in Seq(Commands) /\ p.cmd \in Commands /\ n \in Nat /\ k \in Nat /\ b.tail \in Nat
  BY SMTT(60), <1>2 DEF BlockType, ProgramType
<1>4. Queue \in Nat \ {0} /\ IndexMod \in Nat \ {0}
  BY DEF HostedSizes
<1>5. blk' = [blk EXCEPT ![p.slot] = d] /\ prog' = [prog EXCEPT ![c] = q]
  BY DEF Hosted!Took2
<1>6. /\ d \in BlockType /\ d.frames = b.frames /\ d.head = b.head /\ d.tail = (b.tail + 1) % IndexMod
      /\ d.cells = b.cells /\ d.queued = b.queued /\ d.copy = b.copy /\ d.text = b.text /\ d.exited = b.exited
      /\ d.frame = b.frame
  <2>1. (b.tail + 1) % IndexMod \in Nat
    BY <1>3, <1>4
  <2> QED
    BY <1>2, <2>1 DEF BlockType
<1>7. /\ q \in ProgramType /\ q.pc = "input" /\ q.slot = p.slot /\ q.taken = Append(p.taken, p.cmd) /\ q.copies = p.copies
  <2>1. Append(p.taken, p.cmd) \in Seq(Commands)
    BY <1>3
  <2> QED
    BY <1>2, <2>1 DEF ProgramType
<1>8. Len(q.taken) = n + 1 /\ (\A i \in 1 .. n : q.taken[i] = p.taken[i]) /\ q.taken[n + 1] = p.cmd
  BY <1>3, <1>7
<1> HIDE DEF d, q
<1>9. RingOk(d, q)
  <2>1. /\ n <= k /\ k <= n + Queue /\ b.head = k % IndexMod /\ b.tail = n % IndexMod
        /\ (\A i \in 1 .. n : p.taken[i] = b.queued[i])
        /\ (\A i \in n + 1 .. k : b.cells[(i - 1) % Queue] = b.queued[i])
        /\ n < k /\ p.cmd = b.queued[n + 1]
    BY SMTT(60), <1>1, <1>2 DEF RingOk
  <2>2. d.tail = (n + 1) % IndexMod
    BY <1>3, <1>4, <1>6, <2>1, IndexPlus
  <2>3. \A i \in 1 .. n + 1 : q.taken[i] = d.queued[i]
    <3>1. n + 1 \in Nat /\ \A i \in 1 .. n + 1 : i \in 1 .. n \/ i = n + 1
      BY <1>3
    <3> QED
      BY SMTT(60), <1>6, <1>8, <2>1, <3>1
  <2>4. n + 1 <= k /\ k <= (n + 1) + Queue
    BY SMTT(60), <1>3, <1>4, <2>1
  <2>5. \A i \in (n + 1) + 1 .. k : d.cells[(i - 1) % Queue] = d.queued[i]
    BY SMTT(60), <1>3, <1>6, <2>1
  <2>6. d.head = k % IndexMod /\ Len(d.queued) = k /\ Len(q.taken) = n + 1 /\ q.pc # "took"
    BY <1>6, <1>7, <1>8, <2>1
  <2> HIDE DEF n, k
  <2> QED
    BY SMTT(60), <2>2, <2>3, <2>4, <2>5, <2>6 DEF RingOk
<1>10. Shared(d, q, c)
  <2>1. Shared(b, p, c)
    BY <1>1, ProgramHas
  <2> QED
    BY Zenon, <1>6, <1>7, <1>9, <2>1 DEF Shared, FramesOk, DrawOk, Drawing
<1>11. ASSUME wnd.pc # "closed" /\ wnd.slot = p.slot PROVE Looks(d, q, wnd, c)
  <2>1. Looks(b, p, wnd, c)
    BY <1>1, <1>11, ProgramHas
  <2>2. ReadOk(d, wnd, c) /\ SizeOk(d, wnd) /\ ClipOk(d, wnd)
    BY Zenon, <1>6, <2>1 DEF Looks, ReadOk, SizeOk, ClipOk
  <2>3. CopyOk(d, q, wnd)
    BY <1>1, <1>6, <1>7, <2>1 DEF Looks, CopyOk
  <2>4. SendOk(d, q, wnd)
    <3>1. SendOk(b, p, wnd)
      BY <1>1, <2>1 DEF Looks
    <3>2. k < n + Queue => k < (n + 1) + Queue
      BY SMTT(30), <1>3, <1>4
    <3> QED
      BY <1>6, <1>8, <3>1, <3>2 DEF SendOk
  <2> QED
    BY <2>2, <2>3, <2>4 DEF Looks
<1> QED
  BY <1>1, <1>5, <1>6, <1>7, <1>10, <1>11, ProgramKeeps

LEMMA Bits == {0, 1} = 0 .. 1
  OBVIOUS

\* A block with another frame at i.
LEMMA FrameSet ==
  ASSUME NEW b \in BlockType, NEW i \in 0 .. 1, NEW f \in FrameType
  PROVE  LET d == [b EXCEPT !.frames[i] = f]
         IN  /\ d \in BlockType /\ d.frames[i] = f /\ (\A j \in 0 .. 1 : j # i => d.frames[j] = b.frames[j])
             /\ d.frame = b.frame /\ d.head = b.head /\ d.tail = b.tail /\ d.cells = b.cells /\ d.queued = b.queued
             /\ d.copy = b.copy /\ d.text = b.text /\ d.exited = b.exited
<1>1. b.frames \in [0 .. 1 -> FrameType]
  BY DEF BlockType
<1> DEFINE F2 == [b.frames EXCEPT ![i] = f]
<1>2. F2 \in [0 .. 1 -> FrameType] /\ F2[i] = f /\ \A j \in 0 .. 1 : j # i => F2[j] = b.frames[j]
  BY <1>1
<1> HIDE DEF F2
<1>3. /\ [b EXCEPT !.frames = F2] \in BlockType /\ [b EXCEPT !.frames = F2].frames = F2
      /\ [b EXCEPT !.frames = F2].frame = b.frame /\ [b EXCEPT !.frames = F2].head = b.head
      /\ [b EXCEPT !.frames = F2].tail = b.tail /\ [b EXCEPT !.frames = F2].cells = b.cells
      /\ [b EXCEPT !.frames = F2].queued = b.queued /\ [b EXCEPT !.frames = F2].copy = b.copy
      /\ [b EXCEPT !.frames = F2].text = b.text /\ [b EXCEPT !.frames = F2].exited = b.exited
  BY <1>2 DEF BlockType
<1>4. [b EXCEPT !.frames[i] = f] = [b EXCEPT !.frames = F2]
  BY DEF F2
<1> QED
  BY ZenonT(60), <1>2, <1>3, <1>4

\* The program changes a frame that the window does not read.
LEMMA DrawKeeps ==
  ASSUME HostedSizes, HostedInv, NEW c \in Hosted!Launches, prog[c].pc \notin Away \cup {"copied", "took"},
         NEW p \in ProgramType, NEW i \in 0 .. 1, NEW f \in FrameType,
         UNCHANGED <<slot, wnd, count>>, prog' = [prog EXCEPT ![c] = p],
         blk' = [blk EXCEPT ![prog[c].slot] = [blk[prog[c].slot] EXCEPT !.frames[i] = f]],
         p.pc \notin Away \cup {"copied", "took"}, p.slot = prog[c].slot, p.taken = prog[c].taken, p.copies = prog[c].copies,
         blk[prog[c].slot].frames[i].state # "reading",
         f.state # "writing" => WholeFrame(f, c),
         p.pc \in Drawing => /\ p.back = i /\ f.state = "writing"
                             /\ p.pc = "right half" => f.px.left = <<c, blk[prog[c].slot].frame + 1>>
                             /\ p.pc = "ready" => WholeFrame(f, c)
  PROVE  HostedInv'
<1> DEFINE b == blk[prog[c].slot]
           d == [b EXCEPT !.frames[i] = f]
<1>1. prog[c].pc \notin Away /\ b \in BlockType /\ Shared(b, prog[c], c)
  BY Zenon, ProgramHas
<1>2. /\ d \in BlockType /\ d.frames[i] = f /\ (\A j \in 0 .. 1 : j # i => d.frames[j] = b.frames[j])
      /\ d.frame = b.frame /\ d.head = b.head /\ d.tail = b.tail /\ d.cells = b.cells /\ d.queued = b.queued
      /\ d.copy = b.copy /\ d.text = b.text /\ d.exited = b.exited
  <2> HIDE DEF b
  <2> QED
    BY ZenonT(60), <1>1, FrameSet
<1> HIDE DEF d
<1>3. FramesOk(d, c)
  <2>1. ASSUME NEW j \in {0, 1}, d.frames[j].state # "writing" PROVE WholeFrame(d.frames[j], c)
    <3>1. b.frames[j].state # "writing" => WholeFrame(b.frames[j], c)
      BY Zenon, <1>1 DEF Shared, FramesOk
    <3>4. j \in 0 .. 1
      BY Zenon, Bits
    <3>2. CASE j = i
      BY Zenon, <1>2, <2>1, <3>2
    <3>3. CASE j # i
      BY Zenon, <1>2, <2>1, <3>1, <3>3, <3>4
    <3> QED
      BY Zenon, <3>2, <3>3
  <2> QED
    BY Zenon, <2>1 DEF FramesOk
<1>4. RingOk(d, p)
  <2>1. RingOk(b, prog[c])
    BY Zenon, <1>1 DEF Shared
  <2> QED
    BY ZenonT(60), <1>2, <2>1 DEF RingOk
<1>5. DrawOk(d, p, c)
  BY Zenon, <1>2 DEF DrawOk
<1>6. ASSUME wnd.pc # "closed" /\ wnd.slot = prog[c].slot PROVE Looks(d, p, wnd, c)
  <2>1. Looks(b, prog[c], wnd, c) /\ wnd \in WindowType
    BY Zenon, <1>1, <1>6, ProgramHas
  <2>2. wnd.pc \in {"left half", "right half", "painted"} => d.frames[wnd.front] = b.frames[wnd.front]
    <3>1. wnd.pc \in {"left half", "right half", "painted"} => wnd.front \in {0, 1} /\ b.frames[wnd.front].state = "reading"
      BY Zenon, <2>1 DEF Looks, ReadOk
    <3>2. wnd.pc \in {"left half", "right half", "painted"} => wnd.front \in 0 .. 1 /\ wnd.front # i
      BY Zenon, <3>1, Bits
    <3> QED
      BY Zenon, <1>2, <3>2
  <2> QED
    BY Zenon, <1>1, <1>2, <2>1, <2>2, LooksSame
<1>7. Shared(d, p, c)
  BY Zenon, <1>3, <1>4, <1>5 DEF Shared
<1>8. blk' = [blk EXCEPT ![prog[c].slot] = d] /\ (d.exited => blk[prog[c].slot].exited) /\ p.pc # "none"
  BY Zenon, <1>2 DEF d, Away
<1> QED
  BY Zenon, <1>1, <1>2, <1>6, <1>7, <1>8, ProgramKeeps

LEMMA BeginKeeps ==
  ASSUME HostedSizes, HostedInv, NEW c \in Hosted!Launches, Hosted!Begin(c) PROVE HostedInv'
<1> DEFINE b == blk[prog[c].slot]
           i == IF b.front = 0 THEN 1 ELSE 0
           f == [b.frames[i] EXCEPT !.state = "writing"]
           p == [prog[c] EXCEPT !.pc = "left half", !.back = i]
<1>1. prog[c].pc = "draw" /\ prog[c].pc \notin Away \cup {"copied", "took"} /\ Hosted!Others
  BY Zenon DEF Hosted!Begin, Hosted!Is, Away
<1>2. b \in BlockType /\ prog[c] \in ProgramType /\ i \in 0 .. 1
  BY <1>1, ProgramHas
<1>3. b.frames[i] \in FrameType
  BY <1>2 DEF BlockType
<1>4. CASE Hosted!Claimed(b.frames[i])
  <2>1. prog' = [prog EXCEPT ![c] = p] /\ blk' = [blk EXCEPT ![prog[c].slot] = [b EXCEPT !.frames[i] = f]]
    BY Zenon, <1>4 DEF Hosted!Begin, Hosted!P
  <2>2. /\ p \in ProgramType /\ p.pc = "left half" /\ p.back = i /\ p.slot = prog[c].slot /\ p.taken = prog[c].taken
        /\ p.copies = prog[c].copies
    BY ZenonT(60), <1>2 DEF ProgramType, Drawing
  <2>3. f \in FrameType /\ f.state = "writing" /\ b.frames[i].state # "reading"
    BY <1>3, <1>4 DEF FrameType, Hosted!Claimed
  <2>4. UNCHANGED <<slot, wnd, count>> /\ p.pc \notin Away \cup {"copied", "took"} /\ p.pc # "right half" /\ p.pc # "ready"
    BY <1>1, <2>2 DEF Hosted!Others, Away
  <2> HIDE DEF i, f, p
  <2> QED
    BY Zenon, <1>1, <1>2, <2>1, <2>2, <2>3, <2>4, DrawKeeps
<1>5. CASE ~Hosted!Claimed(b.frames[i])
  <2>1. Hosted!Step(c, "poll") /\ UNCHANGED blk
    BY SMTT(60), <1>5 DEF Hosted!Begin, Hosted!P
  <2> QED
    BY <1>1, <2>1, GoesOn
<1> QED
  BY <1>4, <1>5

LEMMA DrawsKeep ==
  ASSUME HostedSizes, HostedInv, NEW c \in Hosted!Launches,
         Hosted!DrawLeft(c) \/ Hosted!DrawRight(c) \/ Hosted!CommitReady(c)
  PROVE  HostedInv'
<1> DEFINE b == blk[prog[c].slot]
           i == prog[c].back
           g == b.frames[i]
           moved(pc) == [prog[c] EXCEPT !.pc = pc]
           now == <<c, b.frame + 1>>
<1>1. /\ prog[c].pc \in Drawing /\ prog[c].pc \notin Away \cup {"copied", "took"} /\ UNCHANGED <<slot, wnd, count>>
      /\ prog[c].pc \notin Away
  BY DEF Hosted!DrawLeft, Hosted!DrawRight, Hosted!CommitReady, Hosted!Is, Hosted!Others, Away, Drawing
<1>2. b \in BlockType /\ prog[c] \in ProgramType /\ i \in 0 .. 1 /\ DrawOk(b, prog[c], c) /\ c \in Nat
  BY <1>1, ProgramHas DEF ProgramType
<1>3. g \in FrameType /\ b.frame \in Nat
  BY <1>2 DEF BlockType
<1>4. g.state = "writing" /\ (prog[c].pc = "right half" => g.px.left = now) /\ (prog[c].pc = "ready" => WholeFrame(g, c))
  BY Zenon, <1>1, <1>2 DEF DrawOk
<1>5. now \in Nat \X Nat
  BY <1>2, <1>3
<1>6. ASSUME NEW pc \in {"right half", "ready", "front"}
      PROVE  /\ moved(pc) \in ProgramType /\ moved(pc).pc = pc /\ moved(pc).back = i /\ moved(pc).slot = prog[c].slot
             /\ moved(pc).taken = prog[c].taken /\ moved(pc).copies = prog[c].copies
             /\ moved(pc).pc \notin Away \cup {"copied", "took"}
  BY Zenon, <1>2 DEF ProgramType, Drawing, Away
<1>7. ASSUME NEW f \in FrameType, NEW pc \in {"right half", "ready", "front"},
             prog' = [prog EXCEPT ![c] = moved(pc)], blk' = [blk EXCEPT ![prog[c].slot] = [b EXCEPT !.frames[i] = f]],
             pc = "right half" => f.state = "writing" /\ f.px.left = now,
             pc = "ready" => f.state = "writing" /\ WholeFrame(f, c),
             pc = "front" => WholeFrame(f, c)
      PROVE  HostedInv'
  <2> DEFINE p == moved(pc)
  <2>1. /\ p \in ProgramType /\ p.pc = pc /\ p.back = i /\ p.slot = prog[c].slot
        /\ p.taken = prog[c].taken /\ p.copies = prog[c].copies /\ p.pc \notin Away \cup {"copied", "took"}
    BY Zenon, <1>6
  <2>2. prog' = [prog EXCEPT ![c] = p]
    BY Zenon, <1>7
  <2> HIDE DEF p
  <2>3. g.state # "reading" /\ (f.state # "writing" => WholeFrame(f, c))
    BY Zenon, <1>4, <1>7
  <2>4. p.pc \in Drawing => /\ p.back = i /\ f.state = "writing"
                            /\ p.pc = "right half" => f.px.left = now
                            /\ p.pc = "ready" => WholeFrame(f, c)
    BY Zenon, <1>7, <2>1 DEF Drawing
  <2> HIDE DEF moved
  <2> QED
    BY ZenonT(60), <1>1, <1>2, <1>7, <2>1, <2>2, <2>3, <2>4, DrawKeeps
<1>8. CASE Hosted!DrawLeft(c)
  <2> DEFINE f == [g EXCEPT !.px.left = now]
  <2>1. prog' = [prog EXCEPT ![c] = moved("right half")] /\ blk' = [blk EXCEPT ![prog[c].slot] = [b EXCEPT !.frames[i] = f]]
    BY ZenonT(60), <1>8 DEF Hosted!DrawLeft, Hosted!Step, Hosted!P, Hosted!Picture
  <2>2. f \in FrameType /\ f.state = "writing" /\ f.px.left = now
    BY <1>3, <1>4, <1>5 DEF FrameType, PixelType
  <2> HIDE DEF f, moved
  <2> QED
    BY Zenon, <1>7, <2>1, <2>2
<1>9. CASE Hosted!DrawRight(c)
  <2> DEFINE f == [g EXCEPT !.px.right = now, !.serial = b.frame + 1]
  <2>1. prog' = [prog EXCEPT ![c] = moved("ready")] /\ blk' = [blk EXCEPT ![prog[c].slot] = [b EXCEPT !.frames[i] = f]]
    BY ZenonT(60), <1>9 DEF Hosted!DrawRight, Hosted!Step, Hosted!P, Hosted!Picture
  <2>2. g.px.left = now
    BY ZenonT(60), <1>4, <1>9 DEF Hosted!DrawRight, Hosted!Is
  <2>3. f \in FrameType /\ f.state = "writing" /\ f.px.right = now /\ f.px.left = g.px.left /\ f.serial = b.frame + 1
    BY ZenonT(60), <1>3, <1>4, <1>5 DEF FrameType, PixelType
  <2> HIDE DEF f, moved
  <2>4. WholeFrame(f, c)
    BY <2>2, <2>3 DEF WholeFrame
  <2> QED
    BY Zenon, <1>7, <2>1, <2>3, <2>4
<1>10. CASE Hosted!CommitReady(c)
  <2> DEFINE f == [g EXCEPT !.state = "ready"]
  <2>1. prog' = [prog EXCEPT ![c] = moved("front")] /\ blk' = [blk EXCEPT ![prog[c].slot] = [b EXCEPT !.frames[i] = f]]
    BY SMTT(60), <1>10 DEF Hosted!CommitReady, Hosted!Step
  <2>2. WholeFrame(g, c)
    BY SMTT(60), <1>4, <1>10 DEF Hosted!CommitReady, Hosted!Is
  <2>3. f \in FrameType /\ f.px = g.px /\ f.serial = g.serial
    BY SMTT(60), <1>3 DEF FrameType
  <2> HIDE DEF f, moved
  <2>4. WholeFrame(f, c)
    BY <2>2, <2>3 DEF WholeFrame
  <2> QED
    BY Zenon, <1>7, <2>1, <2>3, <2>4
<1> QED
  BY <1>8, <1>9, <1>10

\* Copy(): the text, and then the word that it is there.
LEMMA CopyKeeps ==
  ASSUME HostedSizes, HostedInv, NEW c \in Hosted!Launches, Hosted!CopyText(c) \/ Hosted!CopyPending(c) PROVE HostedInv'
<1> DEFINE b == blk[prog[c].slot]
           p == prog[c]
           put == [b EXCEPT !.text = p.copies + 1]
           told == [b EXCEPT !.copy = TRUE]
           more == [p EXCEPT !.pc = "copied", !.copies = p.copies + 1]
           done == [p EXCEPT !.pc = "poll"]
<1>1. p.pc \in {"copy", "copied"} /\ p.pc \notin Away /\ UNCHANGED <<slot, wnd, count>>
  BY DEF Hosted!CopyText, Hosted!CopyPending, Hosted!Is, Hosted!Others, Away
<1>2. b \in BlockType /\ p \in ProgramType /\ Shared(b, p, c) /\ p.copies \in Nat
  BY <1>1, ProgramHas DEF ProgramType
<1>3. Len(wnd.clip) \in Nat /\ (wnd.pc # "closed" /\ wnd.slot = p.slot => Looks(b, p, wnd, c))
  <2>1. wnd \in WindowType /\ (wnd.pc # "closed" /\ wnd.slot = p.slot => Looks(b, p, wnd, c))
    BY <1>1, ProgramHas
  <2>2. wnd.clip \in Seq(Nat)
    BY Zenon, <2>1 DEF WindowType
  <2>3. Len(wnd.clip) \in Nat
    BY <2>2
  <2> QED
    BY <2>1, <2>3
<1>4. CASE Hosted!CopyText(c)
  <2>1. blk' = [blk EXCEPT ![p.slot] = put] /\ prog' = [prog EXCEPT ![c] = more] /\ ~b.copy /\ p.pc = "copy"
    BY <1>4 DEF Hosted!CopyText, Hosted!MayCopy, Hosted!P, Hosted!Is
  <2>2. /\ put \in BlockType /\ put.frames = b.frames /\ put.head = b.head /\ put.tail = b.tail /\ put.cells = b.cells
        /\ put.queued = b.queued /\ put.copy = b.copy /\ put.text = p.copies + 1 /\ put.exited = b.exited
    BY SMTT(30), <1>2 DEF BlockType
  <2>3. /\ more \in ProgramType /\ more.pc = "copied" /\ more.slot = p.slot /\ more.taken = p.taken
        /\ more.copies = p.copies + 1
    <3>1. PICK n \in Nat : n = p.copies + 1
      BY <1>2
    <3>2. more = [p EXCEPT !.pc = "copied", !.copies = n]
      BY <3>1
    <3> QED
      BY <1>2, <3>1, <3>2 DEF ProgramType
  <2> HIDE DEF put, more
  <2>4. Shared(put, more, c)
    BY Zenon, <1>1, <1>2, <2>2, <2>3, SharedSame DEF Drawing, Away
  <2>5. ASSUME wnd.pc # "closed" /\ wnd.slot = p.slot PROVE Looks(put, more, wnd, c)
    <3>1. ReadOk(put, wnd, c) /\ SizeOk(put, wnd) /\ ClipOk(put, wnd) /\ SendOk(put, more, wnd)
      BY Zenon, <1>1, <1>3, <2>1, <2>2, <2>3, <2>5 DEF Looks, ReadOk, SizeOk, ClipOk, SendOk
    <3>2. p.copies = Len(wnd.clip)
      BY <1>1, <1>2, <1>3, <2>1, <2>5 DEF Looks, CopyOk
    <3>3. CopyOk(put, more, wnd)
      BY <2>1, <2>2, <2>3, <3>2 DEF CopyOk
    <3> QED
      BY <3>1, <3>3 DEF Looks
  <2> QED
    BY <1>1, <2>1, <2>2, <2>3, <2>4, <2>5, ProgramKeeps
<1>5. CASE Hosted!CopyPending(c)
  <2>1. blk' = [blk EXCEPT ![p.slot] = told] /\ prog' = [prog EXCEPT ![c] = done] /\ p.pc = "copied"
    BY <1>5 DEF Hosted!CopyPending, Hosted!Step, Hosted!Is
  <2>2. /\ told \in BlockType /\ told.frames = b.frames /\ told.head = b.head /\ told.tail = b.tail /\ told.cells = b.cells
        /\ told.queued = b.queued /\ told.copy = TRUE /\ told.text = b.text /\ told.exited = b.exited
    BY <1>2 DEF BlockType
  <2>3. /\ done \in ProgramType /\ done.pc = "poll" /\ done.slot = p.slot /\ done.taken = p.taken
        /\ done.copies = p.copies
    BY <1>2 DEF ProgramType
  <2> HIDE DEF told, done
  <2>4. Shared(told, done, c)
    BY Zenon, <1>1, <1>2, <2>2, <2>3, SharedSame DEF Drawing, Away
  <2>5. ASSUME wnd.pc # "closed" /\ wnd.slot = p.slot PROVE Looks(told, done, wnd, c)
    <3>1. ~b.copy /\ b.text = p.copies /\ p.copies = Len(wnd.clip) + 1 /\ wnd.pc # "copied"
      BY <1>1, <1>3, <2>1, <2>5 DEF Looks, CopyOk, ClipOk
    <3>2. ReadOk(told, wnd, c) /\ SizeOk(told, wnd) /\ SendOk(told, done, wnd)
      BY Zenon, <1>1, <1>3, <2>1, <2>2, <2>3, <2>5 DEF Looks, ReadOk, SizeOk, SendOk
    <3>3. ClipOk(told, wnd)
      BY <1>3, <2>2, <2>5, <3>1 DEF Looks, ClipOk
    <3>4. CopyOk(told, done, wnd)
      BY <2>2, <2>3, <3>1 DEF CopyOk
    <3> QED
      BY <3>2, <3>3, <3>4 DEF Looks
  <2> QED
    BY <1>1, <2>1, <2>2, <2>3, <2>4, <2>5, ProgramKeeps
<1> QED
  BY <1>4, <1>5

LEMMA ProgramStep ==
  ASSUME HostedSizes, HostedInv, NEW c \in Hosted!Launches,
         Hosted!Program(c) \/ Hosted!TimeOut(c) \/ Hosted!Done(c) \/ Hosted!Crash(c)
  PROVE  HostedInv'
<1>1. CASE Hosted!Attach(c) \/ Hosted!Done(c) \/ Hosted!NoDraw(c)
  BY <1>1, GoesOn DEF Hosted!Attach, Hosted!Done, Hosted!NoDraw, Hosted!Is, Away
<1>2. CASE Hosted!Poll(c)
  BY <1>2, GoesOn DEF Hosted!Poll, Hosted!Is, Away
<1>3. CASE Hosted!TurnEnds(c)
  BY SMTT(60), <1>3, GoesOn DEF Hosted!TurnEnds, Hosted!Is, Away
<1> QED
  BY <1>1, <1>2, <1>3, TimeOutKeeps, CommitKeeps, CrashKeeps, EndKeeps, TookKeeps, TakenKeeps, BeginKeeps, DrawsKeep,
     CopyKeeps DEF Hosted!Program

-----------------------------------------------------------------------------
\* The window's side.

LEMMA WindowHas ==
  ASSUME HostedSizes, HostedInv, wnd.pc # "closed"
  PROVE  LET b == blk[wnd.slot]
             h == slot[wnd.slot].child
         IN  /\ wnd \in WindowType /\ wnd.slot \in HostedSlots /\ b \in BlockType /\ h \in Hosted!Launches /\ h \in Nat
             /\ prog[h] \in ProgramType /\ prog[h].pc # "none" /\ Shared(b, prog[h], h) /\ Looks(b, prog[h], wnd, h)
             /\ b.exited => prog[h].pc \in {"left", "gone"}
             /\ wnd.ended => prog[h].pc \in {"left", "gone"}
             /\ blk \in [HostedSlots -> BlockType] /\ ~slot[wnd.slot].orphan
<1> DEFINE b == blk[wnd.slot]
           h == slot[wnd.slot].child
<1>1. MaxLaunches \in Nat
  BY DEF HostedSizes
<1>2. /\ wnd \in WindowType /\ wnd.slot \in HostedSlots /\ b \in BlockType /\ h # 0 /\ ~slot[wnd.slot].orphan
      /\ blk \in [HostedSlots -> BlockType]
  BY DEF HostedInv, HostedTypes, SlotOwned
<1>3. count.started \in 0 .. MaxLaunches /\ h \in 1 .. count.started /\ (b.exited => prog[h].pc \in {"left", "gone"})
  BY <1>2 DEF HostedInv, SlotOwned
<1>4. h \in Hosted!Launches /\ h \in Nat /\ ~(h > count.started)
  BY <1>1, <1>3 DEF Hosted!Launches
<1>5. prog[h] \in ProgramType /\ prog[h].pc # "none"
  BY <1>4 DEF HostedInv, HostedTypes, SlotOwned
<1>6. Shared(b, prog[h], h) /\ Looks(b, prog[h], wnd, h)
  BY <1>2 DEF HostedInv
<1>7. wnd.ended => prog[h].pc \in {"left", "gone"}
  BY DEF HostedInv, SlotOwned
<1> QED
  BY <1>2, <1>3, <1>4, <1>5, <1>6, <1>7

LEMMA NoPixelsIs == Hosted!NoPixels \in PixelType /\ Hosted!NoPixels.left = Hosted!NoPixels.right
  BY DEF Hosted!NoPixels, Hosted!Blank, PixelType

LEMMA RingSame ==
  ASSUME NEW b, NEW d, NEW p, RingOk(b, p), d.head = b.head, d.tail = b.tail, d.cells = b.cells, d.queued = b.queued
  PROVE  RingOk(d, p)
  BY DEF RingOk

\* The window goes on and touches neither the ring, nor the frames, nor the text.
LEMMA WindowPlain ==
  ASSUME HostedSizes, HostedInv, wnd.pc \notin {"closed", "right half", "copied"}, NEW w \in WindowType, NEW b \in BlockType,
         UNCHANGED <<slot, prog, count>>, wnd' = w, blk' = [blk EXCEPT ![wnd.slot] = b],
         w.pc \notin {"closed", "send", "copied", "left half", "right half", "painted"},
         w.pc = "claim" => w.front \in {0, 1},
         w.slot = wnd.slot, w.sent = wnd.sent, w.clip = wnd.clip,
         w.pic = Hosted!NoPixels \/ (w.pic = wnd.pic /\ w.shown = wnd.shown),
         w.ended => wnd.ended \/ prog[slot[wnd.slot].child].pc \in {"left", "gone"}, wnd.ended => w.ended,
         b.frames = blk[wnd.slot].frames, b.head = blk[wnd.slot].head, b.tail = blk[wnd.slot].tail, b.frame = blk[wnd.slot].frame,
         b.cells = blk[wnd.slot].cells, b.queued = blk[wnd.slot].queued, b.copy = blk[wnd.slot].copy,
         b.text = blk[wnd.slot].text, b.exited = blk[wnd.slot].exited
  PROVE  HostedInv'
<1> DEFINE o == blk[wnd.slot]
           h == slot[wnd.slot].child
           p == prog[h]
<1>1. wnd.pc # "closed" /\ Shared(o, p, h) /\ Looks(o, p, wnd, h)
  BY Zenon, WindowHas
<1>2. Shared(b, p, h)
  <2>1. FramesOk(b, h)
    BY Zenon, <1>1 DEF Shared, FramesOk
  <2>2. p.pc \notin Away => RingOk(b, p)
    BY ZenonT(60), <1>1, RingSame DEF Shared
  <2>3. p.pc \notin Away => DrawOk(b, p, h)
    BY <1>1 DEF Shared, DrawOk
  <2> QED
    BY Zenon, <2>1, <2>2, <2>3 DEF Shared
<1>3. ReadOk(b, w, h)
  <2>1. CASE w.pic = Hosted!NoPixels
    <3>1. w.pic.left = w.pic.right
      BY Zenon, <2>1, NoPixelsIs
    <3> QED
      BY Zenon, <2>1, <3>1 DEF ReadOk
  <2>2. CASE w.pic = wnd.pic /\ w.shown = wnd.shown
    <3>1. /\ wnd.pic.left = wnd.pic.right
          /\ wnd.pic # Hosted!NoPixels /\ ~wnd.ended /\ wnd.shown # 0 => wnd.pic.left = <<h, wnd.shown>>
      BY Zenon, <1>1 DEF Looks, ReadOk
    <3> QED
      BY Zenon, <2>2, <3>1 DEF ReadOk
  <2> QED
    BY Zenon, <2>1, <2>2
<1>4. SizeOk(b, w) /\ ClipOk(b, w)
  BY Zenon, <1>1 DEF Looks, SizeOk, ClipOk
<1>5. p.pc \notin Away => SendOk(b, p, w) /\ CopyOk(b, p, w)
  BY Zenon, <1>1 DEF Looks, SendOk, CopyOk
<1>6. Looks(b, p, w, h)
  BY Zenon, <1>3, <1>4, <1>5 DEF Looks
<1> QED
  BY Zenon, <1>1, <1>2, <1>6, WindowKeeps

\* The same with the block left alone.
LEMMA WindowGoesOn ==
  ASSUME HostedSizes, HostedInv, wnd.pc \notin {"closed", "right half", "copied"}, NEW w \in WindowType,
         UNCHANGED <<slot, prog, count, blk>>, wnd' = w,
         w.pc \notin {"closed", "send", "copied", "left half", "right half", "painted"},
         w.pc = "claim" => w.front \in {0, 1},
         w.slot = wnd.slot, w.sent = wnd.sent, w.clip = wnd.clip,
         w.pic = Hosted!NoPixels \/ (w.pic = wnd.pic /\ w.shown = wnd.shown),
         w.ended => wnd.ended \/ prog[slot[wnd.slot].child].pc \in {"left", "gone"}, wnd.ended => w.ended
  PROVE  HostedInv'
<1>1. blk[wnd.slot] \in BlockType /\ blk' = [blk EXCEPT ![wnd.slot] = blk[wnd.slot]]
  BY Zenon, WindowHas
<1> QED
  BY Zenon, <1>1, WindowPlain

\* Steps that only move on.
LEMMA GoKeeps ==
  ASSUME HostedSizes, HostedInv, wnd.pc \notin {"closed", "right half", "copied"}, UNCHANGED blk, Hosted!Same,
         NEW pc \in {"top", "exit", "front", "copy", "resize", "attention"}, Hosted!Go(pc)
  PROVE  HostedInv'
<1> DEFINE w == [wnd EXCEPT !.pc = pc]
<1>1. wnd \in WindowType
  BY Zenon, WindowHas
<1>2. /\ w \in WindowType /\ w.pc = pc /\ w.slot = wnd.slot /\ w.sent = wnd.sent /\ w.clip = wnd.clip /\ w.pic = wnd.pic
      /\ w.shown = wnd.shown /\ w.ended = wnd.ended
  BY Zenon, <1>1 DEF WindowType
<1>3. wnd' = w
  BY Zenon DEF Hosted!Go
<1> HIDE DEF w
<1> QED
  BY Zenon, <1>2, <1>3, WindowGoesOn DEF Hosted!Same

LEMMA PaintKeeps ==
  ASSUME HostedSizes, HostedInv, NEW size \in count.most.sizes, Hosted!Paint(size) PROVE HostedInv'
<1> DEFINE w == [wnd EXCEPT !.pc = "paint", !.want = size, !.dirty = FALSE]
<1>1. wnd.pc = "top" /\ wnd' = w /\ UNCHANGED <<slot, prog, count, blk>>
  BY DEF Hosted!Paint, Hosted!At, Hosted!Same
<1>2. wnd \in WindowType
  BY DEF HostedInv, HostedTypes
<1>3. size \in Nat
  <2>1. count.most \in HostedBounds
    BY DEF HostedInv, HostedTypes
  <2> QED
    BY <2>1 DEF HostedSizes
<1>4. /\ w \in WindowType /\ w.pc = "paint" /\ w.slot = wnd.slot /\ w.sent = wnd.sent /\ w.clip = wnd.clip
      /\ w.pic = wnd.pic /\ w.shown = wnd.shown /\ w.ended = wnd.ended
  BY Zenon, <1>2, <1>3 DEF WindowType
<1> HIDE DEF w
<1> QED
  BY Zenon, <1>1, <1>4, WindowGoesOn

LEMMA FrontKeeps ==
  ASSUME HostedSizes, HostedInv, Hosted!PaintFront PROVE HostedInv'
<1> DEFINE b == blk[wnd.slot]
           text == [wnd EXCEPT !.pc = "top", !.pic = Hosted!NoPixels]
           ahead(pc) == [wnd EXCEPT !.pc = pc, !.front = b.front]
<1>1. wnd.pc = "front" /\ UNCHANGED <<slot, prog, count, blk>>
  BY DEF Hosted!PaintFront, Hosted!At, Hosted!Same
<1>2. wnd \in WindowType /\ b \in BlockType
  BY <1>1, WindowHas
<1>3. b.front \in 0 .. 2
  BY <1>2 DEF BlockType
<1>4. /\ text \in WindowType /\ text.pc = "top" /\ text.slot = wnd.slot /\ text.sent = wnd.sent /\ text.clip = wnd.clip
      /\ text.pic = Hosted!NoPixels /\ text.ended = wnd.ended
  BY Zenon, <1>2, NoPixelsIs DEF WindowType
<1>5. ASSUME NEW pc \in {"top", "claim"}
      PROVE  /\ ahead(pc) \in WindowType /\ ahead(pc).pc = pc /\ ahead(pc).slot = wnd.slot /\ ahead(pc).sent = wnd.sent
             /\ ahead(pc).clip = wnd.clip /\ ahead(pc).pic = wnd.pic /\ ahead(pc).shown = wnd.shown
             /\ ahead(pc).ended = wnd.ended /\ ahead(pc).front = b.front
  BY Zenon, <1>2, <1>3 DEF WindowType
<1>6. CASE wnd.ended \/ (b.front = 2 /\ wnd.shown = 0)
  <2>1. wnd' = text
    BY <1>6 DEF Hosted!PaintFront, Hosted!Text, Hosted!B
  <2> HIDE DEF text
  <2> QED
    BY Zenon, <1>1, <1>4, <2>1, WindowGoesOn
<1>7. CASE ~(wnd.ended \/ (b.front = 2 /\ wnd.shown = 0))
  <2>1. PICK pc \in {"top", "claim"} : wnd' = ahead(pc) /\ (pc = "claim" => b.front # 2)
    BY <1>7 DEF Hosted!PaintFront, Hosted!B
  <2>2. pc = "claim" => b.front \in {0, 1}
    BY <1>3, <2>1
  <2> DEFINE w == ahead(pc)
  <2>3. /\ w \in WindowType /\ w.pc = pc /\ w.slot = wnd.slot /\ w.sent = wnd.sent /\ w.clip = wnd.clip /\ w.pic = wnd.pic
        /\ w.shown = wnd.shown /\ w.ended = wnd.ended /\ w.front = b.front
    BY <1>5
  <2>4. wnd' = w
    BY <2>1
  <2> HIDE DEF w
  <2> HIDE DEF ahead
  <2> QED
    BY Zenon, <1>1, <2>2, <2>3, <2>4, WindowGoesOn
<1> QED
  BY <1>6, <1>7

\* The window tells the program to quit, or takes back that it asked for attention.
LEMMA SetsKeeps ==
  ASSUME HostedSizes, HostedInv, Hosted!Close \/ Hosted!IdleExit \/ Hosted!IdleAttention PROVE HostedInv'
<1> DEFINE b == blk[wnd.slot]
           quit == [b EXCEPT !.quit = TRUE]
           calm == [b EXCEPT !.attention = FALSE]
           moved(pc) == [wnd EXCEPT !.pc = pc]
           over == [wnd EXCEPT !.pc = "wait", !.ended = TRUE]
<1>1. wnd.pc \in {"top", "exit", "attention"} /\ UNCHANGED <<slot, prog, count>>
  BY DEF Hosted!Close, Hosted!IdleExit, Hosted!IdleAttention, Hosted!At, Hosted!Same
<1>2. wnd \in WindowType /\ b \in BlockType /\ (b.exited => prog[slot[wnd.slot].child].pc \in {"left", "gone"})
  BY <1>1, WindowHas
<1>3. /\ quit \in BlockType /\ quit.frames = b.frames /\ quit.head = b.head /\ quit.tail = b.tail /\ quit.frame = b.frame
      /\ quit.cells = b.cells /\ quit.queued = b.queued /\ quit.copy = b.copy /\ quit.text = b.text /\ quit.exited = b.exited
  BY <1>2 DEF BlockType
<1>4. /\ calm \in BlockType /\ calm.frames = b.frames /\ calm.head = b.head /\ calm.tail = b.tail /\ calm.frame = b.frame
      /\ calm.cells = b.cells /\ calm.queued = b.queued /\ calm.copy = b.copy /\ calm.text = b.text /\ calm.exited = b.exited
  BY <1>2 DEF BlockType
<1>5. ASSUME NEW pc \in {"wait", "frame"}
      PROVE  /\ moved(pc) \in WindowType /\ moved(pc).pc = pc /\ moved(pc).slot = wnd.slot /\ moved(pc).sent = wnd.sent
             /\ moved(pc).clip = wnd.clip /\ moved(pc).pic = wnd.pic /\ moved(pc).shown = wnd.shown
             /\ moved(pc).ended = wnd.ended
  BY Zenon, <1>2 DEF WindowType
<1>6. /\ over \in WindowType /\ over.pc = "wait" /\ over.slot = wnd.slot /\ over.sent = wnd.sent
      /\ over.clip = wnd.clip /\ over.pic = wnd.pic /\ over.shown = wnd.shown /\ over.ended
  BY Zenon, <1>2 DEF WindowType
<1>7. CASE Hosted!Close
  <2>1. wnd' = moved("wait") /\ blk' = [blk EXCEPT ![wnd.slot] = quit]
    BY <1>7 DEF Hosted!Close
  <2> HIDE DEF moved, quit
  <2> QED
    BY Zenon, <1>1, <1>3, <1>5, <2>1, WindowPlain
<1>8. CASE Hosted!IdleExit /\ b.exited /\ ~b.error
  <2>1. wnd' = over /\ blk' = [blk EXCEPT ![wnd.slot] = quit]
    BY <1>8 DEF Hosted!IdleExit, Hosted!B
  <2> HIDE DEF over, quit
  <2> QED
    BY Zenon, <1>1, <1>2, <1>3, <1>6, <1>8, <2>1, WindowPlain
<1>9. CASE Hosted!IdleExit /\ ~(b.exited /\ ~b.error)
  <2>1. Hosted!Go("copy") /\ UNCHANGED blk /\ Hosted!Same
    BY <1>9 DEF Hosted!IdleExit, Hosted!B
  <2> QED
    BY Zenon, <1>1, <2>1, GoKeeps
<1>10. CASE Hosted!IdleAttention
  <2>1. wnd' = moved("frame") /\ blk' = [blk EXCEPT ![wnd.slot] = calm]
    BY <1>10 DEF Hosted!IdleAttention, Hosted!Go
  <2> HIDE DEF moved, calm
  <2> QED
    BY Zenon, <1>1, <1>4, <1>5, <2>1, WindowPlain
<1> QED
  BY <1>7, <1>8, <1>9, <1>10

LEMMA ChecksKeep ==
  ASSUME HostedSizes, HostedInv, Hosted!IdleFrame \/ Hosted!IdleCheck PROVE HostedInv'
<1> DEFINE b == blk[wnd.slot]
           look(x) == [wnd EXCEPT !.pc = "check", !.dirty = x]
           over == [wnd EXCEPT !.pc = "top", !.ended = TRUE, !.dirty = TRUE]
<1>1. wnd.pc \in {"frame", "check"} /\ UNCHANGED <<slot, prog, count, blk>>
  BY DEF Hosted!IdleFrame, Hosted!IdleCheck, Hosted!At, Hosted!Same
<1>2. wnd \in WindowType /\ b \in BlockType /\ (b.exited => prog[slot[wnd.slot].child].pc \in {"left", "gone"})
  BY <1>1, WindowHas
<1>3. ASSUME NEW x \in BOOLEAN
      PROVE  /\ look(x) \in WindowType /\ look(x).pc = "check" /\ look(x).slot = wnd.slot /\ look(x).sent = wnd.sent
             /\ look(x).clip = wnd.clip /\ look(x).pic = wnd.pic /\ look(x).shown = wnd.shown /\ look(x).ended = wnd.ended
  BY Zenon, <1>2 DEF WindowType
<1>4. /\ over \in WindowType /\ over.pc = "top" /\ over.slot = wnd.slot /\ over.sent = wnd.sent
      /\ over.clip = wnd.clip /\ over.pic = wnd.pic /\ over.shown = wnd.shown /\ over.ended
  BY Zenon, <1>2 DEF WindowType
<1>5. CASE Hosted!IdleFrame
  <2>1. PICK x \in BOOLEAN : x = (wnd.dirty \/ b.frame # wnd.shown)
    BY Zenon, <1>2 DEF WindowType
  <2>2. wnd' = look(x)
    BY <1>5, <2>1 DEF Hosted!IdleFrame, Hosted!B
  <2> HIDE DEF look
  <2> QED
    BY Zenon, <1>1, <1>3, <2>2, WindowGoesOn
<1>6. CASE Hosted!IdleCheck
  <2>1. PICK alive \in Hosted!Alive(Hosted!C), due \in BOOLEAN :
          wnd' = IF due /\ (b.exited \/ ~alive) THEN over ELSE [wnd EXCEPT !.pc = "top"]
    BY <1>6 DEF Hosted!IdleCheck, Hosted!B
  <2>2. CASE due /\ (b.exited \/ ~alive)
    <3>1. prog[slot[wnd.slot].child].pc \in {"left", "gone"}
      BY <1>2, <2>1, <2>2 DEF Hosted!Alive, Hosted!C
    <3>2. wnd' = over
      BY <2>1, <2>2
    <3> HIDE DEF over
    <3> QED
      BY Zenon, <1>1, <1>4, <3>1, <3>2, WindowGoesOn
  <2>3. CASE ~(due /\ (b.exited \/ ~alive))
    <3>1. Hosted!Go("top") /\ Hosted!Same /\ UNCHANGED blk
      BY <1>1, <1>6, <2>1, <2>3 DEF Hosted!Go, Hosted!Same
    <3> QED
      BY Zenon, <1>1, <3>1, GoKeeps
  <2> QED
    BY <2>2, <2>3
<1> QED
  BY <1>5, <1>6

\* The clipboard takes the text, and then the block has room for another.
LEMMA ClipKeeps ==
  ASSUME HostedSizes, HostedInv, Hosted!IdleCopy PROVE HostedInv'
<1> DEFINE b == blk[wnd.slot]
           h == slot[wnd.slot].child
           p == prog[h]
           w == [wnd EXCEPT !.pc = "copied", !.clip = Append(wnd.clip, b.text)]
<1>1. wnd.pc = "copy" /\ UNCHANGED <<slot, prog, count, blk>>
  BY DEF Hosted!IdleCopy, Hosted!At, Hosted!Same
<1>2. wnd \in WindowType /\ b \in BlockType /\ Shared(b, p, h) /\ Looks(b, p, wnd, h)
  BY SMTT(60), <1>1, WindowHas
<1>3. CASE b.copy
  <2>1. wnd' = w
    BY <1>3 DEF Hosted!IdleCopy, Hosted!B
  <2>2. wnd.clip \in Seq(Nat) /\ b.text \in Nat
    BY Zenon, <1>2 DEF WindowType, BlockType
  <2>3. /\ Append(wnd.clip, b.text) \in Seq(Nat) /\ Len(Append(wnd.clip, b.text)) = Len(wnd.clip) + 1
        /\ \A i \in 1 .. Len(wnd.clip) : Append(wnd.clip, b.text)[i] = wnd.clip[i]
        /\ Append(wnd.clip, b.text)[Len(wnd.clip) + 1] = b.text /\ Len(wnd.clip) \in Nat
    BY <2>2
  <2>4. /\ w \in WindowType /\ w.pc = "copied" /\ w.slot = wnd.slot /\ w.sent = wnd.sent /\ w.pic = wnd.pic
        /\ w.shown = wnd.shown /\ w.ended = wnd.ended /\ w.clip = Append(wnd.clip, b.text)
    BY Zenon, <1>2, <2>3 DEF WindowType
  <2> HIDE DEF w
  <2>5. b.text = Len(wnd.clip) + 1 /\ \A i \in 1 .. Len(wnd.clip) : wnd.clip[i] = i
    BY <1>1, <1>2, <1>3 DEF Looks, ClipOk
  <2>6. ClipOk(b, w)
    <3>1. \A i \in 1 .. Len(wnd.clip) + 1 : i \in 1 .. Len(wnd.clip) \/ i = Len(wnd.clip) + 1
      BY <2>3
    <3>2. \A i \in 1 .. Len(w.clip) : w.clip[i] = i
      BY <2>3, <2>4, <2>5, <3>1
    <3> QED
      BY <1>3, <2>3, <2>4, <2>5, <3>2 DEF ClipOk
  <2>7. ReadOk(b, w, h) /\ SizeOk(b, w)
    BY SMTT(60), <1>1, <1>2, <2>4 DEF Looks, ReadOk, SizeOk
  <2>8. p.pc \notin Away => SendOk(b, p, w) /\ CopyOk(b, p, w)
    BY <1>1, <1>2, <1>3, <2>3, <2>4 DEF Looks, SendOk, CopyOk
  <2>9. Looks(b, p, w, h)
    BY <2>6, <2>7, <2>8 DEF Looks
  <2>10. blk' = [blk EXCEPT ![wnd.slot] = b]
    BY <1>1, WindowHas
  <2> QED
    BY <1>1, <1>2, <2>1, <2>4, <2>9, <2>10, WindowKeeps
<1>4. CASE ~b.copy
  <2>1. Hosted!Go("attention") /\ Hosted!Same /\ UNCHANGED blk
    BY SMTT(60), <1>1, <1>4 DEF Hosted!IdleCopy, Hosted!B, Hosted!Go, Hosted!Same
  <2> QED
    BY <1>1, <2>1, GoKeeps
<1> QED
  BY <1>3, <1>4

LEMMA ClippedKeeps ==
  ASSUME HostedSizes, HostedInv, Hosted!IdleCopied PROVE HostedInv'
<1> DEFINE b == blk[wnd.slot]
           h == slot[wnd.slot].child
           p == prog[h]
           w == [wnd EXCEPT !.pc = "attention"]
           d == [b EXCEPT !.copy = FALSE]
<1>1. wnd.pc = "copied" /\ UNCHANGED <<slot, prog, count>> /\ wnd' = w /\ blk' = [blk EXCEPT ![wnd.slot] = d]
  BY DEF Hosted!IdleCopied, Hosted!At, Hosted!Same, Hosted!Go
<1>2. wnd \in WindowType /\ b \in BlockType /\ Shared(b, p, h) /\ Looks(b, p, wnd, h)
  BY <1>1, WindowHas
<1>3. /\ w \in WindowType /\ w.pc = "attention" /\ w.slot = wnd.slot /\ w.sent = wnd.sent /\ w.pic = wnd.pic
      /\ w.shown = wnd.shown /\ w.ended = wnd.ended /\ w.clip = wnd.clip
  BY Zenon, <1>2 DEF WindowType
<1>4. /\ d \in BlockType /\ d.frames = b.frames /\ d.head = b.head /\ d.tail = b.tail /\ d.frame = b.frame
      /\ d.cells = b.cells /\ d.queued = b.queued /\ d.copy = FALSE /\ d.text = b.text /\ d.exited = b.exited
  BY ZenonT(60), <1>2 DEF BlockType
<1> HIDE DEF w, d
<1>5. Shared(d, p, h)
  BY <1>2, <1>4, RingSame DEF Shared, FramesOk, DrawOk
<1>6. ReadOk(d, w, h) /\ SizeOk(d, w)
  BY <1>1, <1>2, <1>3, <1>4 DEF Looks, ReadOk, SizeOk
<1>7. ClipOk(d, w)
  BY SMTT(60), <1>2, <1>3, <1>4 DEF Looks, ClipOk
<1>8. p.pc \notin Away => SendOk(d, p, w) /\ CopyOk(d, p, w)
  BY <1>1, <1>2, <1>3, <1>4 DEF Looks, SendOk, CopyOk, ClipOk
<1>9. Looks(d, p, w, h)
  BY <1>6, <1>7, <1>8 DEF Looks
<1> QED
  BY <1>1, <1>3, <1>4, <1>5, <1>9, WindowKeeps

\* claim(), and what is copied then.
LEMMA ClaimKeeps ==
  ASSUME HostedSizes, HostedInv, Hosted!PaintClaim \/ Hosted!Painted PROVE HostedInv'
<1> DEFINE b == blk[wnd.slot]
           h == slot[wnd.slot].child
           p == prog[h]
           i == wnd.front
           g == b.frames[i]
           state2 == IF wnd.pc = "claim" THEN "reading" ELSE "ready"
           f == [g EXCEPT !.state = state2]
           d == [b EXCEPT !.frames[i] = f]
           w == [wnd EXCEPT !.pc = IF wnd.pc = "claim" THEN "left half" ELSE "top"]
           text == [wnd EXCEPT !.pc = "top", !.pic = Hosted!NoPixels]
<1>1. wnd.pc \in {"claim", "painted"} /\ UNCHANGED <<slot, prog, count>>
  BY Zenon DEF Hosted!PaintClaim, Hosted!Painted, Hosted!At, Hosted!Same
<1>2. wnd \in WindowType /\ b \in BlockType /\ Shared(b, p, h) /\ Looks(b, p, wnd, h) /\ p \in ProgramType
  BY <1>1, WindowHas
<1>3. i \in {0, 1} /\ i \in 0 .. 1 /\ (wnd.pc = "painted" => g.state = "reading")
  BY Zenon, <1>1, <1>2, Bits DEF Looks, ReadOk
<1>4. g \in FrameType
  BY <1>2, <1>3 DEF BlockType
<1>5. CASE Hosted!PaintClaim /\ ~Hosted!Claimed(g)
  <2>1. wnd.pc = "claim" /\ UNCHANGED blk /\ wnd' = (IF wnd.shown # 0 THEN [wnd EXCEPT !.pc = "top"] ELSE text)
    BY <1>5 DEF Hosted!PaintClaim, Hosted!At, Hosted!B, Hosted!Text
  <2>2. CASE wnd.shown # 0
    <3>1. Hosted!Go("top") /\ Hosted!Same
      BY <1>1, <2>1, <2>2 DEF Hosted!Go, Hosted!Same
    <3> QED
      BY <2>1, <3>1, GoKeeps
  <2>3. CASE wnd.shown = 0
    <3>1. /\ text \in WindowType /\ text.pc = "top" /\ text.slot = wnd.slot /\ text.sent = wnd.sent /\ text.clip = wnd.clip
          /\ text.pic = Hosted!NoPixels /\ text.ended = wnd.ended
      BY Zenon, <1>2, NoPixelsIs DEF WindowType
    <3>2. wnd' = text
      BY <2>1, <2>3
    <3> HIDE DEF text
    <3> QED
      BY Zenon, <1>1, <2>1, <3>1, <3>2, WindowGoesOn
  <2> QED
    BY <2>2, <2>3
<1>6. CASE (Hosted!PaintClaim /\ Hosted!Claimed(g)) \/ Hosted!Painted
  <2>1. /\ wnd' = w /\ blk' = [blk EXCEPT ![wnd.slot] = d]
        /\ g.state = (IF wnd.pc = "claim" THEN "ready" ELSE "reading")
    BY Zenon, <1>1, <1>3, <1>6 DEF Hosted!PaintClaim, Hosted!Painted, Hosted!At, Hosted!B, Hosted!Go, Hosted!Claimed
  <2>2. f \in FrameType /\ f.state = state2 /\ f.px = g.px /\ f.serial = g.serial /\ state2 # "writing"
    BY <1>4 DEF FrameType
  <2> HIDE DEF f
  <2>3. /\ d \in BlockType /\ d.frames[i] = f /\ (\A j \in 0 .. 1 : j # i => d.frames[j] = b.frames[j])
        /\ d.frame = b.frame /\ d.head = b.head /\ d.tail = b.tail /\ d.cells = b.cells /\ d.queued = b.queued
        /\ d.copy = b.copy /\ d.text = b.text /\ d.exited = b.exited
    BY <1>2, <1>3, <2>2, FrameSet
  <2>4. /\ w \in WindowType /\ w.pc = (IF wnd.pc = "claim" THEN "left half" ELSE "top") /\ w.slot = wnd.slot
        /\ w.sent = wnd.sent /\ w.pic = wnd.pic
        /\ w.shown = wnd.shown /\ w.ended = wnd.ended /\ w.clip = wnd.clip /\ w.front = wnd.front
    BY Zenon, <1>2 DEF WindowType
  <2> HIDE DEF d, w
  <2>5. WholeFrame(g, h)
    BY SMTT(60), <1>2, <1>3, <2>1 DEF Shared, FramesOk
  <2>6. WholeFrame(f, h)
    BY <2>2, <2>5 DEF WholeFrame
  <2>7. FramesOk(d, h)
    <3>1. ASSUME NEW j \in {0, 1}, d.frames[j].state # "writing" PROVE WholeFrame(d.frames[j], h)
      <4>1. CASE j = i
        BY <2>3, <2>6, <4>1
      <4>2. CASE j # i
        <5>1. d.frames[j] = b.frames[j]
          BY <2>3, <4>2, Bits
        <5> QED
          BY <1>2, <3>1, <5>1 DEF Shared, FramesOk
      <4> QED
        BY <4>1, <4>2
    <3> QED
      BY <3>1 DEF FramesOk
  <2>8. p.pc \notin Away => RingOk(d, p)
    BY SMTT(60), <1>2, <2>3, RingSame DEF Shared
  <2>9. p.pc \notin Away => DrawOk(d, p, h)
    <3>1. ASSUME p.pc \notin Away, p.pc \in Drawing PROVE p.back \in 0 .. 1 /\ p.back # i
      BY <1>2, <2>1, <3>1 DEF Shared, DrawOk, ProgramType
    <3>2. ASSUME p.pc \notin Away, p.pc \in Drawing PROVE d.frames[p.back] = b.frames[p.back]
      BY <2>3, <3>1, <3>2
    <3> QED
      BY ZenonT(60), <1>2, <2>3, <3>2 DEF Shared, DrawOk
  <2>10. ReadOk(d, w, h)
    BY Zenon, <1>1, <1>2, <1>3, <2>2, <2>3, <2>4 DEF Looks, ReadOk
  <2>11. SizeOk(d, w) /\ ClipOk(d, w)
    BY Zenon, <1>1, <1>2, <2>3, <2>4 DEF Looks, SizeOk, ClipOk
  <2>12. p.pc \notin Away => SendOk(d, p, w) /\ CopyOk(d, p, w)
    BY Zenon, <1>1, <1>2, <2>3, <2>4 DEF Looks, SendOk, CopyOk
  <2>13. Shared(d, p, h) /\ Looks(d, p, w, h)
    BY <2>7, <2>8, <2>9, <2>10, <2>11, <2>12 DEF Shared, Looks
  <2>14. w.pc # "closed"
    BY Zenon, <2>4
  <2> QED
    BY Zenon, <1>1, <2>1, <2>3, <2>4, <2>13, <2>14, WindowKeeps
<1> QED
  BY <1>5, <1>6

LEMMA HalfKeeps ==
  ASSUME HostedSizes, HostedInv, Hosted!PaintLeft \/ Hosted!PaintRight PROVE HostedInv'
<1> DEFINE b == blk[wnd.slot]
           h == slot[wnd.slot].child
           p == prog[h]
           g == b.frames[wnd.front]
           half == [wnd EXCEPT !.pc = "right half", !.pic.left = g.px.left]
           both == [wnd EXCEPT !.pc = "painted", !.pic.right = g.px.right, !.shown = g.serial]
<1>1. wnd.pc \in {"left half", "right half"} /\ UNCHANGED <<slot, prog, count, blk>>
  BY Zenon DEF Hosted!PaintLeft, Hosted!PaintRight, Hosted!At, Hosted!Same
<1>2. wnd \in WindowType /\ b \in BlockType /\ Shared(b, p, h) /\ Looks(b, p, wnd, h) /\ blk' = [blk EXCEPT ![wnd.slot] = b]
  BY Zenon, <1>1, WindowHas
<1>3. wnd.front \in {0, 1} /\ g.state = "reading" /\ (wnd.pc = "right half" => wnd.pic.left = g.px.left)
  BY Zenon, <1>1, <1>2 DEF Looks, ReadOk
<1>4. g \in FrameType /\ wnd.pic \in PixelType
  <2>1. wnd.front \in 0 .. 1
    BY Zenon, <1>3, Bits
  <2> QED
    BY Zenon, <1>2, <2>1 DEF BlockType, WindowType
<1>5. g.px.left \in Nat \X Nat /\ g.px.right \in Nat \X Nat /\ g.serial \in Nat
  BY <1>4 DEF FrameType, PixelType
<1>6. WholeFrame(g, h)
  BY Zenon, <1>2, <1>3 DEF Shared, FramesOk
<1>7. ASSUME NEW w \in WindowType, wnd' = w, w.pc \in {"right half", "painted"}, w.slot = wnd.slot, w.sent = wnd.sent,
             w.ended = wnd.ended, w.clip = wnd.clip, ReadOk(b, w, h)
      PROVE  HostedInv'
  <2>1. SizeOk(b, w) /\ ClipOk(b, w)
    <3>1. SizeOk(b, wnd) /\ ClipOk(b, wnd)
      BY <1>2 DEF Looks
    <3>2. SizeOk(b, w)
      BY Zenon, <1>7, <3>1 DEF SizeOk
    <3>4. w.pc # "copied" /\ wnd.pc # "copied" /\ w.clip = wnd.clip
      BY Zenon, <1>1, <1>7
    <3> HIDE DEF b
    <3>3. ClipOk(b, w)
      BY <3>1, <3>4 DEF ClipOk
    <3> QED
      BY <3>2, <3>3
  <2>2. p.pc \notin Away => SendOk(b, p, w) /\ CopyOk(b, p, w)
    BY Zenon, <1>1, <1>2, <1>7 DEF Looks, SendOk, CopyOk
  <2>3. Looks(b, p, w, h)
    BY Zenon, <1>7, <2>1, <2>2 DEF Looks
  <2> QED
    BY Zenon, <1>1, <1>2, <1>7, <2>3, WindowKeeps
<1>8. CASE Hosted!PaintLeft
  <2> DEFINE x == [wnd.pic EXCEPT !.left = g.px.left]
  <2>1. x \in PixelType /\ x.left = g.px.left
    BY <1>4, <1>5 DEF PixelType
  <2>2. half = [wnd EXCEPT !.pc = "right half", !.pic = x]
    BY Zenon, <1>2 DEF WindowType
  <2> HIDE DEF x
  <2>3. /\ half \in WindowType /\ half.pc = "right half" /\ half.slot = wnd.slot /\ half.sent = wnd.sent
        /\ half.ended = wnd.ended /\ half.clip = wnd.clip /\ half.front = wnd.front /\ half.pic = x
    BY Zenon, <1>2, <2>1, <2>2 DEF WindowType
  <2>4. wnd' = half
    BY Zenon, <1>8 DEF Hosted!PaintLeft, Hosted!B
  <2> HIDE DEF half
  <2>5. ReadOk(b, half, h)
    BY Zenon, <1>3, <2>1, <2>3 DEF ReadOk
  <2> QED
    BY ZenonT(60), <1>7, <2>3, <2>4, <2>5
<1>9. CASE Hosted!PaintRight
  <2> DEFINE x == [wnd.pic EXCEPT !.right = g.px.right]
  <2>1. x \in PixelType /\ x.right = g.px.right /\ x.left = wnd.pic.left
    BY <1>4, <1>5 DEF PixelType
  <2>2. both = [wnd EXCEPT !.pc = "painted", !.pic = x, !.shown = g.serial]
    BY Zenon, <1>2 DEF WindowType
  <2>3. wnd.pc = "right half" /\ wnd' = both
    BY ZenonT(60), <1>9 DEF Hosted!PaintRight, Hosted!At, Hosted!B
  <2> HIDE DEF x
  <2>4. /\ both \in WindowType /\ both.pc = "painted" /\ both.slot = wnd.slot /\ both.sent = wnd.sent
        /\ both.ended = wnd.ended /\ both.clip = wnd.clip /\ both.front = wnd.front /\ both.pic = x /\ both.shown = g.serial
    BY ZenonT(60), <1>2, <1>5, <2>1, <2>2 DEF WindowType
  <2> HIDE DEF both
  <2>5. x = g.px
    <3>1. g.px \in PixelType
      BY <1>4 DEF FrameType
    <3>2. \A y, z \in PixelType : y.left = z.left /\ y.right = z.right => y = z
      BY DEF PixelType
    <3> QED
      BY Zenon, <1>3, <2>1, <2>3, <3>1, <3>2
  <2>6. ReadOk(b, both, h)
    BY ZenonT(60), <1>3, <1>6, <2>4, <2>5 DEF ReadOk, WholeFrame
  <2> QED
    BY ZenonT(60), <1>7, <2>3, <2>4, <2>6
<1> QED
  BY <1>8, <1>9

\* send(): a cell that no command waits in is filled ...
LEMMA FillKeeps ==
  ASSUME HostedSizes, HostedInv, wnd.pc \in {"top", "resize", "paint"}, NEW cmd \in Commands,
         NEW then \in {"top", "exit", "front"}, ~Hosted!Full(blk[wnd.slot]), Hosted!Fill(cmd, then)
  PROVE  HostedInv'
<1> DEFINE b == blk[wnd.slot]
           h == slot[wnd.slot].child
           p == prog[h]
           x == b.head % Queue
           d == [b EXCEPT !.cells[x] = cmd]
           w == [wnd EXCEPT !.pc = "send", !.cmd = cmd, !.next = then]
           n == Len(p.taken)
           k == Len(b.queued)
<1>1. wnd.pc # "closed" /\ UNCHANGED <<slot, prog, count>> /\ wnd' = w /\ blk' = [blk EXCEPT ![wnd.slot] = d]
  BY DEF Hosted!Fill, Hosted!Same, Hosted!B
<1>2. wnd \in WindowType /\ b \in BlockType /\ Shared(b, p, h) /\ Looks(b, p, wnd, h) /\ p \in ProgramType
  BY <1>1, WindowHas
<1>3. Queue \in Nat \ {0} /\ IndexMod \in Nat \ {0} /\ IndexMod > Queue
  BY DEF HostedSizes
<1>4. b.cells \in [0 .. Queue - 1 -> Commands] /\ b.head \in Nat /\ k \in Nat /\ n \in Nat
  BY SMTT(60), <1>2 DEF BlockType, ProgramType
<1>5. x \in 0 .. Queue - 1
  BY <1>3, <1>4
<1> HIDE DEF x
<1> DEFINE e == [b.cells EXCEPT ![x] = cmd]
<1>6. e \in [0 .. Queue - 1 -> Commands] /\ e[x] = cmd /\ \A j \in 0 .. Queue - 1 : j # x => e[j] = b.cells[j]
  BY <1>4, <1>5
<1>7. d = [b EXCEPT !.cells = e]
  OBVIOUS
<1> HIDE DEF e
<1>8. /\ d \in BlockType /\ d.frames = b.frames /\ d.head = b.head /\ d.tail = b.tail /\ d.frame = b.frame
      /\ d.cells = e /\ d.queued = b.queued /\ d.copy = b.copy /\ d.text = b.text /\ d.exited = b.exited
  BY <1>2, <1>6, <1>7 DEF BlockType
<1>9. /\ w \in WindowType /\ w.pc = "send" /\ w.slot = wnd.slot /\ w.sent = wnd.sent /\ w.pic = wnd.pic /\ w.cmd = cmd
      /\ w.shown = wnd.shown /\ w.ended = wnd.ended /\ w.clip = wnd.clip
  BY Zenon, <1>2 DEF WindowType
<1> HIDE DEF d, w
<1>10. ASSUME p.pc \notin Away PROVE RingOk(d, p) /\ SendOk(d, p, w)
  <2>1. /\ n <= k /\ k <= n + Queue /\ b.head = k % IndexMod /\ b.tail = n % IndexMod
        /\ (\A i \in 1 .. n : p.taken[i] = b.queued[i])
        /\ (\A i \in n + 1 .. k : b.cells[(i - 1) % Queue] = b.queued[i])
        /\ (p.pc = "took" => n < k /\ p.cmd = b.queued[n + 1])
    BY <1>2, <1>10 DEF Shared, RingOk
  <2>2. k - n < Queue
    <3>1. ~((b.head - b.tail) % IndexMod >= Queue)
      BY DEF Hosted!Full
    <3> HIDE DEF n, k
    <3>2. k - n < IndexMod
      BY <1>3, <1>4, <2>1
    <3>3. ((k % IndexMod) - (n % IndexMod)) % IndexMod = k - n
      BY <1>3, <1>4, <2>1, <3>2, IndexMinus
    <3>4. k - n \in Int
      BY <1>4
    <3>5. ~(k - n >= Queue)
      BY SMTT(60), <2>1, <3>1, <3>3
    <3> QED
      BY <1>3, <3>4, <3>5
  <2>3. x = k % Queue
    <3>1. PICK j \in Nat : IndexMod = Queue * j
      BY DEF HostedSizes
    <3> HIDE DEF k
    <3>2. (k % IndexMod) % Queue = k % Queue
      BY ZenonT(60), <1>3, <1>4, <3>1, CellOf
    <3> QED
      BY <2>1, <3>2 DEF x
  <2>4. ASSUME NEW i \in n + 1 .. k PROVE d.cells[(i - 1) % Queue] = d.queued[i]
    <3> HIDE DEF n, k
    <3>1. PICK z \in Nat : z = i - 1
      BY <1>4
    <3>2. z < k /\ k - z < Queue
      BY <1>3, <1>4, <2>2, <3>1
    <3>3. k % Queue # z % Queue /\ z % Queue \in 0 .. Queue - 1
      <4>1. k % Queue # z % Queue
        BY <1>3, <1>4, <3>2, CellsDiffer
      <4>2. z % Queue \in 0 .. Queue - 1
        BY <1>3, Quotient
      <4> QED
        BY <4>1, <4>2
    <3>4. b.cells[z % Queue] = b.queued[i]
      BY <2>1, <2>4, <3>1
    <3>5. e[z % Queue] = b.queued[i]
      BY <1>6, <2>3, <3>3, <3>4
    <3> QED
      BY <1>8, <3>1, <3>5
  <2>5. RingOk(d, p)
    BY <1>8, <2>1, <2>4 DEF RingOk
  <2>6. k < n + Queue
    <3> HIDE DEF n, k
    <3> QED
      BY <1>3, <1>4, <2>2
  <2>7. SendOk(d, p, w)
    BY SMTT(60), <1>6, <1>8, <1>9, <2>3, <2>6 DEF SendOk
  <2> QED
    BY SMTT(60), <2>5, <2>7
<1>11. Shared(d, p, h)
  BY <1>2, <1>8, <1>10 DEF Shared, FramesOk, DrawOk
<1>12. ReadOk(d, w, h) /\ SizeOk(d, w)
  BY Zenon, <1>1, <1>2, <1>8, <1>9 DEF Looks, ReadOk, SizeOk
<1>13. ClipOk(d, w) /\ (p.pc \notin Away => CopyOk(d, p, w))
  BY <1>1, <1>2, <1>8, <1>9 DEF Looks, ClipOk, CopyOk
<1>14. Looks(d, p, w, h)
  BY <1>10, <1>12, <1>13 DEF Looks
<1>15. w.pc # "closed"
  BY <1>9
<1> QED
  BY <1>1, <1>8, <1>9, <1>11, <1>14, <1>15, WindowKeeps

LEMMA KeyKeeps == ASSUME HostedSizes, HostedInv, Hosted!Key PROVE HostedInv'
<1>1. wnd.pc = "top" /\ ~Hosted!Full(blk[wnd.slot]) /\ Hosted!Fill(<<"key", Len(blk[wnd.slot].queued)>>, "top")
  BY DEF Hosted!Key, Hosted!At, Hosted!B
<1>2. blk[wnd.slot].queued \in Seq(Commands)
  <2>1. blk[wnd.slot] \in BlockType
    BY <1>1, WindowHas
  <2> QED
    BY SMTT(60), <2>1 DEF BlockType
<1>3. Len(blk[wnd.slot].queued) \in Nat
  BY <1>2
<1>4. <<"key", Len(blk[wnd.slot].queued)>> \in Commands
  BY <1>3 DEF Commands
<1> QED
  BY <1>1, <1>4, FillKeeps

LEMMA ResizeKeeps ==
  ASSUME HostedSizes, HostedInv, Hosted!Resize("resize", "exit") \/ Hosted!Resize("paint", "front") PROVE HostedInv'
<1>1. PICK from \in {"resize", "paint"}, then \in {"exit", "front"} : Hosted!Resize(from, then)
  OBVIOUS
<1>2. wnd.pc = from
  BY <1>1 DEF Hosted!Resize, Hosted!At
<1>3. wnd \in WindowType
  BY <1>2, WindowHas
<1>4. CASE wnd.want # 0 /\ wnd.want # wnd.sent /\ ~wnd.ended /\ ~Hosted!Full(blk[wnd.slot])
  <2>1. Hosted!Fill(<<"size", wnd.want>>, then)
    BY <1>1, <1>4 DEF Hosted!Resize, Hosted!B
  <2>2. wnd.want \in Nat
    BY Zenon, <1>3 DEF WindowType
  <2>3. <<"size", wnd.want>> \in Commands
    BY <2>2 DEF Commands
  <2> QED
    BY <1>2, <1>4, <2>1, <2>3, FillKeeps
<1>5. CASE ~(wnd.want # 0 /\ wnd.want # wnd.sent /\ ~wnd.ended /\ ~Hosted!Full(blk[wnd.slot]))
  <2>1. Hosted!Go(then) /\ Hosted!Same /\ UNCHANGED blk
    BY <1>1, <1>5 DEF Hosted!Resize, Hosted!B
  <2> QED
    BY Zenon, <1>2, <2>1, GoKeeps
<1> QED
  BY <1>4, <1>5

\* ... and then the program may see it.
LEMMA SendKeeps == ASSUME HostedSizes, HostedInv, Hosted!SendStep PROVE HostedInv'
<1> DEFINE b == blk[wnd.slot]
           h == slot[wnd.slot].child
           p == prog[h]
           cmd == wnd.cmd
           size2 == IF cmd[1] = "size" THEN cmd[2] ELSE wnd.sent
           q == Append(b.queued, cmd)
           t == (b.head + 1) % IndexMod
           d == [b EXCEPT !.head = t, !.queued = q]
           w == [wnd EXCEPT !.pc = wnd.next, !.sent = size2]
           n == Len(p.taken)
           k == Len(b.queued)
<1>1. wnd.pc = "send" /\ UNCHANGED <<slot, prog, count>> /\ wnd' = w /\ blk' = [blk EXCEPT ![wnd.slot] = d]
  <2>1. wnd.pc = "send" /\ UNCHANGED <<slot, prog, count>>
    BY DEF Hosted!SendStep, Hosted!At, Hosted!Same
  <2>2. wnd' = w
    BY DEF Hosted!SendStep
  <2>3. blk' = [blk EXCEPT ![wnd.slot] = d]
    BY SMTT(60) DEF Hosted!SendStep, Hosted!B
  <2> QED
    BY <2>1, <2>2, <2>3
<1>2. wnd \in WindowType /\ b \in BlockType /\ Shared(b, p, h) /\ Looks(b, p, wnd, h) /\ p \in ProgramType
  BY <1>1, WindowHas
<1>3. Queue \in Nat \ {0} /\ IndexMod \in Nat \ {0} /\ IndexMod > Queue
  BY DEF HostedSizes
<1>4. /\ b.queued \in Seq(Commands) /\ b.head \in Nat /\ k \in Nat /\ n \in Nat /\ cmd \in Commands /\ wnd.sent \in Nat
      /\ wnd.next \in {"top", "exit", "front"}
  <2>1. b.queued \in Seq(Commands) /\ b.head \in Nat
    BY <1>2 DEF BlockType
  <2>2. p.taken \in Seq(Commands)
    BY <1>2 DEF ProgramType
  <2>3. cmd \in Commands /\ wnd.sent \in Nat /\ wnd.next \in {"top", "exit", "front"}
    BY Zenon, <1>2 DEF WindowType
  <2>4. k \in Nat /\ n \in Nat
    BY SMTT(60), <2>1, <2>2
  <2> QED
    BY <2>1, <2>3, <2>4
<1>5. size2 \in Nat /\ cmd = <<cmd[1], cmd[2]>>
  BY <1>4 DEF Commands
<1>6. q \in Seq(Commands) /\ Len(q) = k + 1 /\ (\A i \in 1 .. k : q[i] = b.queued[i]) /\ q[k + 1] = cmd
  BY <1>4
<1>7. t \in Nat
  BY <1>3, <1>4
<1> HIDE DEF t, q, size2
<1>8. /\ d \in BlockType /\ d.frames = b.frames /\ d.head = t /\ d.tail = b.tail /\ d.frame = b.frame
      /\ d.cells = b.cells /\ d.queued = q /\ d.copy = b.copy /\ d.text = b.text /\ d.exited = b.exited
  BY <1>2, <1>6, <1>7 DEF BlockType
<1>9. /\ w \in WindowType /\ w.pc = wnd.next /\ w.slot = wnd.slot /\ w.sent = size2 /\ w.pic = wnd.pic
      /\ w.shown = wnd.shown /\ w.ended = wnd.ended /\ w.clip = wnd.clip
  BY Zenon, <1>2, <1>4, <1>5 DEF WindowType
<1> HIDE DEF d, w
<1>10. ASSUME p.pc \notin Away PROVE RingOk(d, p)
  <2>1. /\ n <= k /\ k <= n + Queue /\ b.head = k % IndexMod /\ b.tail = n % IndexMod
        /\ (\A i \in 1 .. n : p.taken[i] = b.queued[i])
        /\ (\A i \in n + 1 .. k : b.cells[(i - 1) % Queue] = b.queued[i])
        /\ (p.pc = "took" => n < k /\ p.cmd = b.queued[n + 1])
    BY <1>2, <1>10 DEF Shared, RingOk
  <2>2. k < n + Queue /\ b.cells[k % Queue] = cmd
    BY SMTT(60), <1>1, <1>2, <1>10 DEF Looks, SendOk
  <2>3. t = (k + 1) % IndexMod
    BY <1>3, <1>4, <2>1, IndexPlus DEF t
  <2> HIDE DEF n, k
  <2>4. n <= k + 1 /\ k + 1 <= n + Queue
    BY <1>3, <1>4, <2>1, <2>2
  <2>5. \A i \in 1 .. n : p.taken[i] = q[i]
    <3>1. \A i \in 1 .. n : i \in 1 .. k
      BY <1>4, <2>1
    <3> QED
      BY <1>6, <2>1, <3>1
  <2>6. ASSUME NEW i \in n + 1 .. k + 1 PROVE b.cells[(i - 1) % Queue] = q[i]
    <3>1. CASE i = k + 1
      BY <1>4, <1>6, <2>2, <3>1
    <3>2. CASE i # k + 1
      <4>1. i \in n + 1 .. k /\ i \in 1 .. k
        BY <1>4, <3>2
      <4> QED
        BY <1>6, <2>1, <4>1
    <3> QED
      BY <3>1, <3>2
  <2>7. p.pc = "took" => n < k + 1 /\ p.cmd = q[n + 1]
    <3>1. n < k => n + 1 \in 1 .. k /\ n < k + 1
      BY SMTT(60), <1>4
    <3> QED
      BY <1>6, <2>1, <3>1
  <2>8. Len(p.taken) = n /\ Len(d.queued) = k + 1 /\ d.tail = n % IndexMod
    <3>1. Len(p.taken) = n
      BY Zenon DEF n
    <3>2. Len(d.queued) = k + 1
      BY Zenon, <1>6, <1>8
    <3>3. d.tail = n % IndexMod
      BY ZenonT(60), <1>8, <2>1
    <3> QED
      BY Zenon, <3>1, <3>2, <3>3
  <2> QED
    BY SMTT(60), <1>8, <2>3, <2>4, <2>5, <2>6, <2>7, <2>8 DEF RingOk
<1>11. Shared(d, p, h)
  BY <1>2, <1>8, <1>10 DEF Shared, FramesOk, DrawOk
<1>12. w.pc \notin {"closed", "send", "copied", "claim", "left half", "right half", "painted"}
  BY Zenon, <1>4, <1>9
<1>13. ReadOk(d, w, h)
  BY Zenon, <1>1, <1>2, <1>8, <1>9, <1>12 DEF Looks, ReadOk
<1>14. ClipOk(d, w) /\ (p.pc \notin Away => CopyOk(d, p, w) /\ SendOk(d, p, w))
  BY Zenon, <1>1, <1>2, <1>8, <1>9, <1>12 DEF Looks, ClipOk, CopyOk, SendOk
<1>15. SizeOk(d, w)
  <2>1. CASE cmd[1] = "size"
    <3>1. q[k + 1] = <<"size", size2>> /\ k + 1 \in 1 .. Len(q) /\ \A j \in (k + 1) + 1 .. Len(q) : q[j][1] # "size"
      BY SMTT(60), <1>4, <1>5, <1>6, <2>1 DEF size2
    <3>2. LastSize(q, size2)
      BY <3>1 DEF LastSize
    <3> QED
      BY <1>8, <1>9, <3>2 DEF SizeOk
  <2>2. CASE cmd[1] # "size"
    <3>1. size2 = wnd.sent
      BY <2>2 DEF size2
    <3>2. ASSUME LastSize(b.queued, wnd.sent) PROVE LastSize(q, wnd.sent)
      <4>1. PICK i \in 1 .. k : b.queued[i] = <<"size", wnd.sent>> /\ \A j \in i + 1 .. k : b.queued[j][1] # "size"
        BY <3>2 DEF LastSize
      <4> HIDE DEF k
      <4>2. i \in 1 .. Len(q) /\ q[i] = <<"size", wnd.sent>>
        BY <1>4, <1>6, <4>1
      <4>3. ASSUME NEW j \in i + 1 .. Len(q) PROVE q[j][1] # "size"
        <5>1. CASE j = k + 1
          BY <1>6, <2>2, <5>1
        <5>2. CASE j # k + 1
          <6>1. j \in i + 1 .. k /\ j \in 1 .. k
            BY <1>4, <1>6, <5>2
          <6> QED
            BY <1>6, <4>1, <6>1
        <5> QED
          BY <5>1, <5>2
      <4> QED
        BY <4>2, <4>3 DEF LastSize
    <3>3. SizeOk(b, wnd)
      BY <1>2 DEF Looks
    <3> QED
      BY <1>8, <1>9, <3>1, <3>2, <3>3 DEF SizeOk
  <2> QED
    BY <2>1, <2>2
<1>16. Looks(d, p, w, h)
  BY <1>13, <1>14, <1>15 DEF Looks
<1> QED
  BY Zenon, <1>1, <1>8, <1>9, <1>11, <1>12, <1>16, WindowKeeps

-----------------------------------------------------------------------------
\* Windows and programs come and go.

LEMMA LeastExists ==
  ASSUME NEW S, S \subseteq Nat, S # {} PROVE \E x \in S : \A y \in S : x <= y
<1>1. PICK x \in S : \A y \in S : ~(<<y, x>> \in OpToRel(<, Nat))
  BY WFMin, NatLessThanWellFounded, Zenon
<1>2. ASSUME NEW y \in S PROVE x <= y
  <2>1. ~(y < x)
    BY <1>1 DEF OpToRel
  <2> QED
    BY <2>1
<1> QED
  BY <1>2

LEMMA ClearedIs ==
  ASSUME HostedSizes
  PROVE  /\ Hosted!Cleared \in BlockType /\ ~Hosted!Cleared.exited /\ ~Hosted!Cleared.copy /\ Hosted!Cleared.queued = << >>
         /\ Hosted!Cleared.head = 0 /\ Hosted!Cleared.tail = 0 /\ \A h : FramesOk(Hosted!Cleared, h)
<1>1. <<"none", 0>> \in Commands /\ << >> \in Seq(Commands)
  BY DEF Commands
<1>2. Hosted!Frame \in FrameType /\ Hosted!Frame.px = Hosted!NoPixels
  BY NoPixelsIs DEF Hosted!Frame, FrameType
<1> DEFINE cells == [i \in 0 .. Queue - 1 |-> <<"none", 0>>]
           both == [i \in 0 .. 1 |-> Hosted!Frame]
<1>3. cells \in [0 .. Queue - 1 -> Commands] /\ both \in [0 .. 1 -> FrameType] /\ \A i \in {0, 1} : both[i] = Hosted!Frame
  BY <1>1, <1>2, Bits
<1>4. Hosted!Cleared = [quit |-> FALSE, exited |-> FALSE, error |-> FALSE, head |-> 0, tail |-> 0, cells |-> cells,
            front |-> 2, frame |-> 0, frames |-> both, copy |-> FALSE, text |-> 0, attention |-> FALSE, queued |-> <<>>]
  BY DEF Hosted!Cleared
<1> HIDE DEF cells, both
<1>5. Hosted!Cleared \in BlockType /\ Hosted!Cleared.frames = both
  BY <1>1, <1>3, <1>4 DEF BlockType
<1>6. ASSUME NEW h PROVE FramesOk(Hosted!Cleared, h)
  <2>1. WholeFrame(Hosted!Frame, h)
    BY <1>2, NoPixelsIs DEF WholeFrame
  <2> QED
    BY <1>3, <1>5, <2>1 DEF FramesOk
<1> QED
  BY <1>4, <1>5, <1>6

LEMMA HostedInit == ASSUME HostedSizes, Hosted!Init PROVE HostedInv
<1>1. Hosted!Free \in [child : Nat, orphan : BOOLEAN] /\ Hosted!Free.child = 0
  BY DEF Hosted!Free
<1>2. <<"none", 0>> \in Commands /\ << >> \in Seq(Commands) /\ << >> \in Seq(Nat)
  BY DEF Commands
<1>3. Hosted!Closed \in WindowType /\ Hosted!Closed.pc = "closed"
  BY <1>2, NoPixelsIs DEF Hosted!Closed, WindowType
<1> DEFINE fresh == [Hosted!Gone EXCEPT !.pc = "none"]
<1>4. fresh \in ProgramType /\ fresh.pc = "none"
  BY GoneIs DEF ProgramType, Away
<1> HIDE DEF fresh
<1>5. /\ blk = [s \in HostedSlots |-> Hosted!Cleared] /\ slot = [s \in HostedSlots |-> Hosted!Free] /\ wnd = Hosted!Closed
      /\ prog = [h \in Hosted!Launches |-> fresh]
  BY DEF Hosted!Init, fresh
<1>6. count \in [started : {0}, most : HostedBounds]
  BY DEF Hosted!Init
<1>7. count \in [started : Nat, most : HostedBounds] /\ count.started = 0
  BY <1>6
<1>8. HostedTypes
  BY <1>1, <1>3, <1>4, <1>5, <1>7, ClearedIs DEF HostedTypes
<1>9. \A h \in Hosted!Launches : prog[h].pc = "none" /\ h > 0
  BY <1>4, <1>5 DEF HostedSizes, Hosted!Launches
<1>10. \A s \in HostedSlots : slot[s].child = 0
  BY <1>1, <1>5
<1>11. SlotOwned
  BY <1>3, <1>5, <1>7, <1>9, <1>10 DEF SlotOwned, HostedSizes, Away
<1> QED
  BY <1>3, <1>5, <1>8, <1>10, <1>11 DEF HostedInv

\* Blocks whose programs have left are given back, or are left to programs that go on.
LEMMA ReleaseKeeps ==
  ASSUME HostedSizes, HostedInv, UNCHANGED <<prog, count>>, wnd' \in WindowType,
         blk' \in [HostedSlots -> BlockType], slot' \in [HostedSlots -> [child : Nat, orphan : BOOLEAN]],
         \A s \in HostedSlots : \/ slot'[s].child = slot[s].child /\ blk'[s] = blk[s]
                                \/ slot'[s].child = 0 /\ (slot[s].child # 0 => prog[slot[s].child].pc \in {"left", "gone"}),
         wnd'.pc # "closed" => wnd' = wnd /\ slot'[wnd.slot] = slot[wnd.slot] /\ blk'[wnd.slot] = blk[wnd.slot]
  PROVE  HostedInv'
<1>1. HostedTypes'
  BY DEF HostedInv, HostedTypes
<1>2. SlotOwned'
  <2>1. count'.started \in 0 .. MaxLaunches /\ \A h \in Hosted!Launches : h > count'.started <=> prog'[h].pc = "none"
    BY DEF HostedInv, SlotOwned
  <2>2. ASSUME NEW h \in Hosted!Launches, prog'[h].pc \notin Away
        PROVE  prog'[h].slot \in HostedSlots /\ slot'[prog'[h].slot].child = h
    <3>1. prog[h].slot \in HostedSlots /\ slot[prog[h].slot].child = h /\ h # 0 /\ prog[h].pc \notin {"left", "gone"}
      BY <2>2, ProgramHas DEF Away
    <3> QED
      BY <3>1
  <2>3. ASSUME NEW s \in HostedSlots, slot'[s].child # 0
        PROVE  LET h == slot'[s].child
               IN  /\ h \in 1 .. count'.started
                   /\ prog'[h].pc \notin Away => prog'[h].slot = s
                   /\ blk'[s].exited => prog'[h].pc \in {"left", "gone"}
    BY <2>3 DEF HostedInv, SlotOwned
  <2>4. wnd'.pc # "closed" =>
          /\ wnd'.slot \in HostedSlots /\ slot'[wnd'.slot].child # 0 /\ ~slot'[wnd'.slot].orphan
          /\ wnd'.ended => prog'[slot'[wnd'.slot].child].pc \in {"left", "gone"}
    BY DEF HostedInv, SlotOwned
  <2> QED
    BY <2>1, <2>2, <2>3, <2>4 DEF SlotOwned
<1>3. ASSUME NEW s \in HostedSlots, slot'[s].child # 0 PROVE Shared(blk'[s], prog'[slot'[s].child], slot'[s].child)
  BY <1>3 DEF HostedInv
<1>4. ASSUME wnd'.pc # "closed" PROVE Looks(blk'[wnd'.slot], prog'[slot'[wnd'.slot].child], wnd', slot'[wnd'.slot].child)
  BY <1>4 DEF HostedInv
<1> QED
  BY <1>1, <1>2, <1>3, <1>4 DEF HostedInv

\* What hostedKeepAlive() gives back nobody uses.
LEMMA KeptIs ==
  ASSUME HostedSizes, HostedInv, NEW reap \in {Hosted!Said, {s \in HostedSlots : Hosted!Reapable(s)}}
  PROVE  /\ Hosted!Kept(reap) \in [HostedSlots -> [child : Nat, orphan : BOOLEAN]]
         /\ \A s \in HostedSlots : \/ s \notin reap /\ Hosted!Kept(reap)[s] = slot[s]
                                   \/ /\ s \in reap /\ Hosted!Kept(reap)[s].child = 0 /\ slot[s].orphan
                                      /\ slot[s].child # 0 => prog[slot[s].child].pc \in {"left", "gone"}
<1>1. Hosted!Free \in [child : Nat, orphan : BOOLEAN] /\ Hosted!Free.child = 0
  BY DEF Hosted!Free
<1>2. \A s \in HostedSlots : s \in reap => Hosted!Reapable(s)
  BY DEF Hosted!Said
<1>3. slot \in [HostedSlots -> [child : Nat, orphan : BOOLEAN]]
  BY DEF HostedInv, HostedTypes
<1>4. ASSUME NEW s \in HostedSlots, s \in reap PROVE slot[s].orphan /\ prog[slot[s].child].pc \in {"left", "gone"}
  <2>1. slot[s].child # 0 /\ slot[s].orphan /\ (blk[s].exited \/ FALSE \in Hosted!Alive(slot[s].child))
    BY <1>2, <1>4 DEF Hosted!Reapable
  <2>2. blk[s].exited => prog[slot[s].child].pc \in {"left", "gone"}
    BY <2>1 DEF HostedInv, SlotOwned
  <2>3. FALSE \in Hosted!Alive(slot[s].child) => prog[slot[s].child].pc = "gone"
    BY DEF Hosted!Alive
  <2> QED
    BY <2>1, <2>2, <2>3
<1>5. \A s \in HostedSlots : Hosted!Kept(reap)[s] = IF s \in reap THEN Hosted!Free ELSE slot[s]
  BY DEF Hosted!Kept
<1>6. Hosted!Kept(reap) \in [HostedSlots -> [child : Nat, orphan : BOOLEAN]]
  BY <1>1, <1>3 DEF Hosted!Kept
<1> QED
  BY <1>1, <1>4, <1>5, <1>6

LEMMA KeepAliveKeeps == ASSUME HostedSizes, HostedInv, Hosted!KeepAlive PROVE HostedInv'
<1>1. PICK reap \in {Hosted!Said, {s \in HostedSlots : Hosted!Reapable(s)}} :
        slot' = Hosted!Kept(reap) /\ blk' = [s \in HostedSlots |-> IF s \in reap THEN Hosted!Cleared ELSE blk[s]]
  BY DEF Hosted!KeepAlive
<1>2. UNCHANGED <<wnd, prog, count>> /\ wnd \in WindowType /\ blk \in [HostedSlots -> BlockType]
  BY DEF Hosted!KeepAlive, HostedInv, HostedTypes
<1>3. blk' \in [HostedSlots -> BlockType]
  BY <1>1, <1>2, ClearedIs
<1>4. slot' \in [HostedSlots -> [child : Nat, orphan : BOOLEAN]]
  BY <1>1, KeptIs
<1>5. ASSUME NEW s \in HostedSlots
      PROVE  \/ slot'[s] = slot[s] /\ blk'[s] = blk[s]
             \/ slot'[s].child = 0 /\ slot[s].orphan /\ (slot[s].child # 0 => prog[slot[s].child].pc \in {"left", "gone"})
  BY <1>1, KeptIs
<1>6. wnd.pc # "closed" => wnd.slot \in HostedSlots /\ ~slot[wnd.slot].orphan
  BY WindowHas
<1> QED
  BY <1>2, <1>3, <1>4, <1>5, <1>6, ReleaseKeeps

LEMMA ReapKeeps == ASSUME HostedSizes, HostedInv, Hosted!Reap PROVE HostedInv'
<1>1. wnd.pc = "reap" /\ wnd' = Hosted!Closed /\ UNCHANGED <<prog, count>>
  BY DEF Hosted!Reap
<1>2. /\ wnd.slot \in HostedSlots /\ blk \in [HostedSlots -> BlockType]
      /\ blk[wnd.slot].exited => prog[slot[wnd.slot].child].pc \in {"left", "gone"}
  BY <1>1, WindowHas
<1>3. slot \in [HostedSlots -> [child : Nat, orphan : BOOLEAN]]
  BY DEF HostedInv, HostedTypes
<1>4. Hosted!Closed \in WindowType /\ Hosted!Closed.pc = "closed"
  <2>1. <<"none", 0>> \in Commands /\ << >> \in Seq(Nat)
    BY DEF Commands
  <2> QED
    BY <2>1, NoPixelsIs DEF Hosted!Closed, WindowType
<1>5. Hosted!Free \in [child : Nat, orphan : BOOLEAN] /\ Hosted!Free.child = 0
  BY DEF Hosted!Free
<1>6. PICK alive \in Hosted!Alive(slot[wnd.slot].child) :
        IF blk[wnd.slot].exited \/ ~alive
        THEN slot' = [slot EXCEPT ![wnd.slot] = Hosted!Free] /\ blk' = [blk EXCEPT ![wnd.slot] = Hosted!Cleared]
        ELSE slot' = [slot EXCEPT ![wnd.slot].orphan = TRUE] /\ UNCHANGED blk
  BY DEF Hosted!Reap, Hosted!B, Hosted!C
<1>7. CASE blk[wnd.slot].exited \/ ~alive
  <2>1. prog[slot[wnd.slot].child].pc \in {"left", "gone"}
    BY <1>2, <1>6, <1>7 DEF Hosted!Alive
  <2>2. slot' = [slot EXCEPT ![wnd.slot] = Hosted!Free] /\ blk' = [blk EXCEPT ![wnd.slot] = Hosted!Cleared]
    BY <1>6, <1>7
  <2>3. blk' \in [HostedSlots -> BlockType] /\ slot' \in [HostedSlots -> [child : Nat, orphan : BOOLEAN]]
    BY <1>2, <1>3, <1>5, <2>2, ClearedIs
  <2>4. ASSUME NEW s \in HostedSlots
        PROVE  \/ slot'[s].child = slot[s].child /\ blk'[s] = blk[s]
               \/ slot'[s].child = 0 /\ (slot[s].child # 0 => prog[slot[s].child].pc \in {"left", "gone"})
    BY <1>2, <1>3, <1>5, <2>1, <2>2
  <2> QED
    BY <1>1, <1>4, <2>3, <2>4, ReleaseKeeps
<1>8. CASE ~(blk[wnd.slot].exited \/ ~alive)
  <2>1. slot' = [slot EXCEPT ![wnd.slot].orphan = TRUE] /\ UNCHANGED blk
    BY <1>6, <1>8
  <2>2. slot' \in [HostedSlots -> [child : Nat, orphan : BOOLEAN]] /\ \A s \in HostedSlots : slot'[s].child = slot[s].child
    BY <1>2, <1>3, <2>1
  <2> QED
    BY <1>1, <1>2, <1>4, <2>1, <2>2, ReleaseKeeps
<1> QED
  BY <1>7, <1>8

LEMMA KillKeeps == ASSUME HostedSizes, HostedInv, Hosted!Kill PROVE HostedInv'
<1> DEFINE w == [wnd EXCEPT !.pc = "reap"]
           h == slot[wnd.slot].child
<1>1. wnd.pc = "wait" /\ wnd' = w /\ UNCHANGED <<blk, slot, count>> /\ prog' \in {prog, [prog EXCEPT ![h] = Hosted!Gone]}
  BY SMTT(60) DEF Hosted!Kill, Hosted!C
<1>2. wnd \in WindowType /\ h \in Hosted!Launches /\ prog[h].pc # "none"
  BY <1>1, WindowHas
<1>3. /\ w \in WindowType /\ w.pc = "reap" /\ w.slot = wnd.slot /\ w.sent = wnd.sent /\ w.clip = wnd.clip
      /\ w.pic = wnd.pic /\ w.shown = wnd.shown /\ w.ended = wnd.ended
  BY Zenon, <1>2 DEF WindowType
<1> HIDE DEF w
<1>4. CASE UNCHANGED prog
  BY Zenon, <1>1, <1>3, <1>4, WindowGoesOn
<1>5. CASE prog' = [prog EXCEPT ![h] = Hosted!Gone]
  <2>1. ASSUME NEW p \in ProgramType, NEW x \in Nat, Looks(blk[wnd.slot], p, wnd, x) PROVE Looks(blk[wnd.slot], p, w, x)
    <3> DEFINE b == blk[wnd.slot]
    <3>1. ReadOk(b, w, x)
      BY <1>1, <1>3, <2>1 DEF Looks, ReadOk
    <3>2. SizeOk(b, w)
      BY <1>1, <1>3, <2>1 DEF Looks, SizeOk
    <3>3. w.pc # "copied" /\ wnd.pc # "copied" /\ w.pc # "send" /\ w.clip = wnd.clip
      BY <1>1, <1>3
    <3> HIDE DEF b
    <3>4. ClipOk(b, w)
      BY <2>1, <3>3 DEF Looks, ClipOk, b
    <3>5. p.pc \notin Away => SendOk(b, p, w) /\ CopyOk(b, p, w)
      BY <2>1, <3>3 DEF Looks, SendOk, CopyOk, b
    <3> QED
      BY <3>1, <3>2, <3>4, <3>5 DEF Looks, b
  <2>2. wnd' \in WindowType /\ (wnd'.pc # "closed" <=> wnd.pc # "closed") /\ wnd'.slot = wnd.slot /\ wnd'.ended = wnd.ended
    BY <1>1, <1>3
  <2> QED
    BY <1>1, <1>2, <1>5, <2>1, <2>2, GoneKeeps
<1> QED
  BY <1>1, <1>4, <1>5

LEMMA RestartFailsKeeps == ASSUME HostedSizes, HostedInv, Hosted!RestartFails PROVE HostedInv'
<1> DEFINE w == [wnd EXCEPT !.dirty = TRUE, !.clip = <<>>]
           h == slot[wnd.slot].child
           p == prog[h]
           b == Hosted!Cleared
<1>1. wnd.pc = "top" /\ wnd.ended /\ wnd' = w /\ UNCHANGED <<slot, prog, count>> /\ blk' = [blk EXCEPT ![wnd.slot] = b]
  BY DEF Hosted!RestartFails
<1>2. wnd \in WindowType /\ p.pc \in {"left", "gone"} /\ Looks(blk[wnd.slot], p, wnd, h)
  BY <1>1, WindowHas
<1>3. /\ w \in WindowType /\ w.pc = "top" /\ w.slot = wnd.slot /\ w.clip = << >> /\ w.pic = wnd.pic /\ w.ended
  <2>1. << >> \in Seq(Nat)
    OBVIOUS
  <2> QED
    BY Zenon, <1>1, <1>2, <2>1 DEF WindowType
<1> HIDE DEF w
<1>4. Shared(b, p, h)
  BY <1>2, ClearedIs DEF Shared, Away
<1>5. ReadOk(b, w, h)
  BY <1>1, <1>2, <1>3 DEF Looks, ReadOk
<1>6. SizeOk(b, w) /\ ClipOk(b, w)
  BY SMTT(60), <1>3, ClearedIs DEF SizeOk, ClipOk
<1>7. Looks(b, p, w, h)
  BY SMTT(60), <1>2, <1>5, <1>6 DEF Looks, Away
<1> QED
  BY <1>1, <1>2, <1>3, <1>4, <1>7, ClearedIs, WindowKeeps

\* launch() in a slot that nobody uses, other slots having been given back.
LEMMA LaunchKeeps ==
  ASSUME HostedSizes, HostedInv, NEW s \in HostedSlots, NEW w \in WindowType, w.slot = s, w.pic.left = w.pic.right,
         NEW K \in [HostedSlots -> [child : Nat, orphan : BOOLEAN]],
         \A t \in HostedSlots : \/ K[t] = slot[t]
                                \/ K[t].child = 0 /\ (slot[t].child # 0 => prog[slot[t].child].pc \in {"left", "gone"}),
         slot[s].child # 0 => prog[slot[s].child].pc \in {"left", "gone"},
         Hosted!Launch(s, w), slot' = [K EXCEPT ![s] = [child |-> count.started + 1, orphan |-> FALSE]]
  PROVE  HostedInv'
<1> DEFINE p == [Hosted!Gone EXCEPT !.pc = "start", !.slot = s]
           v == Hosted!Launched(w)
<1>1. PICK c \in Nat : c = count.started + 1
  BY DEF HostedInv, HostedTypes
<1>2. c \in Hosted!Launches /\ c # 0 /\ prog[c].pc = "none" /\ MaxLaunches \in Nat
  <2>1. count.most \in HostedBounds /\ count.started \in Nat /\ count.started < count.most.launches
    BY DEF HostedInv, HostedTypes, Hosted!Launch
  <2>2. count.most.launches \in 0 .. MaxLaunches /\ MaxLaunches \in Nat
    BY <2>1 DEF HostedSizes
  <2>3. c \in Hosted!Launches /\ c > count.started /\ c # 0
    BY <1>1, <2>1, <2>2 DEF Hosted!Launches
  <2> QED
    BY <2>2, <2>3 DEF HostedInv, SlotOwned
<1>3. /\ count' = [count EXCEPT !.started = c] /\ blk' = [blk EXCEPT ![s] = Hosted!Cleared]
      /\ prog' = [prog EXCEPT ![c] = p] /\ wnd' = v /\ slot' = [K EXCEPT ![s] = [child |-> c, orphan |-> FALSE]]
  BY <1>1 DEF Hosted!Launch
<1>4. count' \in [started : Nat, most : HostedBounds] /\ count'.started = c
  BY <1>3 DEF HostedInv, HostedTypes
<1>5. p \in ProgramType /\ p.pc = "start" /\ p.slot = s /\ p.taken = << >> /\ p.copies = 0
  <2>1. Hosted!Gone \in ProgramType /\ Hosted!Gone.taken = << >> /\ Hosted!Gone.copies = 0
    BY GoneIs DEF Hosted!Gone
  <2>2. s \in Nat
    BY DEF HostedSizes
  <2> QED
    BY <2>1, <2>2 DEF ProgramType
<1>6. /\ v \in WindowType /\ v.pc = "top" /\ v.slot = s /\ v.shown = 0 /\ v.sent = 0 /\ v.ended = FALSE /\ v.clip = << >>
      /\ v.pic = w.pic
  <2>1. << >> \in Seq(Nat)
    OBVIOUS
  <2> QED
    BY Zenon, <2>1 DEF Hosted!Launched, WindowType
<1> HIDE DEF p, v
<1>7. /\ prog \in [Hosted!Launches -> ProgramType] /\ blk \in [HostedSlots -> BlockType]
      /\ slot \in [HostedSlots -> [child : Nat, orphan : BOOLEAN]]
  BY DEF HostedInv, HostedTypes
<1>8. /\ prog'[c] = p /\ (\A h \in Hosted!Launches : h # c => prog'[h] = prog[h])
      /\ blk'[s] = Hosted!Cleared /\ (\A t \in HostedSlots : t # s => blk'[t] = blk[t])
      /\ slot'[s] = [child |-> c, orphan |-> FALSE] /\ (\A t \in HostedSlots : t # s => slot'[t] = K[t])
  BY <1>2, <1>3, <1>7
<1>9. slot'[s].child = c /\ slot'[s].orphan = FALSE
  BY <1>8
<1>10. HostedTypes'
  <2>1. prog' \in [Hosted!Launches -> ProgramType] /\ blk' \in [HostedSlots -> BlockType] /\ wnd' \in WindowType
    BY <1>3, <1>5, <1>6, <1>7, ClearedIs
  <2>2. [child |-> c, orphan |-> FALSE] \in [child : Nat, orphan : BOOLEAN]
    OBVIOUS
  <2>3. slot' \in [HostedSlots -> [child : Nat, orphan : BOOLEAN]]
    BY <1>3, <2>2
  <2> QED
    BY <1>4, <2>1, <2>3 DEF HostedTypes
<1>11. \A t \in HostedSlots : slot[t].child # 0 =>
         slot[t].child \in 1 .. count.started /\ slot[t].child \in Hosted!Launches /\ slot[t].child # c
  <2>1. count.started \in 0 .. MaxLaunches /\ count.started \in Nat
    BY DEF HostedInv, HostedTypes, SlotOwned
  <2>2. ASSUME NEW t \in HostedSlots, slot[t].child # 0 PROVE slot[t].child \in 1 .. count.started
    BY <2>2 DEF HostedInv, SlotOwned
  <2>3. \A x \in 1 .. count.started : x \in Hosted!Launches /\ x # c
    BY <1>1, <1>2, <2>1 DEF Hosted!Launches
  <2> QED
    BY <2>2, <2>3
<1>12. SlotOwned'
  <2>1. count'.started \in 0 .. MaxLaunches
    BY <1>2, <1>4 DEF Hosted!Launches
  <2>2. ASSUME NEW h \in Hosted!Launches PROVE h > count'.started <=> prog'[h].pc = "none"
    <3>1. CASE h = c
      BY <1>1, <1>4, <1>5, <1>8, <3>1
    <3>2. CASE h # c
      <4>1. prog'[h] = prog[h] /\ (h > count.started <=> prog[h].pc = "none") /\ count.started \in Nat
        BY <1>8, <3>2 DEF HostedInv, HostedTypes, SlotOwned
      <4>2. h > count.started <=> h > c
        BY SMTT(60), <1>1, <1>2, <3>2, <4>1 DEF Hosted!Launches
      <4> QED
        BY SMTT(60), <1>4, <4>1, <4>2
    <3> QED
      BY <3>1, <3>2
  <2>3. ASSUME NEW h \in Hosted!Launches, prog'[h].pc \notin Away
        PROVE  prog'[h].slot \in HostedSlots /\ slot'[prog'[h].slot].child = h
    <3>1. CASE h = c
      BY <1>5, <1>8, <1>9, <3>1
    <3>2. CASE h # c
      <4>1. prog'[h] = prog[h] /\ prog[h].pc \notin Away
        BY <1>8, <2>3, <3>2
      <4>2. prog[h].slot \in HostedSlots /\ slot[prog[h].slot].child = h /\ h # 0 /\ prog[h].pc \notin {"left", "gone"}
        BY <4>1, ProgramHas DEF Away
      <4>3. prog[h].slot # s /\ K[prog[h].slot] = slot[prog[h].slot]
        BY <4>2
      <4> QED
        BY <1>8, <4>1, <4>2, <4>3
    <3> QED
      BY <3>1, <3>2
  <2>4. ASSUME NEW t \in HostedSlots, slot'[t].child # 0
        PROVE  LET h == slot'[t].child
               IN  /\ h \in 1 .. count'.started
                   /\ prog'[h].pc \notin Away => prog'[h].slot = t
                   /\ blk'[t].exited => prog'[h].pc \in {"left", "gone"}
    <3>1. CASE t = s
      <4>1. c \in 1 .. c
        BY <1>2
      <4> QED
        BY <1>4, <1>5, <1>8, <1>9, <3>1, <4>1, ClearedIs
    <3>2. CASE t # s
      <4>1. slot'[t] = slot[t] /\ blk'[t] = blk[t] /\ slot[t].child # 0
        BY <1>8, <2>4, <3>2
      <4>2. prog'[slot[t].child] = prog[slot[t].child]
        BY <1>8, <1>11, <4>1
      <4>3. slot[t].child \in 1 .. c
        <5>1. count.started \in Nat /\ slot[t].child \in 1 .. count.started
          BY <1>11, <4>1 DEF HostedInv, HostedTypes
        <5>2. \A x \in 1 .. count.started : x \in 1 .. c
          BY <1>1, <5>1
        <5> QED
          BY <5>1, <5>2
      <4> QED
        BY <1>4, <4>1, <4>2, <4>3 DEF HostedInv, SlotOwned
    <3> QED
      BY <3>1, <3>2
  <2>5. wnd'.pc # "closed" =>
          /\ wnd'.slot \in HostedSlots /\ slot'[wnd'.slot].child # 0 /\ ~slot'[wnd'.slot].orphan
          /\ wnd'.ended => prog'[slot'[wnd'.slot].child].pc \in {"left", "gone"}
    BY <1>2, <1>3, <1>6, <1>9
  <2> QED
    BY <2>1, <2>2, <2>3, <2>4, <2>5 DEF SlotOwned
<1>13. Shared(Hosted!Cleared, p, c)
  <2>1. IndexMod \in Nat \ {0} /\ Queue \in Nat /\ 0 % IndexMod = 0
    BY DEF HostedSizes
  <2>2. RingOk(Hosted!Cleared, p)
    <3>1. /\ p.taken = << >> /\ Hosted!Cleared.queued = << >> /\ p.pc # "took"
          /\ Hosted!Cleared.head = 0 /\ Hosted!Cleared.tail = 0
      BY <1>5, ClearedIs
    <3>2. PICK n \in Nat : n = Len(p.taken) /\ n = Len(Hosted!Cleared.queued) /\ n = 0
      BY <3>1
    <3>3. 0 <= 0 + Queue /\ (\A i \in 1 .. n : FALSE) /\ (\A i \in n + 1 .. n : FALSE)
      BY <2>1, <3>2
    <3> QED
      BY <2>1, <3>1, <3>2, <3>3 DEF RingOk
  <2> QED
    BY <1>5, <2>2, ClearedIs DEF Shared, DrawOk, Drawing
<1>14. ASSUME NEW t \in HostedSlots, slot'[t].child # 0 PROVE Shared(blk'[t], prog'[slot'[t].child], slot'[t].child)
  <2>1. CASE t = s
    BY <1>8, <1>9, <1>13, <2>1
  <2>2. CASE t # s
    <3>1. slot'[t] = slot[t] /\ blk'[t] = blk[t] /\ slot[t].child # 0
      BY <1>8, <1>14, <2>2
    <3>2. prog'[slot[t].child] = prog[slot[t].child]
      BY <1>8, <1>11, <3>1
    <3> QED
      BY <3>1, <3>2 DEF HostedInv
  <2> QED
    BY <2>1, <2>2
<1>15. Looks(Hosted!Cleared, p, v, c)
  <2>1. ReadOk(Hosted!Cleared, v, c) /\ SizeOk(Hosted!Cleared, v)
    BY <1>6 DEF ReadOk, SizeOk
  <2>2. ClipOk(Hosted!Cleared, v)
    BY <1>6, ClearedIs DEF ClipOk
  <2>3. SendOk(Hosted!Cleared, p, v) /\ CopyOk(Hosted!Cleared, p, v)
    BY <1>5, <1>6, ClearedIs DEF SendOk, CopyOk
  <2> QED
    BY <2>1, <2>2, <2>3 DEF Looks
<1>16. Looks(blk'[wnd'.slot], prog'[slot'[wnd'.slot].child], wnd', slot'[wnd'.slot].child)
  BY <1>3, <1>6, <1>8, <1>9, <1>15
<1> QED
  BY <1>10, <1>12, <1>14, <1>16 DEF HostedInv

LEMMA RestartKeeps == ASSUME HostedSizes, HostedInv, Hosted!Restart PROVE HostedInv'
<1>1. /\ wnd.pc = "top" /\ wnd.ended /\ Hosted!Launch(wnd.slot, wnd)
      /\ slot' = [slot EXCEPT ![wnd.slot] = [child |-> count.started + 1, orphan |-> FALSE]]
  BY DEF Hosted!Restart
<1>2. /\ wnd \in WindowType /\ wnd.slot \in HostedSlots /\ prog[slot[wnd.slot].child].pc \in {"left", "gone"}
      /\ Looks(blk[wnd.slot], prog[slot[wnd.slot].child], wnd, slot[wnd.slot].child)
  BY <1>1, WindowHas
<1>3. wnd.pic.left = wnd.pic.right
  BY <1>1, <1>2 DEF Looks, ReadOk
<1>4. slot \in [HostedSlots -> [child : Nat, orphan : BOOLEAN]]
  BY DEF HostedInv, HostedTypes
<1> QED
  BY <1>1, <1>2, <1>3, <1>4, LaunchKeeps

LEMMA OpenKeeps == ASSUME HostedSizes, HostedInv, Hosted!Open PROVE HostedInv'
<1> DEFINE free(reap) == {s \in count.most.slots : Hosted!Kept(reap)[s].child = 0}
           closed(s) == [Hosted!Closed EXCEPT !.slot = s]
<1>1. PICK reap \in {Hosted!Said, {s \in HostedSlots : Hosted!Reapable(s)}} :
        /\ free(reap) # {} /\ Hosted!Launch(Hosted!Min(free(reap)), closed(Hosted!Min(free(reap))))
        /\ slot' = [Hosted!Kept(reap) EXCEPT ![Hosted!Min(free(reap))] = [child |-> count.started + 1, orphan |-> FALSE]]
  BY DEF Hosted!Open
<1> DEFINE S == free(reap)
           K == Hosted!Kept(reap)
<1>2. S \subseteq HostedSlots /\ S \subseteq Nat
  <2>1. count.most \in HostedBounds
    BY DEF HostedInv, HostedTypes
  <2>2. count.most.slots \subseteq HostedSlots
    BY <2>1 DEF HostedSizes
  <2> QED
    BY <2>2 DEF HostedSizes
<1>3. \E x \in S : \A y \in S : x <= y
  BY <1>1, <1>2, LeastExists
<1>4. Hosted!Min(S) \in S
  BY <1>3 DEF Hosted!Min
<1>5. PICK s \in HostedSlots : s = Hosted!Min(S) /\ K[s].child = 0
  BY <1>2, <1>4
<1>6. Hosted!Launch(s, closed(s)) /\ slot' = [K EXCEPT ![s] = [child |-> count.started + 1, orphan |-> FALSE]]
  BY <1>1, <1>5
<1>7. /\ K \in [HostedSlots -> [child : Nat, orphan : BOOLEAN]]
      /\ \A t \in HostedSlots : \/ K[t] = slot[t]
                                \/ K[t].child = 0 /\ (slot[t].child # 0 => prog[slot[t].child].pc \in {"left", "gone"})
  BY KeptIs
<1>8. slot[s].child # 0 => prog[slot[s].child].pc \in {"left", "gone"}
  BY <1>5, <1>7
<1>9. closed(s) \in WindowType /\ closed(s).slot = s /\ closed(s).pic.left = closed(s).pic.right
  <2>1. <<"none", 0>> \in Commands /\ << >> \in Seq(Nat) /\ s \in Nat
    BY DEF Commands, HostedSizes
  <2>2. Hosted!Closed \in WindowType /\ Hosted!Closed.pic = Hosted!NoPixels
    BY <2>1, NoPixelsIs DEF Hosted!Closed, WindowType
  <2> QED
    BY Zenon, <2>1, <2>2, NoPixelsIs DEF WindowType
<1> HIDE DEF closed, K, S
<1> QED
  BY <1>6, <1>7, <1>8, <1>9, LaunchKeeps

LEMMA HostedStep == ASSUME HostedSizes, HostedInv, [Hosted!Next]_Hosted!vars PROVE HostedInv'
<1>1. CASE UNCHANGED Hosted!vars
  BY <1>1 DEF Hosted!vars, HostedInv, HostedTypes, SlotOwned
<1>2. CASE Hosted!User
  BY <1>2, OpenKeeps, SetsKeeps, KeyKeeps, RestartKeeps, RestartFailsKeeps, PaintKeeps DEF Hosted!User
<1>3. CASE Hosted!Idle
  BY <1>3, GoKeeps DEF Hosted!Idle, Hosted!At
<1>4. CASE Hosted!Window
  BY <1>4, SendKeeps, ResizeKeeps, SetsKeeps, ClipKeeps, ClippedKeeps, ChecksKeep, FrontKeeps, ClaimKeeps, HalfKeeps,
     KillKeeps, ReapKeeps DEF Hosted!Window
<1> QED
  BY SMTT(60), <1>1, <1>2, <1>3, <1>4, KeepAliveKeeps, ProgramStep DEF Hosted!Next

\* What the invariant says of windows and programs.
LEMMA HostedHolds ==
  ASSUME HostedSizes, HostedInv
  PROVE  Hosted!BlockOwned /\ Hosted!PictureWhole /\ Hosted!InputInOrder /\ Hosted!CopiesTaken
<1>1. Hosted!BlockOwned
  BY ProgramHas DEF Hosted!BlockOwned, Hosted!Touches, Away
<1>2. Hosted!PictureWhole
  BY WindowHas DEF Hosted!PictureWhole, Hosted!At, Hosted!C, Looks, ReadOk
<1>3. ASSUME NEW c \in Hosted!Launches, Hosted!Touches(c)
      PROVE  LET q == Hosted!P(c).queued
             IN  /\ prog[c].taken = SubSeq(q, 1, Len(prog[c].taken))
                 /\ Hosted!At("top") /\ wnd.slot = prog[c].slot /\ ~wnd.ended /\ wnd.sent # 0 =>
                      \E i \in DOMAIN q : /\ q[i] = <<"size", wnd.sent>>
                                          /\ \A k \in i + 1 .. Len(q) : q[k][1] # "size"
  <2> DEFINE b == blk[prog[c].slot]
             q == b.queued
             a == prog[c].taken
  <2>1. prog[c].pc \notin Away
    BY <1>3 DEF Hosted!Touches, Away
  <2>2. RingOk(b, prog[c]) /\ b \in BlockType /\ prog[c] \in ProgramType
    BY <2>1, ProgramHas
  <2>3. q \in Seq(Commands) /\ a \in Seq(Commands)
    BY <2>2 DEF BlockType, ProgramType
  <2>4. Len(a) <= Len(q) /\ \A i \in 1 .. Len(a) : a[i] = q[i]
    BY <2>2 DEF RingOk
  <2> HIDE DEF q, a
  <2>5. a = SubSeq(q, 1, Len(a))
    <3>1. SubSeq(q, 1, Len(a)) = [i \in 1 .. Len(a) |-> q[i]]
      BY <2>3, <2>4
    <3> QED
      BY <2>3, <2>4, <3>1
  <2>6. ASSUME Hosted!At("top"), wnd.slot = prog[c].slot, ~wnd.ended, wnd.sent # 0 PROVE LastSize(q, wnd.sent)
    BY <2>1, <2>6, ProgramHas DEF Hosted!At, Looks, SizeOk, q
  <2> QED
    BY SMTT(60), <2>3, <2>5, <2>6 DEF LastSize, Hosted!P, q, a
<1>4. Hosted!InputInOrder
  BY <1>3 DEF Hosted!InputInOrder
<1>5. Hosted!CopiesTaken
  <2>1. ASSUME Hosted!At("top") PROVE wnd.clip \in Seq(Nat) /\ \A i \in 1 .. Len(wnd.clip) : wnd.clip[i] = i
    BY Zenon, <2>1, WindowHas DEF Hosted!At, Looks, ClipOk, WindowType
  <2> QED
    BY <2>1 DEF Hosted!CopiesTaken
<1> QED
  BY <1>1, <1>2, <1>4, <1>5

-----------------------------------------------------------------------------
(* TheIrq: lines, and the frames of their handlers.                          *)

IrqSizes ==
    /\ MaxPending \in Nat /\ QueueCap \in Nat /\ MaxNesting \in Nat
    /\ IrqBounds \subseteq [keys : Nat, stack : Nat]

StackNames == {"main", "own"}
Flags == {"IF", "TF"}
Words == [k : {"call", "int", "irq0", "irq1"}, f : SUBSET Flags]
Cpus == [f : SUBSET Flags, stk : [StackNames -> Seq(Words)], ss : StackNames, state : {"run", "hlt", "off"}]
Places == {<< >>} \cup (Nat \X StackNames \X Nat)
LineNames == {0, 1}
FrameNotes == [LineNames -> Places]
Waiting == [cpu : Cpus, frame : FrameNotes, busy : SUBSET LineNames]
IrqTypes ==
    /\ cpu \in Cpus /\ irqParents \in Seq(Waiting)
    /\ pic \in [mask : SUBSET LineNames, request : SUBSET LineNames, busy : SUBSET LineNames, pending : Nat,
                frame : FrameNotes]
    /\ kbd \in [queue : Seq(Nat), port : Nat, full : BOOLEAN]
    /\ irqPast \in [typed : Nat, accepted : Seq(Nat), seen : Seq(Nat), most : IrqBounds]

\* A frame of line i's handler is at place n of stack s.
IrqKind(i) == IF i = 0 THEN "irq0" ELSE "irq1"
FrameAt(c, i, s, n) == n \in 1 .. Len(c.stk[s]) /\ c.stk[s][n].k = IrqKind(i)

\* A line is held exactly while there is a frame of its handler, of which there is one, at
\* the place that was noted: in c, or in one of the first d processes of P that wait.
HeldOk(c, P, d, busy, frame) ==
    \A i \in LineNames :
       /\ \A s \in StackNames, n \in Nat : FrameAt(c, i, s, n) => i \in busy /\ frame[i] = <<d, s, n>>
       /\ \A k \in 1 .. d, s \in StackNames, n \in Nat :
             FrameAt(P[k].cpu, i, s, n) => i \in busy /\ frame[i] = <<k - 1, s, n>>
       /\ i \in busy => \E s \in StackNames, n \in Nat :
             FrameAt(c, i, s, n) \/ \E k \in 1 .. d : FrameAt(P[k].cpu, i, s, n)
       /\ i \notin busy => frame[i] = << >>

IrqInv ==
    /\ IrqTypes /\ pic.pending <= MaxPending
    /\ HeldOk(cpu, irqParents, Len(irqParents), pic.busy, pic.frame)
    /\ \A k \in 1 .. Len(irqParents) :
          HeldOk(irqParents[k].cpu, irqParents, k - 1, irqParents[k].busy, irqParents[k].frame)
    /\ Irq!TicksRaised /\ Irq!KeysInOrder

LEMMA IrqNames ==
  /\ Irq!Lines = LineNames /\ Irq!Stacks = StackNames /\ Irq!NoFrame = << >>
  /\ \A c : Irq!StackLinear(c) = <<Len(irqParents), c.ss, Len(c.stk[c.ss])>>
  BY DEF Irq!Lines, Irq!Stacks, Irq!NoFrame, Irq!StackLinear, LineNames, StackNames

LEMMA FreshIs ==
  /\ Irq!Fresh \in Cpus /\ \A i \in LineNames, s \in StackNames, n \in Nat : ~FrameAt(Irq!Fresh, i, s, n)
  /\ Irq!NewPic.busy = {} /\ Irq!NewPic.frame = [i \in LineNames |-> << >>]
<1>1. Irq!Fresh = [f |-> {"IF"}, stk |-> [s \in StackNames |-> << >>], ss |-> "main", state |-> "run"]
  BY IrqNames DEF Irq!Fresh
<1>2. [s \in StackNames |-> << >>] \in [StackNames -> Seq(Words)]
  OBVIOUS
<1>3. Irq!Fresh \in Cpus
  BY <1>1, <1>2 DEF Cpus, StackNames, Flags
<1>4. ASSUME NEW i \in LineNames, NEW s \in StackNames, NEW n \in Nat PROVE ~FrameAt(Irq!Fresh, i, s, n)
  <2>1. Irq!Fresh.stk[s] = << >>
    BY <1>1
  <2> QED
    BY <2>1 DEF FrameAt
<1> QED
  BY <1>3, <1>4, IrqNames DEF Irq!NewPic

LEMMA PushIs ==
  ASSUME NEW c \in Cpus, NEW w \in Words
  PROVE  LET p == Irq!Push(c, w)
         IN  /\ p \in Cpus /\ p.ss = c.ss /\ p.f = c.f /\ p.state = c.state
             /\ Len(p.stk[c.ss]) = Len(c.stk[c.ss]) + 1
             /\ \A i \in LineNames, s \in StackNames, n \in Nat :
                   FrameAt(p, i, s, n) <=> \/ FrameAt(c, i, s, n)
                                           \/ s = c.ss /\ n = Len(c.stk[s]) + 1 /\ w.k = IrqKind(i)
<1> DEFINE p == Irq!Push(c, w)
           q == Append(c.stk[c.ss], w)
<1>1. c.ss \in StackNames /\ c.stk \in [StackNames -> Seq(Words)] /\ c.stk[c.ss] \in Seq(Words)
  BY DEF Cpus
<1>2. q \in Seq(Words) /\ Len(q) = Len(c.stk[c.ss]) + 1 /\ q[Len(c.stk[c.ss]) + 1] = w
      /\ \A n \in 1 .. Len(c.stk[c.ss]) : q[n] = c.stk[c.ss][n]
  BY <1>1
<1>3. /\ p \in Cpus /\ p.ss = c.ss /\ p.f = c.f /\ p.state = c.state
      /\ p.stk[c.ss] = q /\ \A s \in StackNames : s # c.ss => p.stk[s] = c.stk[s]
  <2> HIDE DEF q
  <2>1. p = [c EXCEPT !.stk = [@ EXCEPT ![c.ss] = q]]
    BY DEF Irq!Push, q
  <2> HIDE DEF p
  <2> QED
    BY <1>1, <1>2, <2>1 DEF Cpus
<1> HIDE DEF p, q
<1>4. ASSUME NEW i \in LineNames, NEW s \in StackNames, NEW n \in Nat
      PROVE  FrameAt(p, i, s, n) <=> \/ FrameAt(c, i, s, n)
                                     \/ s = c.ss /\ n = Len(c.stk[s]) + 1 /\ w.k = IrqKind(i)
  <2>1. CASE s # c.ss
    BY <1>3, <2>1 DEF FrameAt
  <2>2. CASE s = c.ss
    <3>1. PICK l \in Nat : l = Len(c.stk[s])
      BY <1>1, <2>2
    <3>2. n \in 1 .. l + 1 <=> n \in 1 .. l \/ n = l + 1
      BY <3>1
    <3>3. ~(l + 1 \in 1 .. l)
      BY <3>1
    <3> QED
      BY <1>2, <1>3, <2>2, <3>1, <3>2, <3>3 DEF FrameAt
  <2> QED
    BY <2>1, <2>2
<1> QED
  BY <1>2, <1>3, <1>4 DEF p

LEMMA PopIs ==
  ASSUME NEW c \in Cpus, c.stk[c.ss] # << >>
  PROVE  LET p == Irq!Pop(c)
         IN  /\ p \in Cpus /\ p.ss = c.ss /\ p.f = c.f /\ p.state = c.state
             /\ \A i \in LineNames, s \in StackNames, n \in Nat :
                   FrameAt(p, i, s, n) <=> FrameAt(c, i, s, n) /\ ~(s = c.ss /\ n = Len(c.stk[s]))
<1> DEFINE p == Irq!Pop(c)
           q == SubSeq(c.stk[c.ss], 1, Len(c.stk[c.ss]) - 1)
<1>1. c.ss \in StackNames /\ c.stk \in [StackNames -> Seq(Words)] /\ c.stk[c.ss] \in Seq(Words)
  BY DEF Cpus
<1>2. q \in Seq(Words) /\ Len(q) = Len(c.stk[c.ss]) - 1
      /\ \A n \in 1 .. Len(c.stk[c.ss]) - 1 : q[n] = c.stk[c.ss][n]
  BY <1>1
<1>3. /\ p \in Cpus /\ p.ss = c.ss /\ p.f = c.f /\ p.state = c.state
      /\ p.stk[c.ss] = q /\ \A s \in StackNames : s # c.ss => p.stk[s] = c.stk[s]
  <2> HIDE DEF q
  <2>1. p = [c EXCEPT !.stk = [@ EXCEPT ![c.ss] = q]]
    BY DEF Irq!Pop, q
  <2> HIDE DEF p
  <2> QED
    BY <1>1, <1>2, <2>1 DEF Cpus
<1> HIDE DEF p, q
<1>4. ASSUME NEW i \in LineNames, NEW s \in StackNames, NEW n \in Nat
      PROVE  FrameAt(p, i, s, n) <=> FrameAt(c, i, s, n) /\ ~(s = c.ss /\ n = Len(c.stk[s]))
  <2>1. CASE s # c.ss
    BY <1>3, <2>1 DEF FrameAt
  <2>2. CASE s = c.ss
    <3>1. PICK l \in Nat : l = Len(c.stk[s])
      BY <1>1, <2>2
    <3>2. n \in 1 .. l - 1 <=> n \in 1 .. l /\ n # l
      BY <3>1
    <3> QED
      BY <1>2, <1>3, <2>2, <3>1, <3>2 DEF FrameAt
  <2> QED
    BY <2>1, <2>2
<1> QED
  BY <1>3, <1>4 DEF p

\* What a machine's frames are decides; the processes above the depth do not.
LEMMA HeldSame ==
  ASSUME NEW c, NEW d, NEW P, NEW Q, NEW k \in Nat, NEW busy, NEW frame, HeldOk(c, P, k, busy, frame),
         \A i \in LineNames, s \in StackNames, n \in Nat : FrameAt(d, i, s, n) <=> FrameAt(c, i, s, n),
         \A j \in 1 .. k : Q[j].cpu = P[j].cpu
  PROVE  HeldOk(d, Q, k, busy, frame)
<1> SUFFICES ASSUME NEW i \in LineNames
             PROVE  /\ \A s \in StackNames, n \in Nat : FrameAt(d, i, s, n) => i \in busy /\ frame[i] = <<k, s, n>>
                    /\ \A j \in 1 .. k, s \in StackNames, n \in Nat :
                         FrameAt(Q[j].cpu, i, s, n) => i \in busy /\ frame[i] = <<j - 1, s, n>>
                    /\ i \in busy => \E s \in StackNames, n \in Nat :
                         FrameAt(d, i, s, n) \/ \E j \in 1 .. k : FrameAt(Q[j].cpu, i, s, n)
                    /\ i \notin busy => frame[i] = << >>
  BY DEF HeldOk
<1>1. \A s \in StackNames, n \in Nat : FrameAt(d, i, s, n) => i \in busy /\ frame[i] = <<k, s, n>>
  BY DEF HeldOk
<1>2. \A j \in 1 .. k, s \in StackNames, n \in Nat :
         FrameAt(Q[j].cpu, i, s, n) => i \in busy /\ frame[i] = <<j - 1, s, n>>
  BY DEF HeldOk
<1>3. i \in busy => \E s \in StackNames, n \in Nat :
         FrameAt(d, i, s, n) \/ \E j \in 1 .. k : FrameAt(Q[j].cpu, i, s, n)
  BY DEF HeldOk
<1> QED
  BY <1>1, <1>2, <1>3 DEF HeldOk

\* cpu_int() for a trap, a fault or an INT.
LEMMA IntIs ==
  ASSUME NEW c \in Cpus, NEW kind \in {"int", "irq0", "irq1"}
  PROVE  LET p == Irq!CpuInt(c, kind)
         IN  /\ p \in Cpus /\ p.ss = c.ss /\ p.state = c.state
             /\ Len(p.stk[c.ss]) = Len(c.stk[c.ss]) + 1
             /\ \A i \in LineNames, s \in StackNames, n \in Nat :
                   FrameAt(p, i, s, n) <=> \/ FrameAt(c, i, s, n)
                                           \/ s = c.ss /\ n = Len(c.stk[s]) + 1 /\ kind = IrqKind(i)
<1> DEFINE w == [k |-> kind, f |-> c.f]
           q == Irq!Push(c, w)
           p == Irq!CpuInt(c, kind)
<1>1. w \in Words /\ w.k = kind
  BY DEF Words, Cpus
<1>2. p = [q EXCEPT !.f = @ \ Flags]
  BY DEF Irq!CpuInt, Flags
<1> HIDE DEF w
<1>3. /\ q \in Cpus /\ q.ss = c.ss /\ q.state = c.state /\ Len(q.stk[c.ss]) = Len(c.stk[c.ss]) + 1
      /\ \A i \in LineNames, s \in StackNames, n \in Nat :
             FrameAt(q, i, s, n) <=> \/ FrameAt(c, i, s, n)
                                     \/ s = c.ss /\ n = Len(c.stk[s]) + 1 /\ kind = IrqKind(i)
  BY <1>1, PushIs
<1> HIDE DEF q, p
<1>4. p \in Cpus /\ p.ss = q.ss /\ p.state = q.state /\ p.stk = q.stk
  BY <1>2, <1>3 DEF Cpus
<1>5. \A i \in LineNames, s \in StackNames, n \in Nat : FrameAt(p, i, s, n) <=> FrameAt(q, i, s, n)
  BY <1>4 DEF FrameAt
<1> QED
  BY <1>3, <1>4, <1>5 DEF p

\* An instruction and the trap behind it.
LEMMA DoneIs ==
  ASSUME NEW c \in Cpus, NEW raised \in BOOLEAN, Irq!Done(c, raised), NEW P, NEW k \in Nat, NEW busy, NEW frame,
         HeldOk(c, P, k, busy, frame)
  PROVE  cpu' \in Cpus /\ HeldOk(cpu', P, k, busy, frame)
<1>1. cpu' = c \/ cpu' = Irq!CpuInt(c, "int")
  BY DEF Irq!Done
<1>2. CASE cpu' = c
  BY <1>2
<1>3. CASE cpu' = Irq!CpuInt(c, "int")
  <2>1. /\ cpu' \in Cpus
        /\ \A i \in LineNames, s \in StackNames, n \in Nat : FrameAt(cpu', i, s, n) <=> FrameAt(c, i, s, n)
    BY <1>3, IntIs DEF IrqKind
  <2> QED
    BY <2>1, HeldSame
<1> QED
  BY <1>1, <1>2, <1>3

\* A step that leaves the lines, the keyboard and the processes that wait alone.
LEMMA IrqPlain ==
  ASSUME IrqInv, NEW c \in Cpus, NEW raised \in BOOLEAN, Irq!Done(c, raised), Irq!Same,
         \A i \in LineNames, s \in StackNames, n \in Nat : FrameAt(c, i, s, n) <=> FrameAt(cpu, i, s, n)
  PROVE  IrqInv'
<1>1. irqParents' = irqParents /\ pic' = pic /\ kbd' = kbd /\ irqPast' = irqPast
  BY DEF Irq!Same
<1>2. Len(irqParents) \in Nat
  BY DEF IrqInv, IrqTypes
<1>3. cpu' \in Cpus /\ HeldOk(cpu', irqParents, Len(irqParents), pic.busy, pic.frame)
  BY <1>2, HeldSame, DoneIs DEF IrqInv
<1>4. IrqTypes' /\ Irq!TicksRaised' /\ Irq!KeysInOrder' /\ pic'.pending <= MaxPending
  BY <1>1, <1>3 DEF IrqInv, IrqTypes, Irq!TicksRaised, Irq!KeysInOrder
<1>5. \A k \in 1 .. Len(irqParents) :
        HeldOk(irqParents[k].cpu, irqParents, k - 1, irqParents[k].busy, irqParents[k].frame)
  BY DEF IrqInv
<1> QED
  BY <1>1, <1>3, <1>4, <1>5 DEF IrqInv

LEMMA TopIs ==
  ASSUME IrqInv, NEW kinds, Irq!HasTop(kinds)
  PROVE  /\ cpu.stk[cpu.ss] # << >> /\ cpu.stk[cpu.ss] \in Seq(Words) /\ Len(cpu.stk[cpu.ss]) \in Nat \ {0}
         /\ Irq!Top = cpu.stk[cpu.ss][Len(cpu.stk[cpu.ss])] /\ Irq!Top \in Words /\ Irq!Top.k \in kinds
<1>1. cpu.stk[cpu.ss] # << >> /\ cpu.stk[cpu.ss] \in Seq(Words) /\ Irq!Top.k \in kinds
  BY DEF IrqInv, IrqTypes, Cpus, Irq!HasTop
<1> QED
  BY <1>1 DEF Irq!Top

LEMMA SetFlagsKeeps == ASSUME IrqInv, NEW f \in SUBSET Flags, Irq!SetFlags(f) PROVE IrqInv'
<1> DEFINE c == [cpu EXCEPT !.f = f]
<1>1. c \in Cpus /\ c.stk = cpu.stk
  BY DEF IrqInv, IrqTypes, Cpus
<1>2. Irq!Done(c, FALSE) /\ Irq!Same
  BY DEF Irq!SetFlags
<1> HIDE DEF c
<1>3. \A i \in LineNames, s \in StackNames, n \in Nat : FrameAt(c, i, s, n) <=> FrameAt(cpu, i, s, n)
  BY <1>1 DEF FrameAt
<1> QED
  BY <1>1, <1>2, <1>3, IrqPlain

LEMMA HltKeeps == ASSUME IrqInv, Irq!Hlt PROVE IrqInv'
<1> DEFINE c == [cpu EXCEPT !.state = "hlt"]
<1>1. c \in Cpus /\ c.stk = cpu.stk
  BY DEF IrqInv, IrqTypes, Cpus
<1>2. Irq!Done(c, FALSE) /\ Irq!Same
  BY DEF Irq!Hlt
<1> HIDE DEF c
<1>3. \A i \in LineNames, s \in StackNames, n \in Nat : FrameAt(c, i, s, n) <=> FrameAt(cpu, i, s, n)
  BY <1>1 DEF FrameAt
<1> QED
  BY <1>1, <1>2, <1>3, IrqPlain

LEMMA SwitchKeeps == ASSUME IrqInv, Irq!SwitchStack PROVE IrqInv'
<1> DEFINE c == [cpu EXCEPT !.ss = IF @ = "main" THEN "own" ELSE "main"]
<1>1. c \in Cpus /\ c.stk = cpu.stk
  BY DEF IrqInv, IrqTypes, Cpus, StackNames
<1>2. Irq!Done(c, FALSE) /\ Irq!Same
  BY DEF Irq!SwitchStack
<1> HIDE DEF c
<1>3. \A i \in LineNames, s \in StackNames, n \in Nat : FrameAt(c, i, s, n) <=> FrameAt(cpu, i, s, n)
  BY <1>1 DEF FrameAt
<1> QED
  BY <1>1, <1>2, <1>3, IrqPlain

LEMMA CallKeeps == ASSUME IrqInv, Irq!Call PROVE IrqInv'
<1> DEFINE w == [k |-> "call", f |-> {}]
           c == Irq!Push(cpu, w)
<1>1. w \in Words /\ w.k = "call" /\ cpu \in Cpus
  BY DEF IrqInv, IrqTypes, Words
<1>2. Irq!Done(c, FALSE) /\ Irq!Same
  BY DEF Irq!Call
<1> HIDE DEF w
<1>3. /\ c \in Cpus
      /\ \A i \in LineNames, s \in StackNames, n \in Nat : FrameAt(c, i, s, n) <=> FrameAt(cpu, i, s, n)
  BY <1>1, PushIs DEF IrqKind
<1> HIDE DEF c
<1> QED
  BY <1>2, <1>3, IrqPlain

LEMMA RetKeeps == ASSUME IrqInv, Irq!Ret PROVE IrqInv'
<1> DEFINE c == Irq!Pop(cpu)
<1>1. cpu \in Cpus /\ Irq!HasTop({"call"}) /\ Irq!Done(c, FALSE) /\ Irq!Same
  BY DEF Irq!Ret, IrqInv, IrqTypes
<1>2. cpu.stk[cpu.ss] # << >> /\ cpu.stk[cpu.ss][Len(cpu.stk[cpu.ss])].k = "call"
  BY <1>1, TopIs
<1>3. /\ c \in Cpus
      /\ \A i \in LineNames, s \in StackNames, n \in Nat :
             FrameAt(c, i, s, n) <=> FrameAt(cpu, i, s, n) /\ ~(s = cpu.ss /\ n = Len(cpu.stk[s]))
  BY <1>1, <1>2, PopIs
<1>4. \A i \in LineNames, s \in StackNames, n \in Nat : FrameAt(c, i, s, n) <=> FrameAt(cpu, i, s, n)
  BY <1>2, <1>3 DEF FrameAt, IrqKind
<1> HIDE DEF c
<1> QED
  BY <1>1, <1>3, <1>4, IrqPlain

LEMMA IntKeeps == ASSUME IrqInv, Irq!Int PROVE IrqInv'
<1> DEFINE c == Irq!CpuInt(cpu, "int")
<1>1. cpu \in Cpus /\ Irq!Done(c, TRUE) /\ Irq!Same
  BY DEF Irq!Int, IrqInv, IrqTypes
<1>2. /\ c \in Cpus
      /\ \A i \in LineNames, s \in StackNames, n \in Nat : FrameAt(c, i, s, n) <=> FrameAt(cpu, i, s, n)
  BY <1>1, IntIs DEF IrqKind
<1> HIDE DEF c
<1> QED
  BY <1>1, <1>2, IrqPlain

LEMMA RetryKeeps == ASSUME IrqInv, Irq!Retry PROVE IrqInv'
<1> DEFINE q == cpu.stk[cpu.ss]
           l == Len(q)
           w == [Irq!Top EXCEPT !.f = @ \cup {"IF"}]
           r == [q EXCEPT ![l] = w]
           c == [cpu EXCEPT !.stk[cpu.ss] = r]
<1>1. Irq!HasTop({"int"}) /\ Irq!Done([cpu EXCEPT !.stk[cpu.ss] = [@ EXCEPT ![Len(@)] = w]], FALSE) /\ Irq!Same
  BY DEF Irq!Retry
<1>2. q \in Seq(Words) /\ l \in Nat \ {0} /\ Irq!Top = q[l] /\ Irq!Top \in Words /\ cpu \in Cpus
  BY SMTT(60), <1>1, TopIs DEF IrqInv, IrqTypes
<1>3. w \in Words /\ w.k = q[l].k
  BY <1>2 DEF Words, Flags
<1> HIDE DEF w
<1>4. cpu.stk \in [StackNames -> Seq(Words)] /\ cpu.ss \in StackNames
  BY <1>2 DEF Cpus
<1>5. Irq!Done(c, FALSE)
  BY <1>1
<1> HIDE DEF q, l
<1>6. l = Len(q)
  BY DEF l
<1>7. r \in [1 .. l -> Words] /\ \A n \in 1 .. l : r[n].k = q[n].k
  BY <1>2, <1>3, <1>6
<1> HIDE DEF r
<1>8. r \in Seq(Words) /\ Len(r) = l
  BY <1>2, <1>7
<1>9. c \in Cpus /\ c.stk[cpu.ss] = r /\ \A s \in StackNames : s # cpu.ss => c.stk[s] = cpu.stk[s]
  BY <1>2, <1>4, <1>8 DEF Cpus
<1> HIDE DEF c
<1>10. \A i \in LineNames, s \in StackNames, n \in Nat : FrameAt(c, i, s, n) <=> FrameAt(cpu, i, s, n)
  BY <1>6, <1>7, <1>8, <1>9 DEF FrameAt, q
<1> QED
  BY <1>1, <1>5, <1>9, <1>10, IrqPlain

\* irq_frame_return(): the frame that is popped is a held line's exactly if it was noted.
LEMMA PopHeld ==
  ASSUME IrqInv, NEW c \in Cpus, cpu.stk[cpu.ss] # << >>,
         \A i \in LineNames, s \in StackNames, n \in Nat :
            FrameAt(c, i, s, n) <=> FrameAt(cpu, i, s, n) /\ ~(s = cpu.ss /\ n = Len(cpu.stk[s]))
  PROVE  LET p == Irq!IrqFrameReturn(pic, Irq!StackLinear(cpu))
         IN  /\ HeldOk(c, irqParents, Len(irqParents), p.busy, p.frame)
             /\ p \in [mask : SUBSET LineNames, request : SUBSET LineNames, busy : SUBSET LineNames, pending : Nat,
                       frame : FrameNotes]
             /\ p.pending = pic.pending /\ p.request = pic.request
<1> DEFINE at == <<Len(irqParents), cpu.ss, Len(cpu.stk[cpu.ss])>>
           p == Irq!IrqFrameReturn(pic, at)
           k == Len(irqParents)
<1>1. /\ pic \in [mask : SUBSET LineNames, request : SUBSET LineNames, busy : SUBSET LineNames, pending : Nat,
                  frame : FrameNotes]
      /\ cpu \in Cpus /\ k \in Nat /\ cpu.ss \in StackNames /\ Len(cpu.stk[cpu.ss]) \in Nat
      /\ HeldOk(cpu, irqParents, k, pic.busy, pic.frame)
  BY DEF IrqInv, IrqTypes, Cpus
<1>2. at = Irq!StackLinear(cpu) /\ at # << >>
  BY IrqNames
<1>3. /\ p.busy = {i \in pic.busy : pic.frame[i] # at} /\ p.pending = pic.pending /\ p.request = pic.request
      /\ p.frame = [i \in LineNames |-> IF pic.frame[i] = at THEN << >> ELSE pic.frame[i]]
      /\ p.mask = pic.mask /\ DOMAIN p = DOMAIN pic
  BY <1>1, IrqNames DEF Irq!IrqFrameReturn
<1>4. p.busy \in SUBSET LineNames /\ p.frame \in FrameNotes
  <2>1. << >> \in Places /\ \A i \in LineNames : pic.frame[i] \in Places
    BY <1>1 DEF FrameNotes, Places
  <2>2. p.frame \in [LineNames -> Places]
    BY <1>3, <2>1
  <2> QED
    BY <1>1, <1>3, <2>2 DEF FrameNotes
<1>5. p \in [mask : SUBSET LineNames, request : SUBSET LineNames, busy : SUBSET LineNames, pending : Nat,
             frame : FrameNotes]
  BY Zenon, <1>1, <1>3, <1>4, IrqNames DEF Irq!IrqFrameReturn
<1> HIDE DEF p, k
<1>6. ASSUME NEW i \in LineNames
      PROVE  /\ \A s \in StackNames, n \in Nat : FrameAt(c, i, s, n) => i \in p.busy /\ p.frame[i] = <<k, s, n>>
             /\ \A j \in 1 .. k, s \in StackNames, n \in Nat :
                  FrameAt(irqParents[j].cpu, i, s, n) => i \in p.busy /\ p.frame[i] = <<j - 1, s, n>>
             /\ i \in p.busy => \E s \in StackNames, n \in Nat :
                  FrameAt(c, i, s, n) \/ \E j \in 1 .. k : FrameAt(irqParents[j].cpu, i, s, n)
             /\ i \notin p.busy => p.frame[i] = << >>
  <2>1. ASSUME NEW s \in StackNames, NEW n \in Nat, FrameAt(c, i, s, n)
        PROVE  i \in p.busy /\ p.frame[i] = <<k, s, n>>
    <3>1. i \in pic.busy /\ pic.frame[i] = <<k, s, n>> /\ ~(s = cpu.ss /\ n = Len(cpu.stk[s]))
      BY <1>1, <2>1 DEF HeldOk
    <3>2. pic.frame[i] # at
      BY <3>1
    <3> QED
      BY <1>3, <3>1, <3>2
  <2>2. ASSUME NEW j \in 1 .. k, NEW s \in StackNames, NEW n \in Nat, FrameAt(irqParents[j].cpu, i, s, n)
        PROVE  i \in p.busy /\ p.frame[i] = <<j - 1, s, n>>
    <3>1. i \in pic.busy /\ pic.frame[i] = <<j - 1, s, n>>
      BY <1>1, <2>2 DEF HeldOk
    <3>2. j - 1 # k
      BY <1>1
    <3>3. pic.frame[i] # at
      BY <3>1, <3>2 DEF k
    <3> QED
      BY <1>3, <3>1, <3>3
  <2>3. ASSUME i \in p.busy
        PROVE  \E s \in StackNames, n \in Nat :
                  FrameAt(c, i, s, n) \/ \E j \in 1 .. k : FrameAt(irqParents[j].cpu, i, s, n)
    <3>1. i \in pic.busy /\ pic.frame[i] # at
      BY <1>3, <2>3
    <3>2. PICK s \in StackNames, n \in Nat : FrameAt(cpu, i, s, n) \/ \E j \in 1 .. k : FrameAt(irqParents[j].cpu, i, s, n)
      BY <1>1, <3>1 DEF HeldOk
    <3>3. CASE FrameAt(cpu, i, s, n)
      <4>1. pic.frame[i] = <<k, s, n>>
        BY <1>1, <3>3 DEF HeldOk
      <4>2. ~(s = cpu.ss /\ n = Len(cpu.stk[s]))
        BY <3>1, <4>1 DEF k
      <4> QED
        BY <3>3, <4>2
    <3> QED
      BY <3>2, <3>3
  <2>4. i \notin p.busy => p.frame[i] = << >>
    BY <1>1, <1>3 DEF HeldOk
  <2> QED
    BY SMTT(60), <2>1, <2>2, <2>3, <2>4
<1>7. HeldOk(c, irqParents, k, p.busy, p.frame)
  BY <1>6 DEF HeldOk
<1> QED
  BY <1>2, <1>3, <1>5, <1>7 DEF p, k

\* A handler's return, by IRET or RETF 2.
LEMMA ReturnKeeps ==
  ASSUME IrqInv, NEW c \in Cpus, cpu.stk[cpu.ss] # << >>, Irq!Done(c, FALSE),
         \A i \in LineNames, s \in StackNames, n \in Nat :
            FrameAt(c, i, s, n) <=> FrameAt(cpu, i, s, n) /\ ~(s = cpu.ss /\ n = Len(cpu.stk[s])),
         pic' = Irq!IrqFrameReturn(pic, Irq!StackLinear(cpu)), UNCHANGED <<kbd, irqParents, irqPast>>
  PROVE  IrqInv'
<1>1. Len(irqParents) \in Nat /\ HeldOk(c, irqParents, Len(irqParents), pic'.busy, pic'.frame)
  BY PopHeld DEF IrqInv, IrqTypes
<1>2. cpu' \in Cpus /\ HeldOk(cpu', irqParents, Len(irqParents), pic'.busy, pic'.frame)
  BY <1>1, DoneIs
<1>3. pic' \in [mask : SUBSET LineNames, request : SUBSET LineNames, busy : SUBSET LineNames, pending : Nat,
                frame : FrameNotes] /\ pic'.pending = pic.pending /\ pic'.request = pic.request
  BY PopHeld
<1>4. IrqTypes' /\ Irq!TicksRaised' /\ Irq!KeysInOrder' /\ pic'.pending <= MaxPending
  BY <1>2, <1>3 DEF IrqInv, IrqTypes, Irq!TicksRaised, Irq!KeysInOrder
<1> QED
  BY <1>2, <1>4 DEF IrqInv

LEMMA IretKeeps == ASSUME IrqInv, Irq!Iret PROVE IrqInv'
<1> DEFINE q == Irq!Pop(cpu)
           c == [q EXCEPT !.f = Irq!Top.f]
<1>1. /\ Irq!HasTop(Irq!Frames) /\ Irq!Done(c, FALSE) /\ cpu \in Cpus
      /\ pic' = Irq!IrqFrameReturn(pic, Irq!StackLinear(cpu)) /\ UNCHANGED <<kbd, irqParents, irqPast>>
  BY DEF Irq!Iret, IrqInv, IrqTypes
<1>2. cpu.stk[cpu.ss] # << >> /\ Irq!Top.f \in SUBSET Flags
  BY <1>1, TopIs DEF Words
<1>3. /\ q \in Cpus
      /\ \A i \in LineNames, s \in StackNames, n \in Nat :
             FrameAt(q, i, s, n) <=> FrameAt(cpu, i, s, n) /\ ~(s = cpu.ss /\ n = Len(cpu.stk[s]))
  BY <1>1, <1>2, PopIs
<1> HIDE DEF q
<1>4. c \in Cpus /\ c.stk = q.stk
  BY <1>2, <1>3 DEF Cpus
<1> HIDE DEF c
<1>5. \A i \in LineNames, s \in StackNames, n \in Nat : FrameAt(c, i, s, n) <=> FrameAt(q, i, s, n)
  BY <1>4 DEF FrameAt
<1> QED
  BY <1>1, <1>2, <1>3, <1>4, <1>5, ReturnKeeps

LEMMA RetfKeeps == ASSUME IrqInv, Irq!RetfN PROVE IrqInv'
<1> DEFINE c == Irq!Pop(cpu)
<1>1. /\ Irq!HasTop(Irq!Frames \cup {"call"}) /\ Irq!Done(c, FALSE) /\ cpu \in Cpus
      /\ pic' = Irq!IrqFrameReturn(pic, Irq!StackLinear(cpu)) /\ UNCHANGED <<kbd, irqParents, irqPast>>
  BY DEF Irq!RetfN, IrqInv, IrqTypes
<1>2. cpu.stk[cpu.ss] # << >>
  BY <1>1, TopIs
<1>3. /\ c \in Cpus
      /\ \A i \in LineNames, s \in StackNames, n \in Nat :
             FrameAt(c, i, s, n) <=> FrameAt(cpu, i, s, n) /\ ~(s = cpu.ss /\ n = Len(cpu.stk[s]))
  BY <1>1, <1>2, PopIs
<1> HIDE DEF c
<1> QED
  BY <1>1, <1>2, <1>3, ReturnKeeps

\* hw_take_irq(): a line that is free is held from here on.
LEMMA EnterHeld ==
  ASSUME IrqInv, NEW irq \in LineNames, irq \notin pic.busy, NEW d \in Cpus, d.stk = cpu.stk, d.ss = cpu.ss,
         NEW c, c = Irq!CpuInt(d, IrqKind(irq)), NEW busy, busy = pic.busy \cup {irq},
         NEW frame, frame = [pic.frame EXCEPT ![irq] = <<Len(irqParents), c.ss, Len(c.stk[c.ss])>>]
  PROVE  HeldOk(c, irqParents, Len(irqParents), busy, frame) /\ frame \in FrameNotes /\ c \in Cpus
<1> DEFINE k == Len(irqParents)
           l == Len(cpu.stk[cpu.ss])
<1>1. k \in Nat /\ l \in Nat /\ cpu.ss \in StackNames /\ pic.frame \in FrameNotes /\ cpu \in Cpus
      /\ HeldOk(cpu, irqParents, k, pic.busy, pic.frame)
  BY DEF IrqInv, IrqTypes, Cpus
<1>2. /\ c \in Cpus /\ c.ss = cpu.ss /\ Len(c.stk[c.ss]) = l + 1
      /\ \A i \in LineNames, s \in StackNames, n \in Nat :
            FrameAt(c, i, s, n) <=> FrameAt(cpu, i, s, n) \/ (s = cpu.ss /\ n = l + 1 /\ IrqKind(irq) = IrqKind(i))
  <2>1. PICK kind \in {"int", "irq0", "irq1"} : kind = IrqKind(irq)
    BY DEF IrqKind
  <2>2. /\ c \in Cpus /\ c.ss = d.ss /\ Len(c.stk[d.ss]) = Len(d.stk[d.ss]) + 1
        /\ \A i \in LineNames, s \in StackNames, n \in Nat :
             FrameAt(c, i, s, n) <=> \/ FrameAt(d, i, s, n)
                                     \/ s = d.ss /\ n = Len(d.stk[s]) + 1 /\ kind = IrqKind(i)
    <3>1. c = Irq!CpuInt(d, kind)
      BY <2>1
    <3> DEFINE e == Irq!CpuInt(d, kind)
    <3>2. /\ e \in Cpus /\ e.ss = d.ss /\ Len(e.stk[d.ss]) = Len(d.stk[d.ss]) + 1
          /\ \A i \in LineNames, s \in StackNames, n \in Nat :
               FrameAt(e, i, s, n) <=> \/ FrameAt(d, i, s, n)
                                       \/ s = d.ss /\ n = Len(d.stk[s]) + 1 /\ kind = IrqKind(i)
      BY ZenonT(60), IntIs
    <3> QED
      BY <3>1, <3>2
  <2>3. \A i \in LineNames, s \in StackNames, n \in Nat : FrameAt(d, i, s, n) <=> FrameAt(cpu, i, s, n)
    BY DEF FrameAt
  <2> QED
    BY <2>1, <2>2, <2>3
<1>3. \A i \in LineNames : IrqKind(irq) = IrqKind(i) <=> i = irq
  BY DEF IrqKind, LineNames
<1>4. frame[irq] = <<k, cpu.ss, l + 1>> /\ (\A i \in LineNames : i # irq => frame[i] = pic.frame[i]) /\ frame \in FrameNotes
  BY <1>1, <1>2 DEF FrameNotes, Places
<1> HIDE DEF k, l
<1>5. ASSUME NEW i \in LineNames
      PROVE  /\ \A s \in StackNames, n \in Nat : FrameAt(c, i, s, n) => i \in busy /\ frame[i] = <<k, s, n>>
             /\ \A j \in 1 .. k, s \in StackNames, n \in Nat :
                  FrameAt(irqParents[j].cpu, i, s, n) => i \in busy /\ frame[i] = <<j - 1, s, n>>
             /\ i \in busy => \E s \in StackNames, n \in Nat :
                  FrameAt(c, i, s, n) \/ \E j \in 1 .. k : FrameAt(irqParents[j].cpu, i, s, n)
             /\ i \notin busy => frame[i] = << >>
  <2>1. CASE i = irq
    <3>1. /\ \A s \in StackNames, n \in Nat : ~FrameAt(cpu, i, s, n)
          /\ \A j \in 1 .. k, s \in StackNames, n \in Nat : ~FrameAt(irqParents[j].cpu, i, s, n)
      BY <1>1, <2>1 DEF HeldOk
    <3>2. \A s \in StackNames, n \in Nat : FrameAt(c, i, s, n) <=> s = cpu.ss /\ n = l + 1
      BY <1>2, <1>3, <2>1, <3>1
    <3>3. l + 1 \in Nat
      BY <1>1
    <3> QED
      BY <1>1, <1>4, <2>1, <3>1, <3>2, <3>3
  <2>2. CASE i # irq
    <3>1. \A s \in StackNames, n \in Nat : FrameAt(c, i, s, n) <=> FrameAt(cpu, i, s, n)
      BY <1>2, <1>3, <2>2
    <3>2. (i \in busy <=> i \in pic.busy) /\ frame[i] = pic.frame[i]
      BY <1>4, <2>2
    <3>3. \A s \in StackNames, n \in Nat : FrameAt(c, i, s, n) => i \in busy /\ frame[i] = <<k, s, n>>
      BY <1>1, <3>1, <3>2 DEF HeldOk
    <3>4. \A j \in 1 .. k, s \in StackNames, n \in Nat :
            FrameAt(irqParents[j].cpu, i, s, n) => i \in busy /\ frame[i] = <<j - 1, s, n>>
      BY <1>1, <3>2 DEF HeldOk
    <3>5. i \in busy => \E s \in StackNames, n \in Nat :
            FrameAt(c, i, s, n) \/ \E j \in 1 .. k : FrameAt(irqParents[j].cpu, i, s, n)
      BY <1>1, <3>1, <3>2 DEF HeldOk
    <3>6. i \notin busy => frame[i] = << >>
      BY <1>1, <3>2 DEF HeldOk
    <3> QED
      BY <3>3, <3>4, <3>5, <3>6
  <2> QED
    BY <2>1, <2>2
<1>6. HeldOk(c, irqParents, k, busy, frame)
  BY <1>5 DEF HeldOk
<1> QED
  BY <1>2, <1>4, <1>6 DEF k

\* hw_take_irq() with the ticks that are left.
LEMMA InterruptedKeeps == ASSUME IrqSizes, IrqInv, Irq!Interrupted PROVE IrqInv'
<1> DEFINE d == [cpu EXCEPT !.state = "run"]
<1>1. PICK irq \in LineNames : /\ irq \in Irq!Live /\ cpu' = Irq!CpuInt(d, IrqKind(irq))
                               /\ pic' = [Irq!HwTakeIrq(pic, irq) EXCEPT !.frame[irq] = Irq!StackLinear(cpu')]
  <2>1. Irq!Live \subseteq LineNames /\ Irq!Live # {}
    BY DEF Irq!Interrupted, Irq!Live, IrqInv, IrqTypes
  <2>2. CASE 0 \in Irq!Live
    BY <2>2 DEF Irq!Interrupted, IrqKind, LineNames
  <2>3. CASE 0 \notin Irq!Live
    BY <2>1, <2>3 DEF Irq!Interrupted, IrqKind, LineNames
  <2> QED
    BY <2>2, <2>3
<1>2. UNCHANGED <<kbd, irqParents, irqPast>>
  BY DEF Irq!Interrupted
<1>3. d \in Cpus /\ d.stk = cpu.stk /\ d.ss = cpu.ss
  BY DEF IrqInv, IrqTypes, Cpus
<1> HIDE DEF d
<1>4. /\ pic \in [mask : SUBSET LineNames, request : SUBSET LineNames, busy : SUBSET LineNames, pending : Nat,
                  frame : FrameNotes]
      /\ irq \in pic.request /\ irq \notin pic.busy /\ pic.pending <= MaxPending
  BY <1>1 DEF Irq!Live, IrqInv, IrqTypes
<1> DEFINE left == IF irq = 0 /\ pic.pending > 0 THEN pic.pending - 1 ELSE pic.pending
           request == (pic.request \ {irq}) \cup (IF irq = 0 /\ left > 0 THEN {0} ELSE {})
           frame == [pic.frame EXCEPT ![irq] = <<Len(irqParents), cpu'.ss, Len(cpu'.stk[cpu'.ss])>>]
<1>5. pic' = [pic EXCEPT !.request = request, !.busy = @ \cup {irq}, !.pending = left, !.frame = frame]
  BY <1>1, <1>4, IrqNames DEF Irq!HwTakeIrq
<1>6. left \in Nat /\ left <= MaxPending /\ request \in SUBSET LineNames
  BY <1>4 DEF IrqSizes, LineNames
<1>7. (0 \in request) = (left > 0)
  <2>1. (0 \in pic.request) = (pic.pending > 0)
    BY DEF IrqInv, Irq!TicksRaised
  <2>2. CASE irq = 0
    BY <1>4, <2>1, <2>2
  <2>3. CASE irq # 0
    BY <2>1, <2>3
  <2> QED
    BY <2>2, <2>3
<1> HIDE DEF left, request
<1>8. HeldOk(cpu', irqParents, Len(irqParents), pic.busy \cup {irq}, frame) /\ frame \in FrameNotes /\ cpu' \in Cpus
  BY <1>1, <1>3, <1>4, EnterHeld
<1> HIDE DEF frame
<1>9. /\ pic' \in [mask : SUBSET LineNames, request : SUBSET LineNames, busy : SUBSET LineNames, pending : Nat,
                   frame : FrameNotes]
      /\ pic'.busy = pic.busy \cup {irq} /\ pic'.frame = frame /\ pic'.pending = left /\ pic'.request = request
  BY <1>4, <1>5, <1>6, <1>8
<1>10. IrqTypes' /\ Irq!TicksRaised' /\ Irq!KeysInOrder' /\ pic'.pending <= MaxPending
  BY <1>2, <1>6, <1>7, <1>8, <1>9 DEF IrqInv, IrqTypes, Irq!TicksRaised, Irq!KeysInOrder
<1> QED
  BY <1>2, <1>8, <1>9, <1>10 DEF IrqInv

\* Keys: what is accepted, and what of it is at the port and in the queue.
AtPort(k) == IF k.full THEN <<k.port>> ELSE << >>

LEMMA OfferIs ==
  ASSUME NEW k \in [queue : Seq(Nat), port : Nat, full : BOOLEAN]
  PROVE  /\ Irq!Offer(k) \in [queue : Seq(Nat), port : Nat, full : BOOLEAN]
         /\ AtPort(Irq!Offer(k)) \o Irq!Offer(k).queue = AtPort(k) \o k.queue
<1>1. CASE k.full \/ k.queue = << >>
  BY <1>1 DEF Irq!Offer
<1>2. CASE ~k.full /\ k.queue # << >>
  <2> DEFINE o == [queue |-> Tail(k.queue), port |-> Head(k.queue), full |-> TRUE]
  <2>1. Irq!Offer(k) = o
    BY <1>2 DEF Irq!Offer
  <2>2. Head(k.queue) \in Nat /\ Tail(k.queue) \in Seq(Nat)
    BY <1>2, HeadTailProperties
  <2>3. o \in [queue : Seq(Nat), port : Nat, full : BOOLEAN] /\ AtPort(o) = <<Head(k.queue)>> /\ AtPort(k) = << >>
        /\ o.queue = Tail(k.queue)
    BY <1>2, <2>2 DEF AtPort
  <2>4. <<Head(k.queue)>> \o Tail(k.queue) = k.queue /\ << >> \o k.queue = k.queue
    BY <1>2
  <2> QED
    BY <2>1, <2>3, <2>4
<1> QED
  BY <1>1, <1>2

LEMMA Joined ==
  ASSUME NEW a \in Seq(Nat), NEW b \in Seq(Nat), NEW c \in Seq(Nat) PROVE (a \o b) \o c = a \o (b \o c)
  BY SMTT(60), ConcatAssociative

LEMMA KeysAre ==
  ASSUME IrqInv
  PROVE  /\ kbd \in [queue : Seq(Nat), port : Nat, full : BOOLEAN] /\ AtPort(kbd) \in Seq(Nat)
         /\ kbd.queue \in Seq(Nat) /\ kbd.port \in Nat
         /\ irqPast.accepted = irqPast.seen \o (AtPort(kbd) \o kbd.queue)
         /\ irqPast.seen \in Seq(Nat) /\ irqPast.accepted \in Seq(Nat)
<1>1. /\ kbd \in [queue : Seq(Nat), port : Nat, full : BOOLEAN] /\ irqPast.seen \in Seq(Nat)
      /\ irqPast.accepted \in Seq(Nat) /\ kbd.queue \in Seq(Nat) /\ kbd.port \in Nat
      /\ irqPast.accepted = (irqPast.seen \o AtPort(kbd)) \o kbd.queue
  BY DEF IrqInv, IrqTypes, Irq!KeysInOrder, AtPort
<1>2. AtPort(kbd) \in Seq(Nat)
  BY <1>1 DEF AtPort
<1>3. (irqPast.seen \o AtPort(kbd)) \o kbd.queue = irqPast.seen \o (AtPort(kbd) \o kbd.queue)
  BY <1>1, <1>2, Joined
<1> QED
  BY <1>1, <1>2, <1>3

\* And back.
LEMMA KeysHold ==
  ASSUME NEW k \in [queue : Seq(Nat), port : Nat, full : BOOLEAN], NEW q \in Seq(Nat), NEW a,
         a = q \o (AtPort(k) \o k.queue)
  PROVE  a = q \o AtPort(k) \o k.queue
<1>1. AtPort(k) \in Seq(Nat) /\ k.queue \in Seq(Nat)
  BY DEF AtPort
<1> QED
  BY <1>1, Joined

LEMMA ReadKeyKeeps == ASSUME IrqInv, Irq!ReadKey PROVE IrqInv'
<1>1. /\ kbd' = [kbd EXCEPT !.full = FALSE] /\ Irq!Done(cpu, FALSE) /\ UNCHANGED <<pic, irqParents>>
      /\ irqPast' = IF kbd.full THEN [irqPast EXCEPT !.seen = Append(@, kbd.port)] ELSE irqPast
  BY DEF Irq!ReadKey
<1>2. cpu \in Cpus /\ Len(irqParents) \in Nat /\ irqParents \in Seq(Waiting)
      /\ irqPast \in [typed : Nat, accepted : Seq(Nat), seen : Seq(Nat), most : IrqBounds]
  BY DEF IrqInv, IrqTypes
<1>3. cpu' \in Cpus /\ HeldOk(cpu', irqParents, Len(irqParents), pic.busy, pic.frame)
  BY <1>1, <1>2, DoneIs DEF IrqInv
<1>4. /\ kbd' \in [queue : Seq(Nat), port : Nat, full : BOOLEAN] /\ AtPort(kbd') = << >> /\ kbd'.queue = kbd.queue
      /\ << >> \o kbd.queue = kbd.queue
  <2>1. kbd' \in [queue : Seq(Nat), port : Nat, full : BOOLEAN] /\ kbd'.full = FALSE /\ kbd'.queue = kbd.queue
    BY <1>1, KeysAre
  <2> QED
    BY <2>1, KeysAre DEF AtPort
<1>5. /\ irqPast' \in [typed : Nat, accepted : Seq(Nat), seen : Seq(Nat), most : IrqBounds]
      /\ irqPast'.accepted = irqPast'.seen \o (AtPort(kbd') \o kbd'.queue)
  <2>1. CASE kbd.full
    <3>1. /\ irqPast'.seen = Append(irqPast.seen, kbd.port) /\ irqPast'.accepted = irqPast.accepted
          /\ irqPast' \in [typed : Nat, accepted : Seq(Nat), seen : Seq(Nat), most : IrqBounds]
      <4>1. Append(irqPast.seen, kbd.port) \in Seq(Nat)
        BY KeysAre
      <4> QED
        BY <1>1, <1>2, <2>1, <4>1
    <3>2. Append(irqPast.seen, kbd.port) = irqPast.seen \o <<kbd.port>> /\ AtPort(kbd) = <<kbd.port>>
      BY <2>1, KeysAre, AppendIsConcat DEF AtPort
    <3>3. (irqPast.seen \o AtPort(kbd)) \o kbd.queue = irqPast.seen \o (AtPort(kbd) \o kbd.queue)
      BY KeysAre, Joined
    <3> QED
      BY <1>4, <3>1, <3>2, <3>3, KeysAre
  <2>2. CASE ~kbd.full
    BY <1>1, <1>2, <1>4, <2>2, KeysAre DEF AtPort
  <2> QED
    BY <2>1, <2>2
<1>6. Irq!KeysInOrder'
  BY <1>4, <1>5, KeysHold DEF Irq!KeysInOrder, AtPort
<1>7. IrqTypes' /\ Irq!TicksRaised'
  BY <1>1, <1>2, <1>3, <1>4, <1>5 DEF IrqInv, IrqTypes, Irq!TicksRaised
<1> QED
  BY <1>1, <1>3, <1>6, <1>7 DEF IrqInv

LEMMA SetMaskKeeps == ASSUME IrqInv, NEW mask \in SUBSET LineNames, Irq!SetMask(mask) PROVE IrqInv'
<1>1. pic' = [pic EXCEPT !.mask = mask] /\ Irq!Done(cpu, FALSE) /\ UNCHANGED <<kbd, irqParents, irqPast>>
  BY DEF Irq!SetMask
<1>2. cpu \in Cpus /\ Len(irqParents) \in Nat
      /\ pic \in [mask : SUBSET LineNames, request : SUBSET LineNames, busy : SUBSET LineNames, pending : Nat,
                  frame : FrameNotes]
  BY DEF IrqInv, IrqTypes
<1>3. /\ pic' \in [mask : SUBSET LineNames, request : SUBSET LineNames, busy : SUBSET LineNames, pending : Nat,
                   frame : FrameNotes]
      /\ pic'.busy = pic.busy /\ pic'.frame = pic.frame /\ pic'.pending = pic.pending /\ pic'.request = pic.request
  BY <1>1, <1>2
<1>4. cpu' \in Cpus /\ HeldOk(cpu', irqParents, Len(irqParents), pic.busy, pic.frame)
  BY <1>1, <1>2, DoneIs DEF IrqInv
<1>5. IrqTypes' /\ Irq!TicksRaised' /\ Irq!KeysInOrder' /\ pic'.pending <= MaxPending
  BY <1>1, <1>3, <1>4 DEF IrqInv, IrqTypes, Irq!TicksRaised, Irq!KeysInOrder
<1> QED
  BY <1>1, <1>3, <1>4, <1>5 DEF IrqInv

\* hw_poll(): a key that is queued is the last of those accepted.
LEMMA HwPollKeeps ==
  ASSUME IrqSizes, IrqInv, NEW ticks \in 0 .. 2, NEW pressed \in {0, 1}, Irq!HwPoll(ticks, pressed) PROVE IrqInv'
<1> DEFINE most == IF pic.pending + ticks > MaxPending THEN MaxPending ELSE pic.pending + ticks
           key == irqPast.typed + 1
           queued == IF pressed = 1 THEN Irq!KbdEnqueue(kbd, key) ELSE kbd
           offered == Irq!Offer(queued)
           raised == (IF ticks > 0 /\ most > 0 THEN {0} ELSE {}) \cup (IF offered # queued THEN {1} ELSE {})
           more == IF queued # kbd THEN Append(irqPast.accepted, key) ELSE irqPast.accepted
<1>1. /\ pic' = [pic EXCEPT !.pending = most, !.request = @ \cup raised] /\ kbd' = offered
      /\ irqPast' = [irqPast EXCEPT !.typed = @ + pressed, !.accepted = more] /\ UNCHANGED <<cpu, irqParents>>
  BY DEF Irq!HwPoll
<1>2. /\ cpu \in Cpus /\ irqParents \in Seq(Waiting)
      /\ irqPast \in [typed : Nat, accepted : Seq(Nat), seen : Seq(Nat), most : IrqBounds] /\ key \in Nat
      /\ pic \in [mask : SUBSET LineNames, request : SUBSET LineNames, busy : SUBSET LineNames, pending : Nat,
                  frame : FrameNotes]
      /\ pic.pending <= MaxPending
  BY DEF IrqInv, IrqTypes
<1>3. most \in Nat /\ most <= MaxPending /\ raised \in SUBSET LineNames
  BY SMTT(60), <1>2 DEF IrqSizes, LineNames
<1>4. (0 \in pic.request \cup raised) = (most > 0)
  <2>1. (0 \in pic.request) = (pic.pending > 0)
    BY DEF IrqInv, Irq!TicksRaised
  <2>2. 0 \in raised <=> ticks > 0 /\ most > 0
    OBVIOUS
  <2> HIDE DEF raised
  <2>3. CASE ticks = 0
    BY <1>2, <2>1, <2>2, <2>3 DEF IrqSizes
  <2>4. CASE ticks # 0
    BY SMTT(60), <1>2, <2>1, <2>2, <2>4 DEF IrqSizes
  <2> QED
    BY <2>3, <2>4
<1> HIDE DEF key
<1>5. /\ queued \in [queue : Seq(Nat), port : Nat, full : BOOLEAN] /\ more \in Seq(Nat)
      /\ more = irqPast.seen \o (AtPort(queued) \o queued.queue)
  <2>1. CASE queued = kbd
    BY <2>1, KeysAre
  <2>2. CASE queued # kbd
    <3>1. queued = [kbd EXCEPT !.queue = Append(@, key)] /\ more = Append(irqPast.accepted, key)
      BY <2>2 DEF Irq!KbdEnqueue
    <3>2. Append(kbd.queue, key) \in Seq(Nat) /\ Append(irqPast.accepted, key) \in Seq(Nat)
      BY <1>2, KeysAre
    <3>3. /\ queued \in [queue : Seq(Nat), port : Nat, full : BOOLEAN] /\ queued.queue = Append(kbd.queue, key)
          /\ queued.port = kbd.port /\ queued.full = kbd.full
      BY <3>1, <3>2, KeysAre
    <3>4. AtPort(queued) = AtPort(kbd)
      BY <3>3 DEF AtPort
    <3> DEFINE a == irqPast.seen
               b == AtPort(kbd)
               c == kbd.queue
    <3>5. a \in Seq(Nat) /\ b \in Seq(Nat) /\ c \in Seq(Nat) /\ <<key>> \in Seq(Nat) /\ irqPast.accepted = a \o (b \o c)
      BY SMTT(30), <1>2, KeysAre
    <3> HIDE DEF a, b, c
    <3>6. b \o c \in Seq(Nat) /\ a \o (b \o c) \in Seq(Nat) /\ c \o <<key>> \in Seq(Nat)
      BY <3>5
    <3>7. Append(a \o (b \o c), key) = (a \o (b \o c)) \o <<key>> /\ Append(c, key) = c \o <<key>>
      BY ZenonT(60), <1>2, <3>5, <3>6, AppendIsConcat
    <3>8. (a \o (b \o c)) \o <<key>> = a \o ((b \o c) \o <<key>>)
      BY ZenonT(60), <3>5, <3>6, Joined
    <3>9. (b \o c) \o <<key>> = b \o (c \o <<key>>)
      BY ZenonT(60), <3>5, <3>6, Joined
    <3>10. Append(irqPast.accepted, key) = a \o (b \o Append(c, key))
      BY <3>5, <3>7, <3>8, <3>9
    <3> QED
      BY <3>1, <3>2, <3>3, <3>4, <3>10 DEF a, b, c
  <2> QED
    BY <2>1, <2>2
<1> HIDE DEF queued, more, most
<1>6. offered \in [queue : Seq(Nat), port : Nat, full : BOOLEAN] /\ more = irqPast.seen \o (AtPort(offered) \o offered.queue)
  BY <1>5, OfferIs
<1> HIDE DEF offered, raised
<1>7. /\ pic' \in [mask : SUBSET LineNames, request : SUBSET LineNames, busy : SUBSET LineNames, pending : Nat,
                   frame : FrameNotes]
      /\ pic'.busy = pic.busy /\ pic'.frame = pic.frame /\ pic'.pending = most /\ pic'.request = pic.request \cup raised
  BY <1>1, <1>2, <1>3
<1>8. /\ irqPast' \in [typed : Nat, accepted : Seq(Nat), seen : Seq(Nat), most : IrqBounds]
      /\ irqPast'.accepted = more /\ irqPast'.seen = irqPast.seen
  <2>1. irqPast.typed + pressed \in Nat
    BY <1>2
  <2> QED
    BY <1>1, <1>2, <1>5, <2>1
<1>9. more = irqPast.seen \o AtPort(offered) \o offered.queue
  BY <1>6, KeysHold, KeysAre
<1>10. Irq!KeysInOrder'
  BY <1>1, <1>8, <1>9 DEF Irq!KeysInOrder, AtPort
<1>11. IrqTypes' /\ Irq!TicksRaised' /\ pic'.pending <= MaxPending
  BY <1>1, <1>2, <1>3, <1>4, <1>6, <1>7, <1>8 DEF IrqTypes, Irq!TicksRaised
<1> QED
  BY <1>1, <1>7, <1>10, <1>11 DEF IrqInv

\* Nothing is held by a machine that has just been started, or has stopped.
LEMMA NobodyHeld ==
  ASSUME NEW c, c.stk = Irq!Fresh.stk, NEW P PROVE HeldOk(c, P, 0, Irq!NewPic.busy, Irq!NewPic.frame)
<1>1. \A i \in LineNames, s \in StackNames, n \in Nat : ~FrameAt(c, i, s, n)
  BY FreshIs DEF FrameAt
<1>2. \A i \in LineNames : i \notin Irq!NewPic.busy /\ Irq!NewPic.frame[i] = << >>
  BY FreshIs
<1>3. \A k \in 1 .. 0 : FALSE
  OBVIOUS
<1> DEFINE busy == Irq!NewPic.busy
           frame == Irq!NewPic.frame
<1>4. ASSUME NEW i \in LineNames
      PROVE  /\ \A s \in StackNames, n \in Nat : FrameAt(c, i, s, n) => i \in busy /\ frame[i] = <<0, s, n>>
             /\ \A j \in 1 .. 0, s \in StackNames, n \in Nat :
                  FrameAt(P[j].cpu, i, s, n) => i \in busy /\ frame[i] = <<j - 1, s, n>>
             /\ i \in busy => \E s \in StackNames, n \in Nat :
                  FrameAt(c, i, s, n) \/ \E j \in 1 .. 0 : FrameAt(P[j].cpu, i, s, n)
             /\ i \notin busy => frame[i] = << >>
  <2> HIDE DEF busy, frame
  <2>1. i \notin busy /\ frame[i] = << >>
    BY <1>2 DEF busy, frame
  <2>2. \A s \in StackNames, n \in Nat : ~FrameAt(c, i, s, n)
    BY <1>1
  <2> QED
    BY <1>3, <2>1, <2>2
<1> QED
  BY <1>4 DEF HeldOk

LEMMA NoKeys == << >> \in Seq(Nat) /\ << >> \o << >> \o << >> = << >>
<1>1. << >> \in Seq(Nat)
  OBVIOUS
<1>2. << >> \o << >> = << >>
  BY <1>1, ConcatEmptySeq
<1> QED
  BY <1>1, <1>2

LEMMA NewIs ==
  ASSUME IrqSizes
  PROVE  /\ Irq!NewPic \in [mask : SUBSET LineNames, request : SUBSET LineNames, busy : SUBSET LineNames, pending : Nat,
                            frame : FrameNotes]
         /\ Irq!NewPic.pending = 0 /\ Irq!NewPic.request = {}
         /\ Irq!NewKbd \in [queue : Seq(Nat), port : Nat, full : BOOLEAN]
         /\ Irq!NewKbd.queue = << >> /\ Irq!NewKbd.full = FALSE
<1>1. [i \in LineNames |-> << >>] \in FrameNotes
  BY DEF FrameNotes, Places
<1>2. Irq!NewPic = [mask |-> {}, request |-> {}, busy |-> {}, pending |-> 0, frame |-> [i \in LineNames |-> << >>]]
  BY IrqNames DEF Irq!NewPic
<1>3. << >> \in Seq(Nat)
  OBVIOUS
<1> QED
  BY <1>1, <1>2, <1>3 DEF Irq!NewKbd

LEMMA StartsRight ==
  ASSUME IrqSizes, cpu \in Cpus, cpu.stk = Irq!Fresh.stk, pic = Irq!NewPic, kbd = Irq!NewKbd, irqParents = << >>,
         irqPast \in [typed : Nat, accepted : Seq(Nat), seen : Seq(Nat), most : IrqBounds],
         irqPast.accepted = << >>, irqPast.seen = << >>
  PROVE  IrqInv
<1>1. IrqTypes /\ 0 <= MaxPending /\ Len(irqParents) = 0
  <2>1. << >> \in Seq(Waiting) /\ Len(<< >>) = 0
    OBVIOUS
  <2>2. MaxPending \in Nat
    BY DEF IrqSizes
  <2> QED
    BY <2>1, <2>2, NewIs DEF IrqTypes
<1>2. Irq!TicksRaised
  BY NewIs DEF Irq!TicksRaised
<1>3. Irq!KeysInOrder
  <2>1. kbd.queue = << >> /\ kbd.full = FALSE
    BY NewIs
  <2> QED
    BY <2>1, NoKeys DEF Irq!KeysInOrder
<1>4. HeldOk(cpu, irqParents, 0, pic.busy, pic.frame)
  BY NobodyHeld
<1>5. \A k \in 1 .. 0 : FALSE
  OBVIOUS
<1> QED
  BY <1>1, <1>2, <1>3, <1>4, <1>5, NewIs DEF IrqInv

LEMMA IrqInit == ASSUME IrqSizes, Irq!Init PROVE IrqInv
<1>1. << >> \in Seq(Nat)
  OBVIOUS
<1> QED
  <2>1. cpu = Irq!Fresh /\ pic = Irq!NewPic /\ kbd = Irq!NewKbd /\ irqParents = << >>
        /\ irqPast \in [typed : {0}, accepted : {<< >>}, seen : {<< >>}, most : IrqBounds]
    BY DEF Irq!Init
  <2>2. /\ irqPast \in [typed : Nat, accepted : Seq(Nat), seen : Seq(Nat), most : IrqBounds]
        /\ irqPast.accepted = << >> /\ irqPast.seen = << >>
    <3>1. {0} \subseteq Nat /\ {<< >>} \subseteq Seq(Nat)
      BY <1>1
    <3> QED
      BY <2>1, <3>1
  <2> QED
    BY <2>1, <2>2, FreshIs, StartsRight

LEMMA OffKeeps == ASSUME IrqSizes, IrqInv, Irq!Off PROVE IrqInv'
<1>1. cpu' \in Cpus /\ cpu'.stk = Irq!Fresh.stk
  BY FreshIs DEF Irq!Off, Cpus
<1>2. << >> \in Seq(Nat) /\ irqPast \in [typed : Nat, accepted : Seq(Nat), seen : Seq(Nat), most : IrqBounds]
      /\ irqPast.most.keys \in Nat
  BY DEF IrqInv, IrqTypes, IrqSizes
<1>3. /\ irqPast' \in [typed : Nat, accepted : Seq(Nat), seen : Seq(Nat), most : IrqBounds]
      /\ irqPast'.accepted = << >> /\ irqPast'.seen = << >>
  BY <1>2 DEF Irq!Off
<1>4. pic' = Irq!NewPic /\ kbd' = Irq!NewKbd /\ irqParents' = << >>
  BY DEF Irq!Off
<1>5. IrqTypes' /\ 0 <= MaxPending /\ Len(irqParents') = 0
  <2>1. << >> \in Seq(Waiting) /\ Len(<< >>) = 0
    OBVIOUS
  <2> QED
    <3>1. MaxPending \in Nat
      BY DEF IrqSizes
    <3> QED
      BY <1>1, <1>3, <1>4, <2>1, <3>1, NewIs DEF IrqTypes
<1>6. Irq!TicksRaised'
  BY <1>4, NewIs DEF Irq!TicksRaised
<1>7. Irq!KeysInOrder'
  <2>1. kbd'.queue = << >> /\ kbd'.full = FALSE
    BY <1>4, NewIs
  <2> QED
    BY <1>3, <2>1, NoKeys DEF Irq!KeysInOrder
<1>8. HeldOk(cpu', irqParents', 0, pic'.busy, pic'.frame)
  BY <1>1, <1>4, NobodyHeld
<1>9. \A k \in 1 .. 0 : FALSE
  OBVIOUS
<1> QED
  BY <1>4, <1>5, <1>6, <1>7, <1>8, <1>9, NewIs DEF IrqInv

\* dos_exec(): a child has no frames; the parent's stay noted at its depth.
LEMMA ExecKeeps == ASSUME IrqInv, Irq!Exec PROVE IrqInv'
<1> DEFINE P == irqParents
           k == Len(P)
           e == [cpu |-> cpu, frame |-> pic.frame, busy |-> pic.busy]
<1>1. irqParents' = Append(P, e) /\ Irq!Done(Irq!Fresh, TRUE) /\ UNCHANGED <<pic, kbd, irqPast>>
  BY DEF Irq!Exec
<1>2. P \in Seq(Waiting) /\ k \in Nat /\ cpu \in Cpus /\ e \in Waiting
  BY DEF IrqInv, IrqTypes, Waiting
<1>3. e.cpu = cpu /\ e.frame = pic.frame /\ e.busy = pic.busy
  OBVIOUS
<1> HIDE DEF e
<1>4. /\ irqParents' \in Seq(Waiting) /\ Len(irqParents') = k + 1 /\ irqParents'[k + 1] = e
      /\ \A j \in 1 .. k : irqParents'[j] = P[j]
  BY <1>1, <1>2
<1>5. HeldOk(cpu, P, k, pic.busy, pic.frame)
      /\ \A j \in 1 .. k : HeldOk(P[j].cpu, P, j - 1, P[j].busy, P[j].frame)
  BY DEF IrqInv
<1> HIDE DEF P, k
<1>6. ASSUME NEW i \in LineNames
      PROVE  /\ \A s \in StackNames, n \in Nat :
                  FrameAt(Irq!Fresh, i, s, n) => i \in pic.busy /\ pic.frame[i] = <<k + 1, s, n>>
             /\ \A j \in 1 .. k + 1, s \in StackNames, n \in Nat :
                  FrameAt(irqParents'[j].cpu, i, s, n) => i \in pic.busy /\ pic.frame[i] = <<j - 1, s, n>>
             /\ i \in pic.busy => \E s \in StackNames, n \in Nat :
                  FrameAt(Irq!Fresh, i, s, n) \/ \E j \in 1 .. k + 1 : FrameAt(irqParents'[j].cpu, i, s, n)
             /\ i \notin pic.busy => pic.frame[i] = << >>
  <2>1. \A s \in StackNames, n \in Nat : ~FrameAt(Irq!Fresh, i, s, n)
    BY FreshIs
  <2>2. ASSUME NEW j \in 1 .. k + 1, NEW s \in StackNames, NEW n \in Nat, FrameAt(irqParents'[j].cpu, i, s, n)
        PROVE  i \in pic.busy /\ pic.frame[i] = <<j - 1, s, n>>
    <3>1. CASE j = k + 1
      <4>1. FrameAt(cpu, i, s, n) /\ j - 1 = k
        BY <1>2, <1>3, <1>4, <2>2, <3>1
      <4> QED
        BY <1>5, <4>1 DEF HeldOk
    <3>2. CASE j # k + 1
      <4>1. j \in 1 .. k
        BY <1>2, <3>2
      <4> QED
        BY <1>4, <1>5, <2>2, <4>1 DEF HeldOk
    <3> QED
      BY <3>1, <3>2
  <2>3. ASSUME i \in pic.busy
        PROVE  \E s \in StackNames, n \in Nat : \E j \in 1 .. k + 1 : FrameAt(irqParents'[j].cpu, i, s, n)
    <3>1. PICK s \in StackNames, n \in Nat : FrameAt(cpu, i, s, n) \/ \E j \in 1 .. k : FrameAt(P[j].cpu, i, s, n)
      BY <1>5, <2>3 DEF HeldOk
    <3>2. \A j \in 1 .. k : j \in 1 .. k + 1
      BY <1>2
    <3>3. k + 1 \in 1 .. k + 1
      BY <1>2
    <3> QED
      BY <1>3, <1>4, <3>1, <3>2, <3>3
  <2>4. i \notin pic.busy => pic.frame[i] = << >>
    BY <1>5 DEF HeldOk
  <2> QED
    BY <2>1, <2>2, <2>3, <2>4
<1>7. HeldOk(Irq!Fresh, irqParents', k + 1, pic.busy, pic.frame)
  BY <1>6 DEF HeldOk
<1>8. cpu' \in Cpus /\ HeldOk(cpu', irqParents', k + 1, pic.busy, pic.frame)
  <2>1. PICK l \in Nat : l = k + 1
    BY <1>2
  <2> QED
    BY <1>1, <1>7, <2>1, FreshIs, DoneIs
<1>9. ASSUME NEW j \in 1 .. k + 1
      PROVE  HeldOk(irqParents'[j].cpu, irqParents', j - 1, irqParents'[j].busy, irqParents'[j].frame)
  <2>1. PICK l \in Nat : l = j - 1 /\ \A m_ \in 1 .. l : irqParents'[m_] = P[m_]
    BY <1>2, <1>4
  <2>2. CASE j = k + 1
    <3>1. l = k
      BY <1>2, <2>1, <2>2
    <3>2. HeldOk(cpu, irqParents', l, pic.busy, pic.frame)
      BY <1>5, <2>1, <3>1, HeldSame
    <3> QED
      BY <1>3, <1>4, <2>1, <2>2, <3>2
  <2>3. CASE j # k + 1
    <3>1. j \in 1 .. k
      BY <1>2, <2>3
    <3>2. HeldOk(P[j].cpu, P, l, P[j].busy, P[j].frame)
      BY <1>5, <2>1, <3>1
    <3>3. HeldOk(P[j].cpu, irqParents', l, P[j].busy, P[j].frame)
      BY <2>1, <3>2, HeldSame
    <3> QED
      BY <1>4, <2>1, <3>1, <3>3
  <2> QED
    BY <2>2, <2>3
<1>10. IrqTypes' /\ Irq!TicksRaised' /\ Irq!KeysInOrder' /\ pic'.pending <= MaxPending
  BY <1>1, <1>4, <1>8 DEF IrqInv, IrqTypes, Irq!TicksRaised, Irq!KeysInOrder
<1> QED
  BY <1>1, <1>4, <1>8, <1>9, <1>10 DEF IrqInv

LEMMA FrontIs ==
  ASSUME NEW S, NEW q \in Seq(S), NEW r, Len(q) \in Nat \ {0}, r = SubSeq(q, 1, Len(q) - 1)
  PROVE  r \in Seq(S) /\ Len(r) = Len(q) - 1 /\ \A j \in 1 .. Len(q) - 1 : r[j] = q[j]
<1>1. PICK n \in Nat : n = Len(q) - 1
  BY SMTT(60)
<1>2. r = SubSeq(q, 1, n) /\ n <= Len(q)
  BY <1>1
<1>3. \A j \in 1 .. n : q[j] \in S
  BY <1>1
<1>4. r = [j \in 1 .. n |-> q[j]]
  BY <1>2
<1>5. r \in Seq(S) /\ Len(r) = n /\ \A j \in 1 .. n : r[j] = q[j]
  BY <1>3, <1>4
<1> QED
  BY <1>1, <1>5

\* dos_terminate(): what the parent left is put back, and the child's frames are gone.
LEMMA TerminateKeeps == ASSUME IrqSizes, IrqInv, Irq!Terminate PROVE IrqInv'
<1>1. CASE irqParents = << >>
  BY <1>1, OffKeeps DEF Irq!Terminate
<1>2. CASE irqParents # << >>
  <2> DEFINE P == irqParents
             k == Len(P)
             e == P[k]
  <2>1. /\ cpu' = e.cpu /\ pic' = Irq!CpuIrqRestore(pic, e) /\ irqParents' = SubSeq(P, 1, k - 1)
        /\ UNCHANGED <<kbd, irqPast>>
    BY <1>2 DEF Irq!Terminate
  <2>2. P \in Seq(Waiting) /\ k \in Nat \ {0}
    BY <1>2 DEF IrqInv, IrqTypes
  <2>3. e \in Waiting
    BY <2>2
  <2>4. irqParents' \in Seq(Waiting) /\ Len(irqParents') = k - 1 /\ \A j \in 1 .. k - 1 : irqParents'[j] = P[j]
    BY <2>1, <2>2, FrontIs
  <2>5. \A j \in 1 .. k : HeldOk(P[j].cpu, P, j - 1, P[j].busy, P[j].frame)
    BY DEF IrqInv
  <2> HIDE DEF P, k
  <2>6. PICK l \in Nat : l = k - 1
    BY <2>2
  <2>7. HeldOk(e.cpu, P, l, e.busy, e.frame)
    BY <2>2, <2>5, <2>6
  <2> HIDE DEF e
  <2>8. HeldOk(cpu', irqParents', l, e.busy, e.frame)
    BY <2>1, <2>4, <2>6, <2>7, HeldSame
  <2>9. ASSUME NEW j \in 1 .. l
        PROVE  HeldOk(irqParents'[j].cpu, irqParents', j - 1, irqParents'[j].busy, irqParents'[j].frame)
    <3>1. PICK n \in Nat : n = j - 1 /\ j \in 1 .. k /\ \A m_ \in 1 .. n : m_ \in 1 .. k - 1
      BY <2>2, <2>6
    <3>2. HeldOk(P[j].cpu, P, n, P[j].busy, P[j].frame)
      BY <2>5, <3>1
    <3>3. HeldOk(P[j].cpu, irqParents', n, P[j].busy, P[j].frame)
      BY <2>4, <3>1, <3>2, HeldSame
    <3> QED
      BY <2>4, <2>6, <3>1, <3>3
  <2>10. /\ pic \in [mask : SUBSET LineNames, request : SUBSET LineNames, busy : SUBSET LineNames, pending : Nat,
                     frame : FrameNotes]
         /\ e.cpu \in Cpus /\ e.busy \in SUBSET LineNames /\ e.frame \in FrameNotes
    BY <2>3 DEF IrqInv, IrqTypes, Waiting
  <2>11. /\ pic' \in [mask : SUBSET LineNames, request : SUBSET LineNames, busy : SUBSET LineNames, pending : Nat,
                      frame : FrameNotes]
         /\ pic'.busy = e.busy /\ pic'.frame = e.frame /\ pic'.pending = pic.pending /\ pic'.request = pic.request
    BY <2>1, <2>10 DEF Irq!CpuIrqRestore
  <2>12. IrqTypes' /\ Irq!TicksRaised' /\ Irq!KeysInOrder' /\ pic'.pending <= MaxPending
    BY <2>1, <2>4, <2>10, <2>11 DEF IrqInv, IrqTypes, Irq!TicksRaised, Irq!KeysInOrder
  <2> QED
    BY <2>4, <2>6, <2>8, <2>9, <2>11, <2>12 DEF IrqInv
<1> QED
  BY <1>1, <1>2

LEMMA IrqStep == ASSUME IrqSizes, IrqInv, [Irq!Next]_Irq!vars PROVE IrqInv'
<1>1. CASE \E ticks \in 0 .. 2, pressed \in {0, 1} : Irq!HwPoll(ticks, pressed)
  BY <1>1, HwPollKeeps
<1>2. CASE Irq!Interrupted
  BY <1>2, InterruptedKeeps
<1>3. CASE \E f \in {{}, {"IF"}, {"IF", "TF"}} : Irq!SetFlags(f)
  BY <1>3, SetFlagsKeeps DEF Flags
<1>4. CASE Irq!Hlt \/ Irq!Call \/ Irq!Ret \/ Irq!Int \/ Irq!Iret \/ Irq!RetfN \/ Irq!SwitchStack \/ Irq!ReadKey
  BY <1>4, HltKeeps, CallKeeps, RetKeeps, IntKeeps, IretKeeps, RetfKeeps, SwitchKeeps, ReadKeyKeeps
<1>5. CASE \E mask \in {{}, {0}} : Irq!SetMask(mask)
  BY <1>5, SetMaskKeeps DEF LineNames
<1>6. CASE Irq!Retry \/ Irq!Exec \/ Irq!Terminate \/ Irq!Quit
  BY <1>6, RetryKeeps, ExecKeeps, TerminateKeeps, OffKeeps DEF Irq!Quit
<1>7. CASE UNCHANGED Irq!vars
  <2>1. cpu' = cpu /\ pic' = pic /\ kbd' = kbd /\ irqParents' = irqParents /\ irqPast' = irqPast
    BY <1>7 DEF Irq!vars
  <2> QED
    BY <2>1 DEF IrqInv, IrqTypes, Irq!TicksRaised, Irq!KeysInOrder
<1> QED
  BY <1>1, <1>2, <1>3, <1>4, <1>5, <1>6, <1>7 DEF Irq!Next

LEMMA IrqHolds == ASSUME IrqInv PROVE Irq!HandlerAlone /\ Irq!TicksRaised /\ Irq!KeysInOrder
<1>1. ASSUME NEW i \in LineNames
      PROVE  (\A a, b \in Irq!FramesOn(cpu, i) : a = b) /\ (i \in pic.busy) = ~Irq!Unwound(i)
  <2> DEFINE k == Len(irqParents)
  <2>1. /\ cpu \in Cpus /\ irqParents \in Seq(Waiting) /\ k \in Nat
        /\ HeldOk(cpu, irqParents, k, pic.busy, pic.frame)
    BY DEF IrqInv, IrqTypes
  <2>2. ASSUME NEW c \in Cpus
        PROVE  Irq!FramesOn(c, i) = {at \in StackNames \X Nat : FrameAt(c, i, at[1], at[2])}
    <3>1. c.stk \in [StackNames -> Seq(Words)]
      BY DEF Cpus
    <3>2. PICK a \in Nat, b \in Nat : a = Len(c.stk["main"]) /\ b = Len(c.stk["own"])
      BY <3>1 DEF StackNames
    <3>3. Irq!Height(c) = a + b
      BY <3>2 DEF Irq!Height
    <3>4. \A s \in StackNames, n \in Nat : FrameAt(c, i, s, n) => n \in 1 .. a + b
      <4>1. ASSUME NEW x \in Nat, NEW y \in Nat PROVE \A n \in 1 .. x : n \in 1 .. x + y /\ n \in 1 .. y + x
        OBVIOUS
      <4>2. \A n \in Nat : (FrameAt(c, i, "main", n) => n \in 1 .. a) /\ (FrameAt(c, i, "own", n) => n \in 1 .. b)
        BY <3>2 DEF FrameAt
      <4>3. (\A n \in 1 .. a : n \in 1 .. a + b) /\ (\A n \in 1 .. b : n \in 1 .. a + b)
        BY <4>1
      <4> QED
        BY <4>2, <4>3 DEF StackNames
    <3>5. \A s \in StackNames, n \in Nat :
            FrameAt(c, i, s, n) <=> n \in DOMAIN c.stk[s] /\ c.stk[s][n].k = (IF i = 0 THEN "irq0" ELSE "irq1")
      BY <3>1 DEF FrameAt, IrqKind
    <3> QED
      <4>1. Irq!FramesOn(c, i) = {at \in StackNames \X (1 .. a + b) :
               at[2] \in DOMAIN c.stk[at[1]] /\ c.stk[at[1]][at[2]].k = (IF i = 0 THEN "irq0" ELSE "irq1")}
        BY <3>3, IrqNames DEF Irq!FramesOn
      <4>2. \A n \in 1 .. a + b : n \in Nat
        BY <3>2
      <4> HIDE DEF FrameAt
      <4>3. ASSUME NEW at PROVE at \in StackNames \X (1 .. a + b) => at \in StackNames \X Nat
        BY <4>2
      <4>4. ASSUME NEW at \in StackNames \X Nat, FrameAt(c, i, at[1], at[2])
            PROVE  at \in Irq!FramesOn(c, i)
        <5>1. at[1] \in StackNames /\ at[2] \in Nat /\ at = <<at[1], at[2]>>
          OBVIOUS
        <5>2. at[2] \in 1 .. a + b /\ at[2] \in DOMAIN c.stk[at[1]]
              /\ c.stk[at[1]][at[2]].k = (IF i = 0 THEN "irq0" ELSE "irq1")
          BY <3>4, <3>5, <4>4, <5>1
        <5>3. at \in StackNames \X (1 .. a + b)
          BY <5>1, <5>2
        <5> QED
          BY <4>1, <5>2, <5>3
      <4>5. ASSUME NEW at \in Irq!FramesOn(c, i) PROVE at \in StackNames \X Nat /\ FrameAt(c, i, at[1], at[2])
        <5>1. at \in StackNames \X Nat /\ at[1] \in StackNames /\ at[2] \in Nat
          BY <4>1, <4>2, <4>3, <4>5
        <5> QED
          BY <3>5, <4>1, <4>5, <5>1
      <4> QED
        BY <4>4, <4>5
  <2>3. ASSUME NEW a \in Irq!FramesOn(cpu, i), NEW b \in Irq!FramesOn(cpu, i) PROVE a = b
    <3>1. /\ a \in StackNames \X Nat /\ b \in StackNames \X Nat /\ FrameAt(cpu, i, a[1], a[2])
          /\ FrameAt(cpu, i, b[1], b[2])
      BY <2>1, <2>2, <2>3
    <3>2. pic.frame[i] = <<k, a[1], a[2]>> /\ pic.frame[i] = <<k, b[1], b[2]>>
      BY <2>1, <3>1 DEF HeldOk
    <3> QED
      BY <3>1, <3>2
  <2>4. Irq!Unwound(i) <=> i \notin pic.busy
    <3>1. /\ DOMAIN irqParents = 1 .. k /\ \A j \in 1 .. k : irqParents[j].cpu \in Cpus
      <4>1. DOMAIN irqParents = 1 .. k
        BY <2>1
      <4>2. \A j \in 1 .. k : irqParents[j] \in Waiting
        BY <2>1
      <4> QED
        BY <4>1, <4>2 DEF Waiting
    <3>2. ASSUME NEW c \in Cpus
          PROVE  Irq!FramesOn(c, i) = {} <=> \A s \in StackNames, n \in Nat : ~FrameAt(c, i, s, n)
      <4>1. \A s \in StackNames, n \in Nat : <<s, n>> \in StackNames \X Nat /\ <<s, n>>[1] = s /\ <<s, n>>[2] = n
        OBVIOUS
      <4>2. Irq!FramesOn(c, i) = {at \in StackNames \X Nat : FrameAt(c, i, at[1], at[2])}
        BY <2>2
      <4>3. ASSUME NEW s \in StackNames, NEW n \in Nat, FrameAt(c, i, s, n) PROVE <<s, n>> \in Irq!FramesOn(c, i)
        BY <4>1, <4>2, <4>3
      <4>4. ASSUME NEW at \in Irq!FramesOn(c, i) PROVE \E s \in StackNames, n \in Nat : FrameAt(c, i, s, n)
        BY <4>2, <4>4
      <4> QED
        BY <4>3, <4>4
    <3>3. Irq!Unwound(i) <=> /\ \A s \in StackNames, n \in Nat : ~FrameAt(cpu, i, s, n)
                             /\ \A j \in 1 .. k : \A s \in StackNames, n \in Nat : ~FrameAt(irqParents[j].cpu, i, s, n)
      BY <2>1, <3>1, <3>2 DEF Irq!Unwound
    <3> HIDE DEF k
    <3>4. ASSUME i \in pic.busy PROVE ~Irq!Unwound(i)
      <4>1. PICK s \in StackNames, n \in Nat :
               FrameAt(cpu, i, s, n) \/ \E j \in 1 .. k : FrameAt(irqParents[j].cpu, i, s, n)
        BY <2>1, <3>4 DEF HeldOk
      <4> QED
        BY <3>3, <4>1
    <3>5. ASSUME i \notin pic.busy PROVE Irq!Unwound(i)
      BY <2>1, <3>3, <3>5 DEF HeldOk
    <3> QED
      BY <3>4, <3>5
  <2> QED
    BY <2>3, <2>4 DEF Irq!Unwound
<1> QED
  BY <1>1, IrqNames DEF Irq!HandlerAlone, IrqInv

-----------------------------------------------------------------------------
(* TheFiles: what programs have of open files.                               *)

DosSizes == IsFiniteSet(Handles) /\ Nil \notin Objects

Tables == [Handles -> Objects \cup {Nil}]
Aside == [files : Tables, names : [Handles -> Names \cup {Nil}]]
FileFields == {"refs", "name", "data", "size", "pos", "modified", "buffered", "want"}
FileOk(f) == DOMAIN f = FileFields /\ f.refs \in Nat /\ f.name \in Names \cup {Nil}

\* The handles of t that stand for o, and those of the programs that wait.
HandlesOf(t, o) == {h \in Handles : t[h] = o}
AsideOf(P, o) == {kh \in (DOMAIN P) \X Handles : P[kh[1]].files[kh[2]] = o}

DosInv ==
    /\ DOMAIN files = Objects /\ \A o \in Objects : FileOk(files[o])
    /\ table \in Tables /\ dosParents \in Seq(Aside)
    /\ Dos!HandlesStand

LEMMA SameCardinality == ASSUME NEW S PROVE Dos!Cardinality(S) = Cardinality(S)
  BY DEF Dos!Cardinality, Cardinality

LEMMA HandlesFinite ==
  ASSUME DosSizes, NEW t, NEW o PROVE IsFiniteSet(HandlesOf(t, o)) /\ Cardinality(HandlesOf(t, o)) \in Nat
<1>1. HandlesOf(t, o) \in SUBSET Handles
  BY DEF HandlesOf
<1> QED
  BY <1>1, FS_Subset, FS_CardinalityType DEF DosSizes

LEMMA AsideFinite ==
  ASSUME DosSizes, NEW P \in Seq(Aside), NEW o
  PROVE  IsFiniteSet(AsideOf(P, o)) /\ Cardinality(AsideOf(P, o)) \in Nat
<1>1. PICK n \in Nat : n = Len(P) /\ DOMAIN P = 1 .. n
  OBVIOUS
<1>2. IsFiniteSet(1 .. n)
  BY FS_Interval
<1>3. IsFiniteSet((1 .. n) \X Handles)
  BY <1>2, FS_Product DEF DosSizes
<1>4. AsideOf(P, o) \in SUBSET ((1 .. n) \X Handles)
  BY <1>1 DEF AsideOf
<1> QED
  BY <1>3, <1>4, FS_Subset, FS_CardinalityType

\* What the references of a file are.
LEMMA RefsAre ==
  ASSUME NEW o
  PROVE  Dos!References(o) = Cardinality(HandlesOf(table, o)) + Cardinality(AsideOf(dosParents, o))
  BY SameCardinality DEF Dos!References, HandlesOf, AsideOf

\* A handle that was free gets a file, and gives it back.
LEMMA HandleTaken ==
  ASSUME DosSizes, NEW t \in Tables, NEW h \in Handles, t[h] = Nil, NEW o \in Objects
  PROVE  LET u == [t EXCEPT ![h] = o]
         IN  /\ u \in Tables /\ Cardinality(HandlesOf(u, o)) = Cardinality(HandlesOf(t, o)) + 1
             /\ \A p \in Objects \ {o} : HandlesOf(u, p) = HandlesOf(t, p)
<1> DEFINE u == [t EXCEPT ![h] = o]
<1>1. u \in Tables /\ u[h] = o /\ \A g \in Handles : g # h => u[g] = t[g]
  BY DEF Tables
<1> HIDE DEF u
<1>2. HandlesOf(u, o) = HandlesOf(t, o) \cup {h} /\ h \notin HandlesOf(t, o)
  BY <1>1 DEF HandlesOf, DosSizes
<1>3. Cardinality(HandlesOf(u, o)) = Cardinality(HandlesOf(t, o)) + 1
  BY <1>2, HandlesFinite, FS_AddElement
<1>4. \A p \in Objects \ {o} : HandlesOf(u, p) = HandlesOf(t, p)
  BY <1>1 DEF HandlesOf, DosSizes
<1> QED
  BY <1>1, <1>3, <1>4 DEF u

LEMMA HandleGiven ==
  ASSUME DosSizes, NEW t \in Tables, NEW h \in Handles, NEW o \in Objects, t[h] = o
  PROVE  LET u == [t EXCEPT ![h] = Nil]
         IN  /\ u \in Tables /\ Cardinality(HandlesOf(u, o)) = Cardinality(HandlesOf(t, o)) - 1
             /\ Cardinality(HandlesOf(t, o)) > 0
             /\ \A p \in Objects \ {o} : HandlesOf(u, p) = HandlesOf(t, p)
<1> DEFINE u == [t EXCEPT ![h] = Nil]
<1>1. u \in Tables /\ u[h] = Nil /\ \A g \in Handles : g # h => u[g] = t[g]
  BY DEF Tables
<1> HIDE DEF u
<1>2. HandlesOf(u, o) = HandlesOf(t, o) \ {h} /\ h \in HandlesOf(t, o)
  BY <1>1 DEF HandlesOf, DosSizes
<1>3. Cardinality(HandlesOf(u, o)) = Cardinality(HandlesOf(t, o)) - 1
  BY <1>2, HandlesFinite, FS_RemoveElement
<1>4. Cardinality(HandlesOf(u, o)) \in Nat /\ Cardinality(HandlesOf(t, o)) \in Nat
  BY HandlesFinite
<1>5. \A p \in Objects \ {o} : HandlesOf(u, p) = HandlesOf(t, p)
  BY <1>1 DEF HandlesOf, DosSizes
<1>6. Cardinality(HandlesOf(t, o)) > 0
  BY <1>3, <1>4
<1> QED
  BY <1>1, <1>3, <1>5, <1>6 DEF u

\* One program more that waits.
LEMMA AsideMore ==
  ASSUME DosSizes, NEW P \in Seq(Aside), NEW Q \in Seq(Aside), Len(Q) = Len(P) + 1,
         \A j \in 1 .. Len(P) : Q[j] = P[j], NEW o
  PROVE  Cardinality(AsideOf(Q, o)) = Cardinality(AsideOf(P, o)) + Cardinality(HandlesOf(Q[Len(Q)].files, o))
<1>1. PICK n \in Nat : n = Len(P) /\ DOMAIN P = 1 .. n
  OBVIOUS
<1>2. PICK l \in Nat : l = n + 1 /\ l = Len(Q) /\ DOMAIN Q = 1 .. l
  BY <1>1
<1> DEFINE T == HandlesOf(Q[l].files, o)
           N == {l} \X T
<1>3. IsFiniteSet(T) /\ Cardinality(T) \in Nat
  BY HandlesFinite
<1>4. IsFiniteSet(N) /\ Cardinality(N) = Cardinality(T)
  <2>1. IsFiniteSet({l}) /\ Cardinality({l}) = 1
    BY FS_Singleton
  <2>2. IsFiniteSet(N) /\ Cardinality(N) = Cardinality({l}) * Cardinality(T)
    BY <1>3, <2>1, FS_Product
  <2> HIDE DEF T, N
  <2> QED
    BY <1>3, <2>1, <2>2
<1>5. \A j : j \in 1 .. l <=> j \in 1 .. n \/ j = l
  BY <1>1, <1>2
<1>6. l \notin 1 .. n
  BY <1>1, <1>2
<1>7. AsideOf(Q, o) = AsideOf(P, o) \cup N
  <2>1. ASSUME NEW x \in AsideOf(Q, o) PROVE x \in AsideOf(P, o) \cup N
    <3>1. x \in (1 .. l) \X Handles /\ Q[x[1]].files[x[2]] = o /\ x[1] \in 1 .. l /\ x[2] \in Handles /\ x = <<x[1], x[2]>>
      BY <1>2, <2>1 DEF AsideOf
    <3>2. CASE x[1] = l
      BY <3>1, <3>2 DEF HandlesOf
    <3>3. CASE x[1] \in 1 .. n
      <4>1. x \in (1 .. n) \X Handles /\ P[x[1]].files[x[2]] = o
        BY <1>1, <3>1, <3>3
      <4> QED
        BY <1>1, <4>1 DEF AsideOf
    <3> QED
      BY <1>5, <3>1, <3>2, <3>3
  <2>2. ASSUME NEW x \in N PROVE x \in AsideOf(Q, o)
    <3>1. x[1] = l /\ x[2] \in Handles /\ Q[l].files[x[2]] = o /\ x = <<x[1], x[2]>>
      BY <2>2 DEF HandlesOf
    <3>2. x \in (1 .. l) \X Handles
      BY <1>5, <3>1
    <3> QED
      BY <1>2, <3>1, <3>2 DEF AsideOf
  <2>3. ASSUME NEW x \in AsideOf(P, o) PROVE x \in AsideOf(Q, o)
    <3>1. x \in (1 .. n) \X Handles /\ P[x[1]].files[x[2]] = o /\ x[1] \in 1 .. n /\ x[2] \in Handles /\ x = <<x[1], x[2]>>
      BY <1>1, <2>3 DEF AsideOf
    <3>2. x \in (1 .. l) \X Handles /\ Q[x[1]].files[x[2]] = o
      BY <1>1, <1>5, <3>1
    <3> QED
      BY <1>2, <3>2 DEF AsideOf
  <2> QED
    BY <2>1, <2>2, <2>3
<1>8. AsideOf(P, o) \cap N = {}
  <2>1. ASSUME NEW x \in AsideOf(P, o), x \in N PROVE FALSE
    <3>1. x[1] \in 1 .. n /\ x[1] = l
      BY <1>1, <2>1 DEF AsideOf
    <3> QED
      BY <1>6, <3>1
  <2> QED
    BY <2>1
<1>9. IsFiniteSet(AsideOf(P, o)) /\ Cardinality(AsideOf(P, o)) \in Nat
  BY AsideFinite
<1>10. Cardinality(AsideOf(Q, o)) = Cardinality(AsideOf(P, o)) + Cardinality(N) - Cardinality(AsideOf(P, o) \cap N)
  BY <1>4, <1>7, <1>9, FS_Union
<1>11. Cardinality(AsideOf(P, o) \cap N) = 0
  BY <1>8, FS_EmptySet
<1> HIDE DEF T, N
<1>12. Cardinality(AsideOf(Q, o)) = Cardinality(AsideOf(P, o)) + Cardinality(T)
  BY <1>3, <1>4, <1>9, <1>10, <1>11
<1> QED
  BY <1>2, <1>12 DEF T

\* What the invariant says of a file.
LEMMA DosHas ==
  ASSUME DosSizes, DosInv
  PROVE  /\ DOMAIN files = Objects /\ table \in Tables /\ dosParents \in Seq(Aside)
         /\ \A o \in Objects :
               /\ FileOk(files[o]) /\ (files[o].refs = 0 => files[o].data = Nil)
               /\ files[o].refs = Cardinality(HandlesOf(table, o)) + Cardinality(AsideOf(dosParents, o))
               /\ Cardinality(HandlesOf(table, o)) \in Nat /\ Cardinality(AsideOf(dosParents, o)) \in Nat
         /\ \A h \in Handles : table[h] # Nil =>
               /\ table[h] \in Objects /\ files[table[h]].refs > 0 /\ Cardinality(HandlesOf(table, table[h])) > 0
<1>1. DOMAIN files = Objects /\ table \in Tables /\ dosParents \in Seq(Aside)
  BY DEF DosInv
<1>2. ASSUME NEW o \in Objects
      PROVE  /\ FileOk(files[o]) /\ (files[o].refs = 0 => files[o].data = Nil)
             /\ files[o].refs = Cardinality(HandlesOf(table, o)) + Cardinality(AsideOf(dosParents, o))
             /\ Cardinality(HandlesOf(table, o)) \in Nat /\ Cardinality(AsideOf(dosParents, o)) \in Nat
  BY <1>1, RefsAre, HandlesFinite, AsideFinite DEF DosInv, Dos!HandlesStand
<1>3. ASSUME NEW h \in Handles, table[h] # Nil
      PROVE  table[h] \in Objects /\ files[table[h]].refs > 0 /\ Cardinality(HandlesOf(table, table[h])) > 0
  <2>1. PICK o \in Objects : o = table[h]
    BY <1>1, <1>3 DEF Tables
  <2>2. Cardinality(HandlesOf(table, o)) > 0
    BY <1>1, <2>1, HandleGiven
  <2> QED
    BY <1>2, <2>1, <2>2
<1> QED
  BY <1>1, <1>2, <1>3

\* A step keeps the invariant if it counts right and leaves the name of a file of which a
\* program that waits has a handle.
LEMMA DosKeeps ==
  ASSUME DosSizes, DosInv, UNCHANGED dosParents, DOMAIN files' = Objects, table' \in Tables,
         \A o \in Objects :
            /\ FileOk(files'[o]) /\ (files'[o].refs = 0 => files'[o].data = Nil)
            /\ files'[o].refs = Cardinality(HandlesOf(table', o)) + Cardinality(AsideOf(dosParents, o))
            /\ files'[o].refs > 0 /\ files[o].refs > 0 => files'[o].name = files[o].name
  PROVE  DosInv'
<1>1. \A o \in Objects : files'[o].refs = Dos!References(o)'
  BY SameCardinality DEF Dos!References, HandlesOf, AsideOf
<1>2. ASSUME NEW k \in DOMAIN dosParents, NEW h \in Handles, dosParents[k].files[h] # Nil
      PROVE  files'[dosParents[k].files[h]].name = dosParents[k].names[h]
  <2>1. dosParents[k] \in Aside
    BY DosHas
  <2>2. PICK o \in Objects : o = dosParents[k].files[h]
    BY <1>2, <2>1 DEF Aside, Tables
  <2>3. <<k, h>> \in AsideOf(dosParents, o)
    BY <2>2 DEF AsideOf
  <2>4. Cardinality(AsideOf(dosParents, o)) # 0
    BY <2>3, DosHas, AsideFinite, FS_EmptySet
  <2>5. Cardinality(HandlesOf(table, o)) \in Nat /\ Cardinality(HandlesOf(table', o)) \in Nat
        /\ Cardinality(AsideOf(dosParents, o)) \in Nat
    BY DosHas, HandlesFinite
  <2>6. files'[o].refs > 0 /\ files[o].refs > 0
    BY <2>4, <2>5, DosHas
  <2>7. files[o].name = dosParents[k].names[h]
    BY <1>2, <2>2 DEF DosInv, Dos!HandlesStand
  <2> QED
    BY <2>2, <2>6, <2>7
<1>3. Dos!HandlesStand'
  BY <1>1, <1>2 DEF Dos!HandlesStand
<1> QED
  BY <1>3 DEF DosInv

LEMMA DosFreeObject ==
  ASSUME DosSizes, DosInv, NEW o \in Objects, files[o].refs = 0
  PROVE  Cardinality(HandlesOf(table, o)) = 0 /\ Cardinality(AsideOf(dosParents, o)) = 0
  BY DosHas

\* A file that is created or opened.
LEMMA DosNew ==
  ASSUME DosSizes, DosInv, NEW h \in Dos!FreeHandles, NEW o \in Dos!FreeObjects, NEW f, FileOk(f), f.refs = 1,
         files' = [files EXCEPT ![o] = f], table' = [table EXCEPT ![h] = o], UNCHANGED dosParents
  PROVE  DosInv'
<1>1. h \in Handles /\ table[h] = Nil /\ o \in Objects /\ files[o].refs = 0
  BY DEF Dos!FreeHandles, Dos!FreeObjects
<1>2. DOMAIN files' = Objects /\ files'[o] = f /\ \A p \in Objects : p # o => files'[p] = files[p]
  BY <1>1, DosHas
<1>3. /\ table' \in Tables /\ Cardinality(HandlesOf(table', o)) = Cardinality(HandlesOf(table, o)) + 1
      /\ \A p \in Objects \ {o} : HandlesOf(table', p) = HandlesOf(table, p)
  BY <1>1, DosHas, HandleTaken
<1>4. Cardinality(HandlesOf(table, o)) = 0 /\ Cardinality(AsideOf(dosParents, o)) = 0
  BY <1>1, DosFreeObject
<1>5. ASSUME NEW p \in Objects
      PROVE  /\ FileOk(files'[p]) /\ (files'[p].refs = 0 => files'[p].data = Nil)
             /\ files'[p].refs = Cardinality(HandlesOf(table', p)) + Cardinality(AsideOf(dosParents, p))
             /\ files'[p].refs > 0 /\ files[p].refs > 0 => files'[p].name = files[p].name
  <2>1. CASE p = o
    BY <1>1, <1>2, <1>3, <1>4, <2>1
  <2>2. CASE p # o
    <3>1. files'[p] = files[p] /\ HandlesOf(table', p) = HandlesOf(table, p)
      BY <1>2, <1>3, <2>2
    <3> QED
      BY <3>1, DosHas
  <2> QED
    BY <2>1, <2>2
<1> QED
  BY <1>2, <1>3, <1>5, DosKeeps

LEMMA CreateKeeps == ASSUME DosSizes, DosInv, NEW name \in Names, Dos!Create(name) PROVE DosInv'
<1> DEFINE f == [refs |-> 1, name |-> name, data |-> [i \in 1 .. Cap |-> Dos!Junk], size |-> 0, pos |-> 0,
                 modified |-> TRUE, buffered |-> TRUE, want |-> << >>]
<1>1. UNCHANGED dosParents
  BY DEF Dos!Create
<1>2. CASE UNCHANGED <<files, table>>
  BY <1>1, <1>2 DEF DosInv, Dos!HandlesStand, Dos!References
<1>3. CASE \E h \in Dos!FreeHandles, o \in Dos!FreeObjects :
              files' = [files EXCEPT ![o] = f] /\ table' = [table EXCEPT ![h] = o]
  <2>1. FileOk(f) /\ f.refs = 1
    BY DEF FileOk, FileFields
  <2> HIDE DEF f
  <2> QED
    BY <1>1, <1>3, <2>1, DosNew
<1> QED
  BY <1>2, <1>3 DEF Dos!Create

LEMMA ClosedIs == FileOk(Dos!Closed) /\ Dos!Closed.refs = 0 /\ Dos!Closed.data = Nil
  BY DEF Dos!Closed, FileOk, FileFields

LEMMA OpenFileKeeps == ASSUME DosSizes, DosInv, NEW name \in Names, Dos!Open(name) PROVE DosInv'
<1> DEFINE f == [Dos!Closed EXCEPT !.refs = 1, !.name = name, !.size = Dos!FileSize(name), !.want = disk[name]]
<1>1. PICK h \in Dos!FreeHandles, o \in Dos!FreeObjects :
         files' = [files EXCEPT ![o] = f] /\ table' = [table EXCEPT ![h] = o] /\ UNCHANGED dosParents
  BY DEF Dos!Open
<1>2. FileOk(f) /\ f.refs = 1
  BY DEF Dos!Closed, FileOk, FileFields
<1> HIDE DEF f
<1> QED
  BY <1>1, <1>2, DosNew

\* A reference less.
LEMMA DroppedIs ==
  ASSUME NEW f, FileOk(f), f.refs > 0
  PROVE  LET g == Dos!Dropped(f)
         IN  /\ FileOk(g) /\ g.refs = f.refs - 1 /\ (g.refs = 0 => g.data = Nil) /\ (g.refs > 0 => g.name = f.name)
<1> DEFINE g == [f EXCEPT !.modified = @ /\ f.data = Nil, !.refs = @ - 1]
<1>1. f.refs \in Nat /\ DOMAIN f = FileFields /\ f.refs - 1 \in Nat
  BY DEF FileOk
<1>2. DOMAIN g = FileFields /\ g.refs = f.refs - 1 /\ g.name = f.name
  BY <1>1 DEF FileFields
<1>3. Dos!Dropped(f) = IF g.refs > 0 THEN g ELSE Dos!Closed
  BY DEF Dos!Dropped
<1> HIDE DEF g
<1>4. CASE g.refs > 0
  BY <1>1, <1>2, <1>3, <1>4 DEF FileOk
<1>5. CASE ~(g.refs > 0)
  <2>1. f.refs - 1 = 0
    BY <1>1, <1>2, <1>5
  <2> QED
    BY <1>3, <1>5, <2>1, ClosedIs
<1> QED
  BY <1>4, <1>5

LEMMA CloseFileKeeps == ASSUME DosSizes, DosInv, NEW h \in Handles, Dos!Close(h) PROVE DosInv'
<1>1. /\ table[h] # Nil /\ files' = [files EXCEPT ![table[h]] = Dos!Dropped(@)] /\ table' = [table EXCEPT ![h] = Nil]
      /\ UNCHANGED dosParents
  BY DEF Dos!Close
<1>2. PICK o \in Objects : o = table[h] /\ files[o].refs > 0
  BY <1>1, DosHas
<1>3. DOMAIN files' = Objects /\ files'[o] = Dos!Dropped(files[o]) /\ \A p \in Objects : p # o => files'[p] = files[p]
  BY <1>1, <1>2, DosHas
<1>4. /\ table' \in Tables /\ Cardinality(HandlesOf(table', o)) = Cardinality(HandlesOf(table, o)) - 1
      /\ \A p \in Objects \ {o} : HandlesOf(table', p) = HandlesOf(table, p)
  BY ZenonT(60), <1>1, <1>2, DosHas, HandleGiven
<1>5. /\ FileOk(files'[o]) /\ files'[o].refs = files[o].refs - 1 /\ (files'[o].refs = 0 => files'[o].data = Nil)
      /\ (files'[o].refs > 0 => files'[o].name = files[o].name)
  BY <1>2, <1>3, DosHas, DroppedIs
<1>6. ASSUME NEW p \in Objects
      PROVE  /\ FileOk(files'[p]) /\ (files'[p].refs = 0 => files'[p].data = Nil)
             /\ files'[p].refs = Cardinality(HandlesOf(table', p)) + Cardinality(AsideOf(dosParents, p))
             /\ files'[p].refs > 0 /\ files[p].refs > 0 => files'[p].name = files[p].name
  <2>1. CASE p = o
    BY <1>4, <1>5, <2>1, DosHas
  <2>2. CASE p # o
    BY <1>3, <1>4, <2>2, DosHas
  <2> QED
    BY <2>1, <2>2
<1> QED
  BY <1>1, <1>3, <1>4, <1>6, DosKeeps

\* A program that works on a file it has open.
LEMMA DosUsed ==
  ASSUME DosSizes, DosInv, NEW h \in Handles, table[h] # Nil, NEW f, files' = [files EXCEPT ![table[h]] = f],
         FileOk(f), f.refs = files[table[h]].refs, f.name = files[table[h]].name, UNCHANGED <<table, dosParents>>
  PROVE  DosInv'
<1>1. PICK o \in Objects : o = table[h] /\ files[o].refs > 0 /\ files[o].refs \in Nat
  BY DosHas DEF FileOk
<1>2. DOMAIN files' = Objects /\ files'[o] = f /\ \A p \in Objects : p # o => files'[p] = files[p]
  BY <1>1, DosHas
<1>3. ASSUME NEW p \in Objects
      PROVE  /\ FileOk(files'[p]) /\ (files'[p].refs = 0 => files'[p].data = Nil)
             /\ files'[p].refs = Cardinality(HandlesOf(table', p)) + Cardinality(AsideOf(dosParents, p))
             /\ files'[p].refs > 0 /\ files[p].refs > 0 => files'[p].name = files[p].name
  <2>1. CASE p = o
    <3>1. files'[p] = f /\ f.refs = files[p].refs /\ f.name = files[p].name /\ f.refs # 0
      BY <1>1, <1>2, <2>1
    <3> QED
      BY <3>1, DosHas
  <2>2. CASE p # o
    <3>1. files'[p] = files[p]
      BY <1>2, <2>2
    <3> QED
      BY <3>1, DosHas
  <2> QED
    BY <2>1, <2>2
<1>4. table' \in Tables
  BY DosHas
<1> QED
  BY <1>2, <1>3, <1>4, DosKeeps

LEMMA ReadKeeps == ASSUME DosSizes, DosInv, NEW h \in Handles, NEW n, Dos!Read(h, n) PROVE DosInv'
<1>1. PICK x : files' = [files EXCEPT ![table[h]].pos = @ + x] /\ table[h] # Nil /\ UNCHANGED <<table, dosParents>>
  BY DEF Dos!Read
<1>2. table[h] \in Objects /\ FileOk(files[table[h]])
  BY <1>1, DosHas
<1> DEFINE f == [files[table[h]] EXCEPT !.pos = @ + x]
<1>3. FileOk(f) /\ f.refs = files[table[h]].refs /\ f.name = files[table[h]].name
  BY <1>2 DEF FileOk, FileFields
<1>4. files' = [files EXCEPT ![table[h]] = f]
  BY <1>1, <1>2, DosHas
<1> HIDE DEF f
<1> QED
  BY <1>1, <1>3, <1>4, DosUsed

LEMMA SeekKeeps == ASSUME DosSizes, DosInv, NEW h \in Handles, NEW pos, Dos!Seek(h, pos) PROVE DosInv'
<1>1. files' = [files EXCEPT ![table[h]].pos = pos] /\ table[h] # Nil /\ UNCHANGED <<table, dosParents>>
  BY DEF Dos!Seek
<1>2. table[h] \in Objects /\ FileOk(files[table[h]])
  BY <1>1, DosHas
<1> DEFINE f == [files[table[h]] EXCEPT !.pos = pos]
<1>3. FileOk(f) /\ f.refs = files[table[h]].refs /\ f.name = files[table[h]].name
  BY <1>2 DEF FileOk, FileFields
<1>4. files' = [files EXCEPT ![table[h]] = f]
  BY <1>1, <1>2, DosHas
<1> HIDE DEF f
<1> QED
  BY <1>1, <1>3, <1>4, DosUsed

LEMMA WriteKeeps == ASSUME DosSizes, DosInv, NEW h \in Handles, NEW n, Dos!Write(h, n) PROVE DosInv'
<1> DEFINE f == files[table[h]]
<1>1. table[h] # Nil /\ UNCHANGED <<table, dosParents>>
  BY DEF Dos!Write
<1>2. table[h] \in Objects /\ FileOk(f)
  BY <1>1, DosHas
<1>3. PICK a, b, c, d, e : \/ files' = [files EXCEPT ![table[h]] = [f EXCEPT !.data = a]]
                           \/ files' = [files EXCEPT ![table[h]] = [f EXCEPT !.data = b, !.buffered = TRUE, !.modified = TRUE,
                                                                             !.size = c, !.pos = @ + d, !.want = e]]
  BY ZenonT(60) DEF Dos!Write
<1> HIDE DEF f
<1>4. CASE files' = [files EXCEPT ![table[h]] = [f EXCEPT !.data = a]]
  <2> DEFINE g == [f EXCEPT !.data = a]
  <2>1. FileOk(g) /\ g.refs = f.refs /\ g.name = f.name
    BY <1>2 DEF FileOk, FileFields
  <2> HIDE DEF g
  <2> QED
    BY <1>1, <1>4, <2>1, DosUsed DEF f, g
<1>5. CASE files' = [files EXCEPT ![table[h]] = [f EXCEPT !.data = b, !.buffered = TRUE, !.modified = TRUE,
                                                          !.size = c, !.pos = @ + d, !.want = e]]
  <2> DEFINE g == [f EXCEPT !.data = b, !.buffered = TRUE, !.modified = TRUE, !.size = c, !.pos = @ + d, !.want = e]
  <2>1. FileOk(g) /\ g.refs = f.refs /\ g.name = f.name
    BY <1>2 DEF FileOk, FileFields
  <2> HIDE DEF g
  <2> QED
    BY <1>1, <1>5, <2>1, DosUsed DEF f, g
<1> QED
  BY SMTT(60), <1>3, <1>4, <1>5

\* dos_exec(): the child's references are as many as the handles put aside.
LEMMA ExecFilesKeep == ASSUME DosSizes, DosInv, Dos!Exec PROVE DosInv'
<1> DEFINE P == dosParents
           e == [files |-> table, names |-> [h \in Handles |-> IF table[h] = Nil THEN Nil ELSE files[table[h]].name]]
<1>1. dosParents' = Append(P, e) /\ files' = Dos!Inherited(files, table) /\ table' = table
  BY DEF Dos!Exec
<1>2. e \in Aside /\ e.files = table /\ \A h \in Handles : table[h] # Nil => e.names[h] = files[table[h]].name
  <2>1. \A h \in Handles : (IF table[h] = Nil THEN Nil ELSE files[table[h]].name) \in Names \cup {Nil}
    BY DosHas DEF FileOk
  <2>2. e.names \in [Handles -> Names \cup {Nil}]
    BY <2>1
  <2> QED
    BY <2>2, DosHas DEF Aside
<1> HIDE DEF e
<1>3. P \in Seq(Aside) /\ Len(P) \in Nat
  BY DosHas
<1>4. /\ dosParents' \in Seq(Aside) /\ Len(dosParents') = Len(P) + 1 /\ dosParents'[Len(P) + 1] = e
      /\ DOMAIN dosParents' = 1 .. Len(P) + 1 /\ \A j \in 1 .. Len(P) : dosParents'[j] = P[j]
  BY <1>1, <1>2, <1>3
<1>5. ASSUME NEW o \in Objects
      PROVE  /\ FileOk(files'[o]) /\ files'[o].refs = files[o].refs + Cardinality(HandlesOf(table, o))
             /\ files'[o].name = files[o].name /\ files'[o].data = files[o].data
  <2> DEFINE c == Cardinality(HandlesOf(table, o))
             f == files[o]
  <2>1. files'[o] = [f EXCEPT !.refs = @ + c]
    BY <1>1, SameCardinality DEF Dos!Inherited, HandlesOf
  <2>2. c \in Nat /\ FileOk(f)
    BY DosHas
  <2> HIDE DEF c, f
  <2>3. FileOk(files'[o]) /\ files'[o].refs = f.refs + c /\ files'[o].name = f.name /\ files'[o].data = f.data
    BY <2>1, <2>2 DEF FileOk, FileFields
  <2> QED
    BY <2>3 DEF c, f
<1>6. DOMAIN files' = Objects
  BY <1>1 DEF Dos!Inherited
<1>7. ASSUME NEW o \in Objects PROVE files'[o].refs = Dos!References(o)' /\ (files'[o].refs = 0 => files'[o].data = Nil)
  <2>1. Cardinality(AsideOf(dosParents', o)) = Cardinality(AsideOf(P, o)) + Cardinality(HandlesOf(table, o))
    BY <1>2, <1>3, <1>4, AsideMore
  <2>2. Dos!References(o)' = Cardinality(HandlesOf(table, o)) + Cardinality(AsideOf(dosParents', o))
    BY <1>1, SameCardinality DEF Dos!References, HandlesOf, AsideOf
  <2>3. /\ files[o].refs = Cardinality(HandlesOf(table, o)) + Cardinality(AsideOf(P, o))
        /\ Cardinality(HandlesOf(table, o)) \in Nat /\ Cardinality(AsideOf(P, o)) \in Nat
        /\ (files[o].refs = 0 => files[o].data = Nil)
    BY DosHas
  <2>4. files'[o].refs = files[o].refs + Cardinality(HandlesOf(table, o)) /\ files'[o].data = files[o].data
    BY <1>5
  <2>5. PICK a \in Nat, b \in Nat : a = Cardinality(HandlesOf(table, o)) /\ b = Cardinality(AsideOf(P, o))
    BY <2>3
  <2>6. files'[o].refs = a + (b + a) /\ files[o].refs = a + b /\ Dos!References(o)' = a + (b + a)
    BY <2>1, <2>2, <2>3, <2>4, <2>5
  <2>7. files'[o].refs = 0 => files[o].refs = 0
    BY <2>5, <2>6
  <2> QED
    BY <2>3, <2>4, <2>6, <2>7
<1>8. ASSUME NEW k \in DOMAIN dosParents', NEW h \in Handles, dosParents'[k].files[h] # Nil
      PROVE  files'[dosParents'[k].files[h]].name = dosParents'[k].names[h]
  <2>1. CASE k = Len(P) + 1
    BY SMTT(60), <1>2, <1>4, <1>5, <1>8, <2>1, DosHas
  <2>2. CASE k # Len(P) + 1
    <3>1. k \in 1 .. Len(P) /\ dosParents'[k] = P[k] /\ k \in DOMAIN P
      BY <1>3, <1>4, <2>2
    <3>2. files[P[k].files[h]].name = P[k].names[h]
      BY <1>8, <3>1 DEF DosInv, Dos!HandlesStand
    <3>3. P[k].files[h] \in Objects
      <4>1. P[k] \in Aside
        BY <1>3, <3>1
      <4>2. P[k].files \in [Handles -> Objects \cup {Nil}]
        BY <4>1 DEF Aside, Tables
      <4> QED
        BY <1>8, <3>1, <4>2
    <3> QED
      BY <1>5, <3>1, <3>2, <3>3
  <2> QED
    BY <2>1, <2>2
<1>9. Dos!HandlesStand'
  BY <1>7, <1>8 DEF Dos!HandlesStand
<1> QED
  BY <1>1, <1>4, <1>5, <1>6, <1>9, DosHas DEF DosInv

\* dos_terminate(): the references of the handles that are closed, and those put back.
LEMMA TerminateFilesKeep == ASSUME DosSizes, DosInv, Dos!Terminate PROVE DosInv'
<1> DEFINE P == dosParents
           k == Len(P)
           Q == SubSeq(P, 1, k - 1)
<1>1. P # << >> /\ files' = Dos!CloseAll(files, table) /\ table' = P[k].files /\ dosParents' = Q
  BY DEF Dos!Terminate
<1>2. P \in Seq(Aside) /\ k \in Nat \ {0}
  BY <1>1, DosHas
<1>3. Q \in Seq(Aside) /\ Len(Q) = k - 1 /\ DOMAIN Q = 1 .. k - 1 /\ \A j \in 1 .. k - 1 : Q[j] = P[j]
  <2>1. Q \in Seq(Aside) /\ Len(Q) = k - 1 /\ \A j \in 1 .. k - 1 : Q[j] = P[j]
    BY <1>2, FrontIs
  <2> QED
    BY <2>1
<1>4. P[k] \in Aside /\ P[k].files \in Tables
  <2>1. P[k] \in Aside
    BY <1>2
  <2> QED
    BY <2>1 DEF Aside
<1>5. DOMAIN files' = Objects
  BY <1>1 DEF Dos!CloseAll
<1>6. ASSUME NEW o \in Objects
      PROVE  /\ FileOk(files'[o]) /\ (files'[o].refs = 0 => files'[o].data = Nil)
             /\ files'[o].refs = Cardinality(AsideOf(P, o))
             /\ files'[o].refs > 0 => files'[o].name = files[o].name
  <2> DEFINE f == files[o]
             n == Cardinality(HandlesOf(table, o))
             b == Cardinality(AsideOf(P, o))
  <2>1. FileOk(f) /\ n \in Nat /\ b \in Nat /\ f.refs = n + b /\ (f.refs = 0 => f.data = Nil)
    BY DosHas
  <2>2. files'[o] = IF n = 0 THEN f ELSE Dos!Dropped([f EXCEPT !.refs = @ - n + 1])
    BY <1>1, SameCardinality DEF Dos!CloseAll, HandlesOf
  <2> HIDE DEF f, n, b
  <2>3. CASE n = 0
    <3>1. files'[o] = f /\ f.refs = b
      BY <2>1, <2>2, <2>3
    <3> QED
      BY <2>1, <3>1 DEF f, b
  <2>4. CASE n # 0
    <3> DEFINE g == [f EXCEPT !.refs = @ - n + 1]
    <3>1. FileOk(g) /\ g.refs = b + 1 /\ g.name = f.name
      <4>1. (f.refs - n) + 1 = b + 1 /\ b + 1 \in Nat
        BY <2>1
      <4>2. DOMAIN g = FileFields /\ g.refs = (f.refs - n) + 1 /\ g.name = f.name
        BY <2>1 DEF FileOk, FileFields
      <4> HIDE DEF g
      <4> QED
        BY <2>1, <4>1, <4>2 DEF FileOk
    <3> HIDE DEF g
    <3>2. files'[o] = Dos!Dropped(g) /\ g.refs > 0 /\ g.refs - 1 = b
      BY <2>1, <2>2, <2>4, <3>1 DEF g
    <3>3. /\ FileOk(files'[o]) /\ files'[o].refs = b /\ (files'[o].refs = 0 => files'[o].data = Nil)
          /\ (files'[o].refs > 0 => files'[o].name = f.name)
      BY <3>1, <3>2, DroppedIs
    <3> QED
      BY <3>3 DEF f, b
  <2> QED
    BY <2>3, <2>4
<1>7. ASSUME NEW o \in Objects PROVE files'[o].refs = Dos!References(o)'
  <2>1. Cardinality(AsideOf(P, o)) = Cardinality(AsideOf(Q, o)) + Cardinality(HandlesOf(P[k].files, o))
    <3>1. Len(P) = Len(Q) + 1 /\ \A j \in 1 .. Len(Q) : P[j] = Q[j]
      BY <1>2, <1>3
    <3> QED
      BY <1>2, <1>3, <3>1, AsideMore
  <2>2. Dos!References(o)' = Cardinality(HandlesOf(P[k].files, o)) + Cardinality(AsideOf(Q, o))
    BY <1>1, SameCardinality DEF Dos!References, HandlesOf, AsideOf
  <2>3. PICK a \in Nat, b \in Nat : a = Cardinality(HandlesOf(P[k].files, o)) /\ b = Cardinality(AsideOf(Q, o))
    BY <1>3, HandlesFinite, AsideFinite
  <2> QED
    BY <1>6, <2>1, <2>2, <2>3
<1>8. ASSUME NEW j \in DOMAIN dosParents', NEW h \in Handles, dosParents'[j].files[h] # Nil
      PROVE  files'[dosParents'[j].files[h]].name = dosParents'[j].names[h]
  <2>1. j \in DOMAIN P /\ dosParents'[j] = P[j] /\ P[j] \in Aside
    BY <1>1, <1>2, <1>3
  <2>2. P[j].files \in [Handles -> Objects \cup {Nil}]
    BY <2>1 DEF Aside, Tables
  <2>3. PICK o \in Objects : o = P[j].files[h]
    BY <1>8, <2>1, <2>2
  <2>4. <<j, h>> \in AsideOf(P, o)
    BY <2>1, <2>3 DEF AsideOf
  <2>5. Cardinality(AsideOf(P, o)) # 0 /\ Cardinality(AsideOf(P, o)) \in Nat
    BY <1>2, <2>4, AsideFinite, FS_EmptySet
  <2>6. files'[o].name = files[o].name
    BY <1>6, <2>5
  <2>7. files[o].name = P[j].names[h]
    BY <1>8, <2>1, <2>3 DEF DosInv, Dos!HandlesStand
  <2> QED
    BY <2>1, <2>3, <2>6, <2>7
<1>9. Dos!HandlesStand'
  BY <1>6, <1>7, <1>8 DEF Dos!HandlesStand
<1> QED
  BY <1>1, <1>3, <1>4, <1>5, <1>6, <1>9 DEF DosInv

\* Nobody has a file: at the start, and at the end.
LEMMA NobodyHas ==
  ASSUME DosSizes, files = [o \in Objects |-> Dos!Closed], table = [h \in Handles |-> Nil], dosParents = << >>
  PROVE  DosInv
<1>1. table \in Tables /\ << >> \in Seq(Aside) /\ DOMAIN << >> = {}
  BY DEF Tables
<1>2. ASSUME NEW o \in Objects PROVE Dos!References(o) = 0
  <2>1. HandlesOf(table, o) = {} /\ AsideOf(dosParents, o) = {}
    BY <1>1 DEF HandlesOf, AsideOf, DosSizes
  <2>2. Cardinality({}) = 0
    BY FS_EmptySet
  <2>3. Dos!References(o) = Cardinality(HandlesOf(table, o)) + Cardinality(AsideOf(dosParents, o))
    BY SameCardinality DEF Dos!References, HandlesOf, AsideOf
  <2> QED
    BY <2>1, <2>2, <2>3
<1> QED
  BY <1>1, <1>2, ClosedIs DEF DosInv, Dos!HandlesStand

LEMMA NobodyHasThen ==
  ASSUME DosSizes, files' = [o \in Objects |-> Dos!Closed], table' = [h \in Handles |-> Nil], dosParents' = << >>
  PROVE  DosInv'
<1>1. table' \in Tables /\ << >> \in Seq(Aside) /\ DOMAIN << >> = {}
  BY DEF Tables
<1>2. ASSUME NEW o \in Objects PROVE Dos!References(o)' = 0
  <2>1. HandlesOf(table', o) = {} /\ AsideOf(dosParents', o) = {}
    BY <1>1 DEF HandlesOf, AsideOf, DosSizes
  <2>2. Cardinality({}) = 0
    BY FS_EmptySet
  <2>3. Dos!References(o)' = Cardinality(HandlesOf(table', o)) + Cardinality(AsideOf(dosParents', o))
    BY SameCardinality DEF Dos!References, HandlesOf, AsideOf
  <2> QED
    BY <2>1, <2>2, <2>3
<1> QED
  BY <1>1, <1>2, ClosedIs DEF DosInv, Dos!HandlesStand

LEMMA DosInit == ASSUME DosSizes, Dos!Init PROVE DosInv
  BY NobodyHas DEF Dos!Init

LEMMA DosStep == ASSUME DosSizes, DosInv, [Dos!Next]_Dos!vars PROVE DosInv'
<1>1. ASSUME NEW name \in Names, Dos!Create(name) \/ Dos!Open(name) PROVE DosInv'
  BY <1>1, CreateKeeps, OpenFileKeeps
<1>2. ASSUME UNCHANGED <<files, table, dosParents>> PROVE DosInv'
  BY <1>2 DEF DosInv, Dos!HandlesStand, Dos!References
<1>3. CASE \E name \in Names : Dos!Delete(name)
  BY <1>2, <1>3 DEF Dos!Delete
<1>4. CASE \E h \in Handles : Dos!Close(h)
  BY <1>4, CloseFileKeeps
<1>5. CASE \E h \in Handles, n \in 1 .. 2 : Dos!Read(h, n) \/ Dos!Write(h, n)
  BY <1>5, ReadKeeps, WriteKeeps
<1>6. CASE \E h \in Handles, pos \in 0 .. MaxPos : Dos!Seek(h, pos)
  BY <1>6, SeekKeeps
<1>7. CASE Dos!Exec \/ Dos!Terminate
  BY <1>7, ExecFilesKeep, TerminateFilesKeep
<1>8. CASE Dos!Shutdown
  BY <1>8, NobodyHasThen DEF Dos!Shutdown
<1>9. CASE UNCHANGED Dos!vars
  BY <1>2, <1>9 DEF Dos!vars
<1> QED
  BY <1>1, <1>3, <1>4, <1>5, <1>6, <1>7, <1>8, <1>9 DEF Dos!Next

-----------------------------------------------------------------------------
(* theM's memory.                                                            *)

\* The sizes of int21.c: there is a first paragraph that is not 0, an .EXE ends above where
\* any program may be loaded and inside the arena, and a .COM that may be loaded fits.
ArenaSizes ==
  /\ Start \in Nat \ {0} /\ End \in Nat /\ Blocks \in Nat
  /\ ChildMin \in Nat /\ ChildMax \in Nat /\ ExeFloor \in Nat /\ ExeCeil \in Nat
  /\ ComSize \in Nat \ {0} /\ EnvSize \in Nat \ {0}
  /\ Start < ExeCeil /\ ChildMax < ExeCeil /\ ExeCeil <= End
  /\ Start + ComSize <= End /\ ChildMax + ComSize <= End
  /\ \A x \in Exes : x.image \in Nat \ {0} /\ x.min \in Nat
  /\ Sizes \subseteq Nat

BlockRecord == [seg : Nat, size : Nat, owner : Nat]
BlockTables == [Arena!Slots -> BlockRecord]
Stop(b, i) == b[i].seg + b[i].size

\* Blocks lie in the arena, one behind the other.
Placed(b) ==
  /\ b \in BlockTables
  /\ \A i, j \in Arena!Live(b) : i # j => Stop(b, i) <= b[j].seg \/ Stop(b, j) <= b[i].seg
  /\ \A i \in Arena!Live(b) : Start <= b[i].seg /\ Stop(b, i) <= End

ArenaInv ==
  /\ Placed(blocks)
  /\ next \in Nat /\ Start <= next
  /\ \A i \in Arena!Live(blocks) : Stop(blocks, i) <= next
  /\ procs \in Seq(Nat \ {0})
  /\ Arena!Running => \A i \in Arena!Live(blocks) : \E k \in DOMAIN procs : blocks[i].owner = procs[k]
  /\ Arena!RefusalHonest

LEMMA GreatestExists ==
  ASSUME NEW S, S \subseteq Nat, S # {}, NEW top \in Nat, \A x \in S : x <= top
  PROVE  \E x \in S : \A y \in S : x >= y
<1> DEFINE D == {top - x : x \in S}
<1>1. D \subseteq Nat /\ D # {}
  <2>1. \A x \in S : x \in Nat /\ x <= top
    OBVIOUS
  <2>2. \A x \in Nat : x <= top => top - x \in Nat
    OBVIOUS
  <2>3. \A x \in S : top - x \in Nat
    BY <2>1, <2>2
  <2> QED
    BY <2>3
<1>2. PICK d \in D : \A e \in D : d <= e
  BY <1>1, LeastExists
<1>3. PICK x \in S : d = top - x
  OBVIOUS
<1>4. ASSUME NEW y \in S PROVE x >= y
  <2>1. top - y \in D
    OBVIOUS
  <2>2. d <= top - y
    BY <1>2, <2>1
  <2> QED
    BY <1>3, <2>2
<1> QED
  BY <1>4

\* The greatest and the least number are what Max and Min choose.
LEMMA MaxIs ==
  ASSUME NEW S, S \subseteq Nat, NEW x \in S, \A y \in S : x >= y
  PROVE  Arena!Max(S) = x
<1>1. Arena!Max(S) \in S /\ \A y \in S : Arena!Max(S) >= y
  BY DEF Arena!Max
<1>2. PICK z \in Nat : z = Arena!Max(S)
  BY <1>1
<1>3. z >= x /\ x >= z /\ x \in Nat
  BY <1>1, <1>2
<1>4. z = x
  BY <1>3
<1> QED
  BY <1>2, <1>4

LEMMA MaxHas ==
  ASSUME NEW S, S \subseteq Nat, S # {}, NEW top \in Nat, \A x \in S : x <= top
  PROVE  Arena!Max(S) \in S /\ \A y \in S : Arena!Max(S) >= y
<1>1. \E x \in S : \A y \in S : x >= y
  BY GreatestExists
<1> QED
  BY <1>1 DEF Arena!Max

LEMMA MinHas ==
  ASSUME NEW S, S \subseteq Nat, S # {}
  PROVE  Arena!Min(S) \in S /\ \A y \in S : Arena!Min(S) <= y
<1>1. \E x \in S : \A y \in S : x <= y
  BY LeastExists
<1> QED
  BY <1>1 DEF Arena!Min

LEMMA LiveIs ==
  ASSUME ArenaSizes, NEW b \in BlockTables
  PROVE  /\ Arena!Live(b) \subseteq Arena!Slots /\ Arena!Slots \subseteq Nat
         /\ \A i \in Arena!Slots : /\ b[i].seg \in Nat /\ b[i].size \in Nat /\ b[i].owner \in Nat
                                   /\ Stop(b, i) \in Nat /\ (i \in Arena!Live(b) <=> b[i].owner # 0)
<1>1. ASSUME NEW i \in Arena!Slots PROVE b[i] \in BlockRecord
  BY DEF BlockTables
<1> QED
  BY <1>1 DEF Arena!Live, Arena!Slots, ArenaSizes, Stop, BlockRecord

\* block_cursor(): above every block.
LEMMA CursorIs ==
  ASSUME ArenaSizes, NEW b, Placed(b)
  PROVE  /\ Arena!BlockCursor(b) \in Nat /\ Start <= Arena!BlockCursor(b)
         /\ \A i \in Arena!Live(b) : Stop(b, i) <= Arena!BlockCursor(b)
<1> DEFINE S == {Start} \cup {b[i].seg + b[i].size : i \in Arena!Live(b)}
<1>1. Start \in Nat /\ End \in Nat /\ Start <= End
  BY DEF ArenaSizes
<1>2. S \subseteq Nat /\ S # {} /\ \A x \in S : x <= End
  BY <1>1, LiveIs DEF Placed, Stop
<1>3. Arena!Max(S) \in S /\ \A y \in S : Arena!Max(S) >= y
  BY <1>1, <1>2, MaxHas
<1>4. \A i \in Arena!Live(b) : Stop(b, i) \in S
  BY DEF Stop
<1> QED
  BY <1>1, <1>2, <1>3, <1>4, LiveIs DEF Arena!BlockCursor, Placed

\* block_room(): what fits at a base, and no less.
LEMMA RoomIs ==
  ASSUME ArenaSizes, NEW b, Placed(b), NEW base \in Nat, base <= End, NEW ignore
  PROVE  LET others == Arena!Live(b) \ ignore
             r == Arena!BlockRoom(b, base, ignore)
             covered == \E i \in others : base >= b[i].seg /\ base < Stop(b, i)
         IN  /\ r \in Nat /\ base + r <= End
             /\ r > 0 => ~covered
             /\ \A i \in others : b[i].seg >= base => base + r <= b[i].seg
             /\ \A n \in Nat : ~covered /\ base + n <= End
                               /\ (\A i \in others : b[i].seg >= base => base + n <= b[i].seg) => n <= r
<1> DEFINE others == Arena!Live(b) \ ignore
           above == {b[i].seg : i \in {j \in others : b[j].seg >= base}}
           r == Arena!BlockRoom(b, base, ignore)
           covered == \E i \in others : base >= b[i].seg /\ base < Stop(b, i)
<1>1. r = IF covered THEN 0 ELSE Arena!Min(above \cup {End}) - base
  BY DEF Arena!BlockRoom, Stop
<1>2. End \in Nat /\ \A i \in others : b[i].seg \in Nat
  BY LiveIs DEF ArenaSizes, Placed
<1>3. above \cup {End} \subseteq Nat /\ above \cup {End} # {} /\ \A x \in above \cup {End} : x >= base
  BY <1>2
<1>4. PICK y \in above \cup {End} : y = Arena!Min(above \cup {End}) /\ \A z \in above \cup {End} : y <= z
  BY <1>3, MinHas
<1>5. \A i \in others : b[i].seg >= base => b[i].seg \in above
  OBVIOUS
<1>6. y \in Nat /\ y >= base /\ y <= End
  BY <1>3, <1>4
<1>7. r = IF covered THEN 0 ELSE y - base
  BY <1>1, <1>4
<1> HIDE DEF r, covered
<1>8. \A i \in others : b[i].seg >= base => y <= b[i].seg
  BY <1>4, <1>5
<1>9. ASSUME NEW n \in Nat, base + n <= End, \A i \in others : b[i].seg >= base => base + n <= b[i].seg
      PROVE  base + n <= y
  BY <1>4, <1>9
<1> HIDE DEF above
<1>10. r \in Nat /\ base + r <= End /\ (r > 0 => ~covered)
  BY <1>2, <1>6, <1>7
<1>11. \A i \in others : b[i].seg >= base => base + r <= b[i].seg
  BY <1>2, <1>6, <1>7, <1>8
<1>12. ASSUME NEW n \in Nat, ~covered, base + n <= End, \A i \in others : b[i].seg >= base => base + n <= b[i].seg
      PROVE  n <= r
  BY <1>6, <1>7, <1>9, <1>12
<1> QED
  BY <1>10, <1>11, <1>12 DEF r, covered

\* block_add(): one more block, where nobody's is, or none when the table is full.
LEMMA AddIs ==
  ASSUME ArenaSizes, NEW b, Placed(b), NEW seg \in Nat, NEW size \in Nat, NEW owner \in Nat \ {0},
         Start <= seg, seg + size <= End,
         \A i \in Arena!Live(b) : Stop(b, i) <= seg \/ seg + size <= b[i].seg
  PROVE  LET c == Arena!BlockAdd(b, seg, size, owner)
             rec == [seg |-> seg, size |-> size, owner |-> owner]
         IN  /\ Placed(c)
             /\ \A i \in Arena!Live(c) : (i \in Arena!Live(b) /\ c[i] = b[i]) \/ c[i] = rec
<1> DEFINE c == Arena!BlockAdd(b, seg, size, owner)
           rec == [seg |-> seg, size |-> size, owner |-> owner]
           free == Arena!Slots \ Arena!Live(b)
<1>1. CASE free = {}
  BY <1>1 DEF Arena!BlockAdd
<1>2. CASE free # {}
  <2>1. b \in BlockTables /\ free \subseteq Nat
    BY LiveIs DEF Placed
  <2>2. PICK k \in free : k = Arena!Min(free)
    BY <1>2, <2>1, MinHas
  <2>3. c = [b EXCEPT ![k] = rec]
    BY <1>2, <2>2 DEF Arena!BlockAdd
  <2>4. rec \in BlockRecord /\ rec.seg = seg /\ rec.size = size /\ rec.owner # 0
    BY DEF BlockRecord
  <2> HIDE DEF c, rec
  <2>5. c \in BlockTables /\ c[k] = rec /\ \A i \in Arena!Slots : i # k => c[i] = b[i]
    BY <2>1, <2>3, <2>4 DEF BlockTables
  <2>6. ASSUME NEW i \in Arena!Live(c) PROVE (i \in Arena!Live(b) /\ c[i] = b[i]) \/ (i = k /\ c[i] = rec)
    BY <2>5 DEF Arena!Live
  <2> HIDE DEF free
  <2>7. ASSUME NEW i \in Arena!Live(c), NEW j \in Arena!Live(c), i # j
        PROVE  Stop(c, i) <= c[j].seg \/ Stop(c, j) <= c[i].seg
    BY <2>4, <2>6, <2>7 DEF Placed, Stop
  <2>8. \A i \in Arena!Live(c) : Start <= c[i].seg /\ Stop(c, i) <= End
    BY <2>4, <2>6 DEF Placed, Stop
  <2> QED
    BY <2>5, <2>6, <2>7, <2>8 DEF Placed, c, rec
<1> QED
  BY <1>1, <1>2

\* What a refused program is told is the largest hole: every hole begins behind a block or
\* at the start.
LEMMA LargestIs ==
  ASSUME ArenaSizes, Placed(blocks), \A i \in Arena!Live(blocks) : blocks[i].size > 0
  PROVE  LET bases == {Start} \cup {blocks[i].seg + blocks[i].size : i \in Arena!Live(blocks)}
         IN  Arena!Max({Arena!BlockRoom(blocks, s, {}) : s \in bases})
               = Arena!Max({Arena!Cardinality(r) : r \in Arena!Holes} \cup {0})
<1> DEFINE L == Arena!Live(blocks)
           bases == {Start} \cup {blocks[i].seg + blocks[i].size : i \in L}
           at(s) == Arena!BlockRoom(blocks, s, {})
           rooms == {at(s) : s \in bases}
           told == {Arena!Cardinality(r) : r \in Arena!Holes} \cup {0}
<1>1. /\ Start \in Nat /\ End \in Nat /\ Start <= End
      /\ \A i \in L : /\ blocks[i].seg \in Nat /\ blocks[i].size \in Nat /\ Stop(blocks, i) \in Nat
                      /\ Start <= blocks[i].seg /\ Stop(blocks, i) <= End /\ blocks[i].seg < Stop(blocks, i)
  BY LiveIs DEF ArenaSizes, Placed, Stop
<1>2. \A i \in L : Stop(blocks, i) \in bases
  BY DEF Stop
<1>3. \A s \in bases : s \in Nat /\ Start <= s /\ s <= End
  BY <1>1 DEF Stop
<1>4. \A n \in Nat : n \in Arena!Taken <=> \E i \in L : blocks[i].seg <= n /\ n < Stop(blocks, i)
  BY <1>1 DEF Arena!Taken, Arena!Covers, Stop
<1>5. ASSUME NEW s \in bases
      PROVE  /\ at(s) \in Nat /\ s + at(s) <= End
             /\ at(s) > 0 => \A i \in L : ~(s >= blocks[i].seg /\ s < Stop(blocks, i))
             /\ \A i \in L : blocks[i].seg >= s => s + at(s) <= blocks[i].seg
             /\ \A n \in Nat : (\A i \in L : ~(s >= blocks[i].seg /\ s < Stop(blocks, i))) /\ s + n <= End
                               /\ (\A i \in L : blocks[i].seg >= s => s + n <= blocks[i].seg) => n <= at(s)
  <2>1. L \ {} = L
    OBVIOUS
  <2> QED
    BY <1>3, <2>1, RoomIs
<1> HIDE DEF at
<1>6. rooms \subseteq Nat /\ rooms # {} /\ \A x \in rooms : x <= End
  BY <1>1, <1>3, <1>5
<1>7. PICK s \in bases : at(s) = Arena!Max(rooms) /\ \A t \in bases : at(s) >= at(t)
  <2>1. Arena!Max(rooms) \in rooms /\ \A y \in rooms : Arena!Max(rooms) >= y
    BY <1>1, <1>6, MaxHas
  <2>2. \A t \in bases : at(t) \in rooms
    OBVIOUS
  <2>3. PICK s \in bases : Arena!Max(rooms) = at(s)
    BY <2>1
  <2> HIDE DEF rooms, bases
  <2>4. \A t \in bases : at(s) >= at(t)
    BY <2>1, <2>2, <2>3
  <2> QED
    BY <2>3, <2>4
<1>8. at(s) \in told
  <2>1. CASE at(s) = 0
    BY <2>1
  <2>2. CASE at(s) # 0
    <3> PICK n \in Nat : n = at(s)
      BY <1>5
    <3> DEFINE hole == s .. s + n - 1
    <3>1. s \in Nat /\ Start <= s /\ s + n <= End /\ n > 0
      BY <1>3, <1>5, <2>2
    <3>2. ASSUME NEW x \in hole PROVE x \notin Arena!Taken
      <4>1. x \in Nat /\ s <= x /\ x < s + n
        BY <3>1
      <4>2. ASSUME NEW i \in L, blocks[i].seg <= x, x < Stop(blocks, i) PROVE FALSE
        <5>1. ~(s >= blocks[i].seg /\ s < Stop(blocks, i)) /\ (blocks[i].seg >= s => s + n <= blocks[i].seg)
          BY <1>5, <3>1
        <5> QED
          BY <1>1, <3>1, <4>1, <4>2, <5>1
      <4> QED
        BY <1>4, <4>1, <4>2
    <3>3. hole # {} /\ s \in Start .. End - 1 /\ s + n - 1 \in Start .. End - 1
      BY <1>1, <3>1
    <3>4. hole \in Arena!Holes
      BY <3>2, <3>3 DEF Arena!Holes
    <3>5. Arena!Cardinality(hole) = n
      <4>1. PICK e \in Int : e = s + n - 1
        BY <3>1
      <4>2. Cardinality(s .. e) = IF s > e THEN 0 ELSE e - s + 1
        BY <3>1, FS_Interval
      <4>3. Arena!Cardinality(hole) = Cardinality(hole)
        BY DEF Arena!Cardinality, Cardinality
      <4> QED
        BY <3>1, <4>1, <4>2, <4>3
    <3> HIDE DEF hole
    <3> QED
      BY <3>4, <3>5
  <2> QED
    BY <2>1, <2>2
<1>9. ASSUME NEW h \in Arena!Holes PROVE Arena!Cardinality(h) \in Nat /\ Arena!Cardinality(h) <= at(s)
  <2>1. PICK a \in Start .. End - 1, z \in Start .. End - 1 : h = a .. z /\ h # {} /\ h \cap Arena!Taken = {}
    BY DEF Arena!Holes
  <2>2. a \in Nat /\ z \in Nat /\ Start <= a /\ a <= z /\ z < End
    BY <1>1, <2>1
  <2>3. Arena!Cardinality(h) = z - a + 1
    <3>1. Cardinality(a .. z) = z - a + 1
      BY <2>2, FS_Interval
    <3>2. Arena!Cardinality(h) = Cardinality(h)
      BY DEF Arena!Cardinality, Cardinality
    <3> QED
      BY <2>1, <3>1, <3>2
  <2> DEFINE below == {t \in bases : t <= a}
  <2>4. below \subseteq Nat /\ below # {} /\ \A x \in below : x <= a
    BY <1>3, <2>2
  <2>5. PICK t \in below : \A y \in below : t >= y
    BY <2>2, <2>4, GreatestExists
  <2>6. t \in bases /\ t \in Nat /\ t <= a
    BY <2>4, <2>5
  <2>7. ASSUME NEW i \in L, blocks[i].seg <= z, Stop(blocks, i) > t PROVE blocks[i].seg < t
    \* Such a block ends behind a, for t is the last base before it, and has a paragraph of the hole.
    <3>1. Stop(blocks, i) > a
      <4>1. Stop(blocks, i) <= a => Stop(blocks, i) \in below
        BY <1>2
      <4> QED
        BY <1>1, <2>2, <2>4, <2>5, <2>6, <2>7, <4>1
    <3>2. PICK x \in Nat : x = IF blocks[i].seg <= a THEN a ELSE blocks[i].seg
      BY <1>1, <2>2
    <3>3. a <= x /\ x <= z /\ blocks[i].seg <= x /\ x < Stop(blocks, i)
      BY <1>1, <2>2, <2>7, <3>1, <3>2
    <3>4. x \in h /\ x \in Arena!Taken
      BY <1>4, <2>1, <2>2, <3>3
    <3> QED
      BY <2>1, <3>4
  <2>8. ASSUME NEW i \in L PROVE ~(t >= blocks[i].seg /\ t < Stop(blocks, i))
    <3>1. SUFFICES ASSUME t >= blocks[i].seg, t < Stop(blocks, i) PROVE FALSE
      OBVIOUS
    <3>2. Stop(blocks, i) > a
      <4>1. Stop(blocks, i) <= a => Stop(blocks, i) \in below
        BY <1>2
      <4> QED
        BY <1>1, <2>2, <2>4, <2>5, <2>6, <3>1, <4>1
    <3>3. a \in h /\ a \in Arena!Taken
      BY <1>1, <1>4, <2>1, <2>2, <2>6, <3>1, <3>2
    <3> QED
      BY <2>1, <3>3
  <2>9. PICK n \in Nat : n = z + 1 - t
    BY <2>2, <2>6
  <2>10. \A i \in L : blocks[i].seg >= t => t + n <= blocks[i].seg
    BY <1>1, <2>2, <2>6, <2>7, <2>9
  <2>11. n <= at(t)
    BY <1>1, <1>5, <2>2, <2>6, <2>8, <2>9, <2>10
  <2>12. at(t) \in Nat /\ at(s) \in Nat /\ at(s) >= at(t)
    BY <1>5, <1>7, <2>6
  <2> QED
    BY <2>2, <2>3, <2>6, <2>9, <2>11, <2>12
<1>10. at(s) \in Nat
  BY <1>5
<1>11. told \subseteq Nat /\ \A y \in told : at(s) >= y
  BY <1>9, <1>10
<1> HIDE DEF told, rooms
<1>12. Arena!Max(told) = at(s)
  BY <1>8, <1>11, MaxIs
<1> QED
  BY <1>7, <1>12 DEF told, rooms, at

\* The actions.  One that only changes the table and has the cursor computed again.
LEMMA TableKeeps ==
  ASSUME ArenaSizes, ArenaInv, Placed(blocks'), next' = Arena!BlockCursor(blocks'), refused' = -1,
         procs' \in Seq(Nat \ {0}),
         procs' # << >> => \A i \in Arena!Live(blocks') : \E k \in DOMAIN procs' : blocks'[i].owner = procs'[k]
  PROVE  ArenaInv'
<1>1. /\ next' \in Nat /\ Start <= next'
      /\ \A i \in Arena!Live(blocks') : Stop(blocks', i) <= next'
  BY CursorIs
<1> QED
  BY <1>1 DEF ArenaInv, Arena!RefusalHonest, Arena!Running, Placed, Arena!Live, Stop

LEMMA PspIs ==
  ASSUME ArenaInv, Arena!Running PROVE Arena!Psp \in Nat \ {0} /\ \E k \in DOMAIN procs : Arena!Psp = procs[k]
<1>1. procs \in Seq(Nat \ {0}) /\ procs # << >>
  BY DEF ArenaInv, Arena!Running
<1>2. Len(procs) \in DOMAIN procs
  BY <1>1
<1> QED
  BY <1>1, <1>2 DEF Arena!Psp

LEMMA AllocKeeps == ASSUME ArenaSizes, ArenaInv, NEW want \in Sizes, Arena!AllocMemory(want) PROVE ArenaInv'
<1> DEFINE bases == {Start} \cup {blocks[i].seg + blocks[i].size : i \in Arena!Live(blocks)}
           at(s) == Arena!BlockRoom(blocks, s, {})
           fit == {s \in bases : at(s) >= want /\ at(s) > 0}
<1>1. /\ Arena!Running /\ procs' = procs
      /\ IF fit = {} \/ Arena!Live(blocks) = Arena!Slots
         THEN refused' = Arena!Max({at(s) : s \in bases}) /\ blocks' = blocks /\ next' = next
         ELSE /\ blocks' = Arena!BlockAdd(blocks, Arena!Min(fit), IF want = 0 THEN 1 ELSE want, Arena!Psp)
              /\ next' = Arena!BlockCursor(blocks')
              /\ refused' = -1
  BY DEF Arena!AllocMemory, Arena!Done
<1>2. Placed(blocks) /\ want \in Nat /\ Start \in Nat /\ End \in Nat /\ Start <= End
  <2>1. Placed(blocks)
    BY Zenon DEF ArenaInv
  <2> HIDE DEF at, fit, bases
  <2>2. want \in Nat /\ Start \in Nat /\ End \in Nat /\ Start <= End
    BY DEF ArenaSizes
  <2> QED
    BY Zenon, <2>1, <2>2
<1>3. CASE fit = {} \/ Arena!Live(blocks) = Arena!Slots
  <2>1. refused' = Arena!Max({at(s) : s \in bases}) /\ blocks' = blocks /\ next' = next
    BY <1>1, <1>3
  <2>2. Arena!RefusalHonest'
    BY <1>2, <2>1, LargestIs DEF Arena!RefusalHonest, Arena!Holes, Arena!Taken, Arena!Covers, Arena!Live
  <2> QED
    BY <1>1, <2>1, <2>2 DEF ArenaInv, Placed, Arena!Running, Arena!Live, Stop
<1>4. CASE ~(fit = {} \/ Arena!Live(blocks) = Arena!Slots)
  <2>1. /\ blocks' = Arena!BlockAdd(blocks, Arena!Min(fit), IF want = 0 THEN 1 ELSE want, Arena!Psp)
        /\ next' = Arena!BlockCursor(blocks') /\ refused' = -1
    BY <1>1, <1>4
  <2>2. \A s \in bases : s \in Nat /\ Start <= s /\ s <= End
    BY <1>2, LiveIs DEF Placed, Stop
  <2>3. fit \subseteq Nat /\ fit # {}
    BY <1>4, <2>2
  <2>4. PICK s \in fit : s = Arena!Min(fit)
    BY <2>3, MinHas
  <2>5. s \in bases /\ at(s) >= want /\ at(s) > 0 /\ s \in Nat /\ Start <= s /\ s <= End
    BY <2>2, <2>4
  <2>6. /\ at(s) \in Nat /\ s + at(s) <= End
        /\ \A i \in Arena!Live(blocks) : ~(s >= blocks[i].seg /\ s < Stop(blocks, i))
        /\ \A i \in Arena!Live(blocks) : blocks[i].seg >= s => s + at(s) <= blocks[i].seg
    <3>1. Arena!Live(blocks) \ {} = Arena!Live(blocks)
      OBVIOUS
    <3> QED
      BY <1>2, <2>5, <3>1, RoomIs
  <2>7. PICK size \in Nat : size = IF want = 0 THEN 1 ELSE want
    BY <1>2
  <2> HIDE DEF at, fit, bases
  <2>8. size <= at(s) /\ s + size <= End
    BY <1>2, <2>5, <2>6, <2>7
  <2>9. \A i \in Arena!Live(blocks) : Stop(blocks, i) <= s \/ s + size <= blocks[i].seg
    <3>1. \A i \in Arena!Live(blocks) : blocks[i].seg \in Nat /\ Stop(blocks, i) \in Nat
      BY <1>2, LiveIs DEF Placed
    <3> QED
      BY <2>5, <2>6, <2>8, <3>1
  <2>10. PICK p \in Nat \ {0} : p = Arena!Psp /\ \E k \in DOMAIN procs : p = procs[k]
    BY <1>1, PspIs
  <2>11. blocks' = Arena!BlockAdd(blocks, s, size, p)
    BY <2>1, <2>4, <2>7, <2>10
  <2>12. /\ Placed(blocks')
         /\ \A i \in Arena!Live(blocks') : \/ i \in Arena!Live(blocks) /\ blocks'[i] = blocks[i]
                                           \/ blocks'[i] = [seg |-> s, size |-> size, owner |-> p]
    BY <1>2, <2>5, <2>8, <2>9, <2>11, AddIs
  <2>13. \A i \in Arena!Live(blocks') : \E k \in DOMAIN procs : blocks'[i].owner = procs[k]
    <3>1. \A i \in Arena!Live(blocks) : \E k \in DOMAIN procs : blocks[i].owner = procs[k]
      BY <1>1 DEF ArenaInv
    <3>2. [seg |-> s, size |-> size, owner |-> p].owner = p
      OBVIOUS
    <3> QED
      BY <2>10, <2>12, <3>1, <3>2
  <2> QED
    BY <1>1, <2>1, <2>12, <2>13, TableKeeps DEF ArenaInv
<1> QED
  BY <1>3, <1>4

\* Where nothing happens but that an earlier refusal is over.
LEMMA NothingKeeps ==
  ASSUME ArenaInv, UNCHANGED <<blocks, next, procs>>, refused' = -1 PROVE ArenaInv'
  BY DEF ArenaInv, Placed, Arena!RefusalHonest, Arena!Running, Arena!Live, Stop

\* Fewer blocks.
LEMMA FreedIs ==
  ASSUME ArenaSizes, NEW b, Placed(b), NEW c \in BlockTables,
         \A i \in Arena!Slots : c[i] = b[i] \/ c[i] = Arena!Free
  PROVE  Placed(c) /\ \A i \in Arena!Live(c) : i \in Arena!Live(b) /\ c[i] = b[i]
<1>1. \A i \in Arena!Live(c) : i \in Arena!Live(b) /\ c[i] = b[i]
  BY DEF Arena!Live, Arena!Free
<1> QED
  BY <1>1 DEF Placed, Stop

LEMMA FreeIs == Arena!Free \in BlockRecord
  BY DEF Arena!Free, BlockRecord

LEMMA ReleaseBlockKeeps == ASSUME ArenaSizes, ArenaInv, NEW seg, Arena!ReleaseMemory(seg) PROVE ArenaInv'
<1>1. Arena!Running /\ procs' = procs /\ refused' = -1
  BY DEF Arena!ReleaseMemory, Arena!Done
<1>2. CASE Arena!BlockFind(blocks, seg) = {}
  BY <1>1, <1>2, NothingKeeps DEF Arena!ReleaseMemory
<1>3. CASE Arena!BlockFind(blocks, seg) # {}
  <2>1. PICK i \in Arena!BlockFind(blocks, seg) : blocks' = [blocks EXCEPT ![i] = Arena!Free]
    BY <1>3 DEF Arena!ReleaseMemory
  <2>2. next' = Arena!BlockCursor(blocks')
    BY <1>3 DEF Arena!ReleaseMemory
  <2>3. Placed(blocks) /\ blocks \in BlockTables /\ i \in Arena!Slots
    BY DEF ArenaInv, Placed, Arena!BlockFind, Arena!Live
  <2>4. blocks' \in BlockTables /\ \A j \in Arena!Slots : blocks'[j] = blocks[j] \/ blocks'[j] = Arena!Free
    BY <2>1, <2>3, FreeIs DEF BlockTables
  <2>5. Placed(blocks') /\ \A j \in Arena!Live(blocks') : j \in Arena!Live(blocks) /\ blocks'[j] = blocks[j]
    BY <2>3, <2>4, FreedIs
  <2> QED
    BY <1>1, <2>2, <2>5, TableKeeps DEF ArenaInv
<1> QED
  BY <1>2, <1>3

LEMMA ResizeBlockKeeps ==
  ASSUME ArenaSizes, ArenaInv, NEW seg, NEW size \in Sizes, Arena!ResizeMemory(seg, size) PROVE ArenaInv'
<1> DEFINE found == Arena!BlockFind(blocks, seg)
           r == Arena!BlockRoom(blocks, seg, found)
<1>1. Arena!Running /\ procs' = procs /\ refused' = -1
  BY DEF Arena!ResizeMemory, Arena!Done
<1>2. CASE found = {} \/ size > r
  BY <1>1, <1>2, NothingKeeps DEF Arena!ResizeMemory
<1>3. CASE ~(found = {} \/ size > r)
  <2>1. PICK i \in found : blocks' = [blocks EXCEPT ![i].size = size]
    BY <1>3 DEF Arena!ResizeMemory
  <2>2. next' = Arena!BlockCursor(blocks') /\ size \in Nat
    BY <1>3 DEF Arena!ResizeMemory, ArenaSizes
  <2>3. Placed(blocks) /\ blocks \in BlockTables /\ i \in Arena!Live(blocks) /\ i \in Arena!Slots
    BY DEF ArenaInv, Placed, Arena!BlockFind, Arena!Live
  <2>4. found = {i} /\ blocks[i].seg = seg
    BY <2>3, LiveIs DEF Arena!BlockFind
  <2>5. /\ \A j \in Arena!Live(blocks) : /\ blocks[j].seg \in Nat /\ blocks[j].size \in Nat
                                         /\ Stop(blocks, j) \in Nat /\ Stop(blocks, j) = blocks[j].seg + blocks[j].size
        /\ Start \in Nat /\ End \in Nat
    BY <2>3, LiveIs DEF Stop, ArenaSizes
  <2>6. seg \in Nat /\ Start <= seg /\ seg + blocks[i].size <= End /\ seg <= End
    BY <2>3, <2>4, <2>5 DEF Placed, Stop
  <2>7. /\ r \in Nat /\ seg + r <= End
        /\ r > 0 => ~\E j \in Arena!Live(blocks) \ {i} : seg >= blocks[j].seg /\ seg < Stop(blocks, j)
        /\ \A j \in Arena!Live(blocks) \ {i} : blocks[j].seg >= seg => seg + r <= blocks[j].seg
    BY <2>3, <2>4, <2>6, RoomIs
  <2> HIDE DEF r, found
  <2>8. size <= r /\ seg + size <= End
    <3>1. ~(size > r)
      BY <1>3
    <3> QED
      BY <2>2, <2>5, <2>6, <2>7, <3>1
  <2>9. ASSUME NEW j \in Arena!Live(blocks), j # i PROVE seg + size <= blocks[j].seg \/ Stop(blocks, j) <= seg
    <3>1. CASE r > 0
      BY <2>2, <2>5, <2>6, <2>7, <2>8, <2>9, <3>1
    <3>2. CASE r = 0
      <4>1. Stop(blocks, i) <= blocks[j].seg \/ Stop(blocks, j) <= blocks[i].seg
        BY <2>3, <2>9 DEF Placed
      <4> QED
        BY <2>2, <2>3, <2>4, <2>5, <2>6, <2>8, <3>2, <4>1
    <3> QED
      BY <2>7, <3>1, <3>2
  <2>10. blocks[i] \in BlockRecord
    BY <2>3 DEF BlockTables
  <2>11. PICK n : n = [blocks[i] EXCEPT !.size = size]
    OBVIOUS
  <2>12. n \in BlockRecord /\ n.seg = seg /\ n.size = size /\ n.owner = blocks[i].owner
    BY <2>2, <2>4, <2>10, <2>11 DEF BlockRecord
  <2>13. blocks' = [blocks EXCEPT ![i] = n]
    BY <2>1, <2>11
  <2>14. blocks' \in BlockTables /\ blocks'[i] = n /\ \A j \in Arena!Slots : j # i => blocks'[j] = blocks[j]
    BY <2>3, <2>12, <2>13 DEF BlockTables
  <2>15. Arena!Live(blocks') = Arena!Live(blocks) /\ \A j \in Arena!Live(blocks) : blocks'[j].owner = blocks[j].owner
    BY <2>3, <2>12, <2>14 DEF Arena!Live
  <2>16. Stop(blocks', i) = seg + size /\ \A j \in Arena!Live(blocks) : j # i => Stop(blocks', j) = Stop(blocks, j)
                                                                       /\ blocks'[j].seg = blocks[j].seg
    BY <2>12, <2>14 DEF Stop, Arena!Live
  <2>17. Placed(blocks')
    <3>1. ASSUME NEW j \in Arena!Live(blocks'), NEW k \in Arena!Live(blocks'), j # k
          PROVE  Stop(blocks', j) <= blocks'[k].seg \/ Stop(blocks', k) <= blocks'[j].seg
      <4>1. CASE j = i
        BY <2>9, <2>12, <2>14, <2>15, <2>16, <3>1, <4>1
      <4>2. CASE k = i
        BY SMTT(20), <2>9, <2>12, <2>14, <2>15, <2>16, <3>1, <4>2
      <4>3. CASE j # i /\ k # i
        BY <2>3, <2>15, <2>16, <3>1, <4>3 DEF Placed
      <4> QED
        BY <4>1, <4>2, <4>3
    <3>2. \A j \in Arena!Live(blocks') : Start <= blocks'[j].seg /\ Stop(blocks', j) <= End
      BY SMTT(60), <2>3, <2>6, <2>8, <2>12, <2>14, <2>15, <2>16 DEF Placed
    <3> QED
      BY <2>14, <3>1, <3>2 DEF Placed
  <2>18. \A j \in Arena!Live(blocks') : \E k \in DOMAIN procs : blocks'[j].owner = procs[k]
    BY <1>1, <2>15 DEF ArenaInv
  <2> QED
    BY <1>1, <2>2, <2>17, <2>18, TableKeeps DEF ArenaInv
<1> QED
  BY <1>2, <1>3

\* Where a program that can be loaded ends.
LEMMA LoadIs ==
  ASSUME ArenaSizes, NEW psp \in Nat, psp = Start \/ psp <= ChildMax, NEW f \in Arena!Files,
         Arena!LoadProgram(psp, f) # 0
  PROVE  Arena!LoadProgram(psp, f) \in Nat /\ psp < Arena!LoadProgram(psp, f) /\ Arena!LoadProgram(psp, f) <= End
<1>1. f # Arena!Bad
  BY DEF Arena!LoadProgram
<1>2. CASE f = Arena!Com
  BY <1>1, <1>2 DEF Arena!LoadProgram, Arena!LoadCom, Arena!Com, ArenaSizes
<1>3. ASSUME NEW x \in Exes, f = [image |-> x.image, min |-> x.min, exe |-> TRUE] PROVE
        Arena!LoadProgram(psp, f) \in Nat /\ psp < Arena!LoadProgram(psp, f) /\ Arena!LoadProgram(psp, f) <= End
  <2>1. f.exe /\ f.image \in Nat \ {0} /\ f.min \in Nat
    BY <1>3 DEF ArenaSizes
  <2>2. PICK top \in Nat : top = psp + f.image + f.min
    BY <2>1
  <2>3. Arena!LoadProgram(psp, f) = Arena!Min({Arena!Max({top, ExeFloor}), ExeCeil})
    BY <1>1, <2>1, <2>2 DEF Arena!LoadProgram, Arena!LoadExe
  <2>4. top > psp /\ ExeFloor \in Nat /\ ExeCeil \in Nat /\ ExeCeil > psp /\ ExeCeil <= End /\ End \in Nat
    BY <2>1, <2>2 DEF ArenaSizes
  <2>5. PICK w \in {top, ExeFloor} : w = Arena!Max({top, ExeFloor}) /\ w >= top
    <3>1. {top, ExeFloor} \subseteq Nat /\ {top, ExeFloor} # {}
      BY <2>4
    <3>2. top + ExeFloor \in Nat /\ \A x1 \in {top, ExeFloor} : x1 <= top + ExeFloor
      BY SMTT(60), <2>4
    <3> QED
      BY <3>1, <3>2, MaxHas
  <2>6. PICK e \in {w, ExeCeil} : e = Arena!Min({w, ExeCeil}) /\ e <= ExeCeil
    <3>1. {w, ExeCeil} \subseteq Nat /\ {w, ExeCeil} # {}
      BY <2>4, <2>5
    <3> QED
      BY <3>1, MinHas
  <2>7. e \in Nat /\ psp < e /\ e <= End
    BY <2>4, <2>5, <2>6
  <2> QED
    BY <2>3, <2>5, <2>6, <2>7
<1> QED
  BY <1>1, <1>2, <1>3 DEF Arena!Files

LEMMA ArenaInit == ASSUME ArenaSizes, Arena!Init PROVE ArenaInv
<1> DEFINE none == [i \in Arena!Slots |-> Arena!Free]
<1>1. PICK f \in Arena!Files :
        /\ Arena!LoadProgram(Start, f) # 0
        /\ blocks = Arena!BlockAdd(none, Start, Arena!LoadProgram(Start, f) - Start, Start)
        /\ next = Arena!LoadProgram(Start, f)
        /\ procs = <<Start>> /\ refused = -1
  BY DEF Arena!Init
<1>2. Start \in Nat \ {0}
  BY DEF ArenaSizes
<1>3. PICK e \in Nat : e = Arena!LoadProgram(Start, f) /\ Start < e /\ e <= End
  BY <1>1, <1>2, LoadIs
<1>4. Arena!Live(none) = {} /\ none \in BlockTables
  BY FreeIs DEF Arena!Live, Arena!Free, BlockTables
<1>5. Placed(none)
  BY <1>4 DEF Placed
<1> HIDE DEF none
<1>6. PICK size \in Nat : size = e - Start
  BY <1>2, <1>3
<1>7. Start + size = e /\ Start + size <= End /\ Start <= Start
  BY <1>2, <1>3, <1>6 DEF ArenaSizes
<1>8. /\ Placed(blocks)
      /\ \A i \in Arena!Live(blocks) : \/ i \in Arena!Live(none) /\ blocks[i] = none[i]
                                       \/ blocks[i] = [seg |-> Start, size |-> size, owner |-> Start]
  <2>1. blocks = Arena!BlockAdd(none, Start, size, Start)
    BY <1>1, <1>3, <1>6
  <2> QED
    BY <1>2, <1>4, <1>5, <1>7, <2>1, AddIs
<1>9. \A i \in Arena!Live(blocks) : blocks[i].seg = Start /\ blocks[i].size = size /\ blocks[i].owner = Start
  BY <1>4, <1>8
<1>10. procs \in Seq(Nat \ {0}) /\ 1 \in DOMAIN procs /\ procs[1] = Start
  BY <1>1, <1>2
<1> QED
  BY <1>1, <1>2, <1>3, <1>7, <1>8, <1>9, <1>10 DEF ArenaInv, Stop, Arena!RefusalHonest

LEMMA ExecBlocksKeep == ASSUME ArenaSizes, ArenaInv, NEW f \in Arena!Files, Arena!DosExec(f) PROVE ArenaInv'
<1> DEFINE child == next + EnvSize
           e == Arena!LoadProgram(child, f)
           refuse == Len(procs) > ArenaNesting \/ child \notin ChildMin .. ChildMax \/ e = 0
<1>1. /\ Arena!Running /\ refused' = -1
      /\ IF refuse \/ Arena!Live(blocks) = Arena!Slots
         THEN next' = (IF refuse THEN next ELSE e) /\ blocks' = blocks /\ procs' = procs
         ELSE /\ blocks' = Arena!BlockAdd(Arena!BlockAdd(blocks, child, e - child, child), next, EnvSize, child)
              /\ next' = e
              /\ procs' = Append(procs, child)
  BY DEF Arena!DosExec, Arena!Done
<1>2. /\ Placed(blocks) /\ next \in Nat /\ Start <= next /\ EnvSize \in Nat \ {0} /\ child \in Nat /\ next < child
      /\ Start \in Nat \ {0} /\ End \in Nat /\ ChildMin \in Nat /\ ChildMax \in Nat
      /\ \A i \in Arena!Live(blocks) : Stop(blocks, i) <= next /\ Stop(blocks, i) \in Nat /\ blocks[i].seg \in Nat
  BY LiveIs DEF ArenaInv, ArenaSizes, Placed
<1>3. CASE refuse
  BY <1>1, <1>3, NothingKeeps
<1>4. CASE ~refuse
  <2>1. child <= ChildMax /\ e # 0
    BY <1>2, <1>4
  <2>2. e \in Nat /\ child < e /\ e <= End
    BY <1>2, <2>1, LoadIs
  <2>3. PICK c \in Nat : c = child /\ c = next + EnvSize
    BY <1>2
  <2>4. PICK size \in Nat : size = e - c
    BY <2>2, <2>3
  <2> HIDE DEF child, e, refuse
  <2>5. c + size = e /\ c # 0 /\ Start <= c /\ next < c /\ c <= End
    BY SMTT(60), <1>2, <2>2, <2>3, <2>4
  <2>6. CASE Arena!Live(blocks) = Arena!Slots
    <3>1. next' = e /\ blocks' = blocks /\ procs' = procs
      BY <1>1, <1>4, <2>6
    <3>2. next' \in Nat /\ Start <= next' /\ \A i \in Arena!Live(blocks) : Stop(blocks, i) <= next'
      BY SMTT(60), <1>2, <2>2, <2>3, <2>5, <3>1
    <3> QED
      BY <1>1, <3>1, <3>2 DEF ArenaInv, Placed, Arena!RefusalHonest, Arena!Running, Arena!Live, Stop
  <2>7. CASE Arena!Live(blocks) # Arena!Slots
    <3>1. PICK b : b = Arena!BlockAdd(blocks, c, size, c)
      OBVIOUS
    <3>2. /\ Placed(b)
          /\ \A i \in Arena!Live(b) : \/ i \in Arena!Live(blocks) /\ b[i] = blocks[i]
                                      \/ b[i] = [seg |-> c, size |-> size, owner |-> c]
      <4>1. c \in Nat \ {0} /\ c + size <= End
        BY <2>2, <2>5
      <4>2. \A i \in Arena!Live(blocks) : Stop(blocks, i) <= c \/ c + size <= blocks[i].seg
        BY <1>2, <2>5
      <4> QED
        BY <1>2, <2>5, <3>1, <4>1, <4>2, AddIs
    <3>3. /\ blocks' = Arena!BlockAdd(b, next, EnvSize, c)
          /\ next' = e /\ procs' = Append(procs, c)
      BY <1>1, <1>4, <2>3, <2>4, <2>7, <3>1
    <3>4. /\ Placed(blocks')
          /\ \A i \in Arena!Live(blocks') : \/ i \in Arena!Live(b) /\ blocks'[i] = b[i]
                                            \/ blocks'[i] = [seg |-> next, size |-> EnvSize, owner |-> c]
      <4>1. \A i \in Arena!Live(b) : Stop(b, i) <= next \/ next + EnvSize <= b[i].seg
        BY <1>2, <2>3, <3>2 DEF Stop
      <4>2. c \in Nat \ {0} /\ next + EnvSize <= End /\ EnvSize \in Nat
        BY <1>2, <2>3, <2>5
      <4> QED
        BY <1>2, <3>2, <3>3, <4>1, <4>2, AddIs
    <3>5. ASSUME NEW i \in Arena!Live(blocks')
          PROVE  \/ i \in Arena!Live(blocks) /\ blocks'[i] = blocks[i]
                 \/ blocks'[i].owner = c /\ Stop(blocks', i) <= e
      <4>1. next + EnvSize <= e
        BY <1>2, <2>2, <2>3
      <4>2. blocks'[i] = [seg |-> c, size |-> size, owner |-> c] =>
              blocks'[i].owner = c /\ Stop(blocks', i) = c + size
        BY DEF Stop
      <4>3. blocks'[i] = [seg |-> next, size |-> EnvSize, owner |-> c] =>
              blocks'[i].owner = c /\ Stop(blocks', i) = next + EnvSize
        BY DEF Stop
      <4>4. c + size <= e
        BY <2>2, <2>5
      <4> QED
        BY <3>2, <3>4, <4>1, <4>2, <4>3, <4>4
    <3>6. next' \in Nat /\ Start <= next' /\ \A i \in Arena!Live(blocks') : Stop(blocks', i) <= next'
      <4>1. next <= e /\ Start <= e
        BY <1>2, <2>2, <2>3, <2>5
      <4>2. ASSUME NEW i \in Arena!Live(blocks'), i \in Arena!Live(blocks), blocks'[i] = blocks[i]
            PROVE  Stop(blocks', i) <= e
        BY <1>2, <2>2, <4>1, <4>2 DEF Stop
      <4> QED
        BY <2>2, <3>3, <3>5, <4>1, <4>2
    <3>7. /\ procs' \in Seq(Nat \ {0}) /\ procs'[Len(procs) + 1] = c /\ Len(procs) + 1 \in DOMAIN procs'
          /\ \A k \in DOMAIN procs : k \in DOMAIN procs' /\ procs'[k] = procs[k]
      BY <2>5, <3>3 DEF ArenaInv
    <3>8. ASSUME NEW i \in Arena!Live(blocks') PROVE \E k \in DOMAIN procs' : blocks'[i].owner = procs'[k]
      <4>1. i \in Arena!Live(blocks) => \E k \in DOMAIN procs : blocks[i].owner = procs[k]
        BY <1>1 DEF ArenaInv
      <4> QED
        BY <3>5, <3>7, <4>1
    <3> QED
      BY <1>1, <3>4, <3>6, <3>7, <3>8 DEF ArenaInv, Placed, Arena!RefusalHonest, Arena!Running, Arena!Live, Stop
  <2> QED
    BY <2>6, <2>7
<1> QED
  BY <1>3, <1>4

LEMMA TerminateBlocksKeep == ASSUME ArenaSizes, ArenaInv, Arena!DosTerminate PROVE ArenaInv'
<1>1. Arena!Running /\ procs \in Seq(Nat \ {0}) /\ procs # << >>
  BY DEF Arena!DosTerminate, ArenaInv, Arena!Running
<1>2. CASE Len(procs) > 1
  <2>1. /\ blocks' = [i \in Arena!Slots |-> IF i \in Arena!Owned(blocks, Arena!Psp) THEN Arena!Free ELSE blocks[i]]
        /\ next' = Arena!BlockCursor(blocks')
        /\ procs' = SubSeq(procs, 1, Len(procs) - 1)
        /\ refused' = -1
    BY <1>2 DEF Arena!DosTerminate, Arena!Done
  <2>2. Placed(blocks) /\ blocks \in BlockTables
    BY DEF ArenaInv, Placed
  <2>3. blocks' \in BlockTables /\ \A j \in Arena!Slots : blocks'[j] = blocks[j] \/ blocks'[j] = Arena!Free
    BY <2>1, <2>2, FreeIs DEF BlockTables
  <2>4. Placed(blocks') /\ \A j \in Arena!Live(blocks') : j \in Arena!Live(blocks) /\ blocks'[j] = blocks[j]
    BY <2>2, <2>3, FreedIs
  <2>5. Len(procs) \in Nat \ {0}
    BY <1>1
  <2>6. procs' \in Seq(Nat \ {0}) /\ Len(procs') = Len(procs) - 1 /\ \A k \in 1 .. Len(procs) - 1 : procs'[k] = procs[k]
    <3>1. PICK r : r = procs' /\ r = SubSeq(procs, 1, Len(procs) - 1)
      BY <2>1
    <3>2. PICK S : S = Nat \ {0}
      OBVIOUS
    <3>3. procs \in Seq(S)
      BY <1>1, <3>2
    <3>4. r \in Seq(S) /\ Len(r) = Len(procs) - 1 /\ \A j \in 1 .. Len(procs) - 1 : r[j] = procs[j]
      BY ZenonT(60), <2>5, <3>1, <3>3, FrontIs
    <3> QED
      BY <3>1, <3>2, <3>4
  <2>7. ASSUME NEW j \in Arena!Live(blocks') PROVE \E k \in DOMAIN procs' : blocks'[j].owner = procs'[k]
    <3>1. j \in Arena!Live(blocks) /\ blocks'[j] = blocks[j] /\ j \in Arena!Slots
      BY <2>4 DEF Arena!Live
    <3>2. PICK k \in DOMAIN procs : blocks[j].owner = procs[k]
      BY <1>1, <3>1 DEF ArenaInv
    <3>3. blocks[j].owner # Arena!Psp
      BY <2>1, <3>1 DEF Arena!Owned, Arena!Live, Arena!Free
    <3>4. k # Len(procs)
      BY <3>2, <3>3 DEF Arena!Psp
    <3>5. k \in 1 .. Len(procs) - 1
      BY <1>1, <3>2, <3>4
    <3>6. DOMAIN procs' = 1 .. Len(procs) - 1
      BY <2>6
    <3> QED
      BY <2>6, <3>1, <3>2, <3>5, <3>6
  <2> QED
    BY <2>1, <2>4, <2>6, <2>7, TableKeeps
<1>3. CASE ~(Len(procs) > 1)
  <2>1. procs' = << >> /\ refused' = -1 /\ blocks' = blocks /\ next' = next
    BY <1>3 DEF Arena!DosTerminate, Arena!Done
  <2> QED
    BY <2>1 DEF ArenaInv, Placed, Arena!RefusalHonest, Arena!Running, Arena!Live, Stop
<1> QED
  BY <1>2, <1>3

LEMMA ArenaStep == ASSUME ArenaSizes, ArenaInv, [Arena!Next]_Arena!vars PROVE ArenaInv'
<1>1. CASE UNCHANGED Arena!vars
  BY <1>1 DEF Arena!vars, ArenaInv, Placed, Arena!RefusalHonest, Arena!Running, Arena!Live, Stop, Arena!Holes,
     Arena!Taken, Arena!Covers
<1>2. CASE Arena!Next
  BY <1>2, AllocKeeps, ReleaseBlockKeeps, ResizeBlockKeeps, ExecBlocksKeep, TerminateBlocksKeep DEF Arena!Next
<1> QED
  BY <1>1, <1>2

\* What the invariant says of the paragraphs.
LEMMA ArenaHolds == ASSUME ArenaSizes, ArenaInv PROVE Arena!BlocksApart /\ Arena!RefusalHonest
<1>1. /\ Placed(blocks) /\ next \in Nat /\ Start \in Nat /\ End \in Nat
      /\ \A i \in Arena!Live(blocks) : /\ blocks[i].seg \in Nat /\ blocks[i].size \in Nat
                                       /\ Stop(blocks, i) = blocks[i].seg + blocks[i].size
                                       /\ Stop(blocks, i) <= next
  BY LiveIs DEF ArenaInv, Placed, ArenaSizes, Stop
<1>2. ASSUME NEW i \in Arena!Live(blocks), NEW j \in Arena!Live(blocks), i # j
      PROVE  Arena!Covers(blocks, i) \cap Arena!Covers(blocks, j) = {}
  <2>1. Stop(blocks, i) <= blocks[j].seg \/ Stop(blocks, j) <= blocks[i].seg
    BY <1>1, <1>2 DEF Placed
  <2> QED
    BY <1>1, <2>1 DEF Arena!Covers
<1>3. ASSUME NEW s \in Arena!Taken PROVE s \in Start .. End - 1 /\ s < next
  <2>1. PICK i \in Arena!Live(blocks) : s \in Arena!Covers(blocks, i)
    BY DEF Arena!Taken
  <2>2. Start <= blocks[i].seg /\ Stop(blocks, i) <= End
    BY <1>1 DEF Placed
  <2> QED
    BY <1>1, <2>1, <2>2 DEF Arena!Covers
<1> QED
  BY <1>2, <1>3 DEF ArenaInv, Arena!BlocksApart

-----------------------------------------------------------------------------
(* The parts together.                                                       *)

LEMMA PartStays ==
  ASSUME [Next]_vars
  PROVE  /\ part' = part
         /\ part = "irq" => [Irq!Next]_Irq!vars
         /\ part = "arena" => [Arena!Next]_Arena!vars
         /\ part = "dos" => [Dos!Next]_Dos!vars
         /\ part = "screen" => [Screen!Next]_Screen!vars
         /\ part = "hosted" => [Hosted!Next]_Hosted!vars
<1>1. CASE Next
  BY <1>1 DEF Next, Rest
<1>2. CASE UNCHANGED vars
  BY <1>2 DEF vars, irq_vars, arena_vars, dos_vars, screen_vars, hosted_vars,
     Irq!vars, Arena!vars, Dos!vars, Screen!vars, Hosted!vars
<1> QED
  BY SMTT(60), <1>1, <1>2

\* gfx.c: when nothing is marked dirty the host's display shows the guest's picture in its
\* colours, and a guest that has ended leaves it in text mode or its last picture in it; for
\* every display, whichever modes its kernel grants and whatever modes, geometries, formats and
\* palettes the guest sets, but for the cases ScreenCurrent names.
THEOREM ScreensAreRight == ASSUME ScreenSizes PROVE Spec => []ScreenRight
<1> DEFINE I == part = "screen" => ScreenInv
<1>1. Init => I
  BY ScreenInit DEF Init
<1>2. I /\ [Next]_vars => I'
  BY PartStays, ScreenStep
<1>3. I => ScreenRight
  BY DEF ScreenInv, ScreenRight
<1> QED
  BY <1>1, <1>2, <1>3, PTL DEF Spec

\* hosted_window.cpp and hosted/api.cpp: a window shows whole frames of its own program,
\* which has the block to itself as long as it can touch it, gets its input in order and has
\* its texts taken, whatever the two do between each other's loads and stores.
THEOREM WindowsAreRight == ASSUME HostedSizes PROVE Spec => []WindowRight
<1> DEFINE I == part = "hosted" => HostedInv
<1>1. Init => I
  BY HostedInit DEF Init
<1>2. I /\ [Next]_vars => I'
  BY PartStays, HostedStep
<1>3. I => WindowRight
  BY HostedHolds DEF WindowRight
<1> QED
  BY <1>1, <1>2, <1>3, PTL DEF Spec

\* io.c and op_codes.c: an interrupt handler is not entered again while it runs, however the
\* guest leaves it and whatever programs are started and end meanwhile, ticks are neither
\* lost nor made up, and keys come in order.
THEOREM InterruptsAreRight == ASSUME IrqSizes PROVE Spec => []IrqRight
<1> DEFINE I == part = "irq" => IrqInv
<1>1. Init => I
  BY IrqInit DEF Init
<1>2. I /\ [Next]_vars => I'
  BY PartStays, IrqStep
<1>3. I => IrqRight
  BY IrqHolds DEF IrqRight
<1> QED
  BY <1>1, <1>2, <1>3, PTL DEF Spec

\* int21.c: two programs or blocks never share memory, a program that is refused memory is
\* told the largest hole unless a block has been shrunk to nothing, and a handle stands for
\* a file as long as it is open, whatever is allocated, resized, freed, loaded and ended.
THEOREM MemoryIsRight == ASSUME ArenaSizes, DosSizes PROVE Spec => []MemoryRight
<1> DEFINE I == (part = "arena" => ArenaInv) /\ (part = "dos" => DosInv)
<1>1. Init => I
  BY ArenaInit, DosInit DEF Init
<1>2. I /\ [Next]_vars => I'
  BY PartStays, ArenaStep, DosStep
<1>3. I => MemoryRight
  BY ArenaHolds DEF DosInv, MemoryRight
<1> QED
  BY <1>1, <1>2, <1>3, PTL DEF Spec
=============================================================================
