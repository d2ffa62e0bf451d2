----------------------------- MODULE TheScreen ------------------------------
(* theM, src/c/them/gfx.c with vga.c, mmu.c and winhost.c: which picture the *)
(* guest's adapter holds, which changes of it are noticed, and what the      *)
(* host's display, a Memento window, a VESA framebuffer or the VGA itself,   *)
(* shows of it.  What a picture holds is one value; how it is decoded is     *)
(* TheVga's matter.                                                          *)
EXTENDS Naturals

\* A machine: its display `kind` is "window", "vesa", "vga" or "none", `grants` are the modes of
\* "12" and "13" that the kernel's set_video_mode() grants there; the guest sets `modes` and the
\* CRTC's `geometries`, each "small", "wide" or "tall".
CONSTANTS Machines,
          Values       \* contents of video memory and of palettes; 0 is the reset one

VARIABLES guest,       \* the adapter and the memory behind it
          host,        \* the display
          dirty,       \* of gfx.c or of vga.c
          shown,       \* graphics_shown
          on           \* the guest runs

vars == <<guest, host, dirty, shown, on>>

-----------------------------------------------------------------------------
(* The guest's picture.                                                      *)

\* vga_set_mode(): "04" is 04h to 06h of the CGA, "12" the tall ones, 0Fh to 12h.
GraphicsModes == {"04", "0D", "0E", "12", "13"}
PlanarModes == {"0D", "0E", "12"}
Graphics(g) == g.mode \in GraphicsModes

\* The CRTC's geometry after it: up to 320 dots of 200 rows, 640 dots of 200, more rows.
Geometry(mode) == IF mode = "12" THEN "tall" ELSE IF mode \in {"0E", "13"} THEN "wide" ELSE "small"

\* vga_unchained(), vga_planar() and vga_mapped(): from the registers, not the mode.
Unchained(g) == Graphics(g) /\ g.wide /\ ~g.chain
Planar(g) == g.mode \in PlanarModes /\ ~Unchained(g)
Mapped(g) == g.mode \in PlanarModes \/ Unchained(g)

\* decode_row(): the layout of the pixels; what a CGA mode shows is one colour.
Layout(g) ==
    IF Unchained(g) THEN "x" ELSE IF Planar(g) THEN "planar" ELSE IF g.mode = "13" THEN "linear" ELSE "blank"

\* What decode_row() and decode_palette() read, and render_text() or present_text().
Picture(g) ==
    IF ~Graphics(g) THEN [kind |-> "text", data |-> g.text, geo |-> "small", wide |-> FALSE, pal |-> 0]
    ELSE [kind |-> Layout(g), geo |-> g.geo, wide |-> g.wide, pal |-> g.pal,
          data |-> IF Mapped(g) THEN g.planes ELSE IF g.mode = "13" THEN g.linear ELSE 0]

\* wants_host_planar(): eight bits of colour halve the dots of a row.
Large(g) == Planar(g) /\ (g.geo = "tall" \/ (g.geo = "wide" /\ ~g.wide))
\* The mode of the host's VGA it is shown in.
Want(g) == IF Large(g) THEN "12" ELSE "13"

NoPicture == [kind |-> "none", data |-> 0, geo |-> "small", wide |-> FALSE, pal |-> 0]
NulText == 0           \* text whose first cell is NUL: nothing was written yet

\* main() and choose_backend(): text mode, and no backend yet.  `unseen`: the geometry was
\* set since the last frame.  `identity`: the attribute map of a host in 12h is 0, 1, 2...
Init ==
    /\ guest = [mode |-> "03", chain |-> FALSE, wide |-> FALSE, geo |-> "small", pal |-> 0,
                planes |-> 0, linear |-> 0, text |-> NulText, unseen |-> FALSE]
    /\ \E machine \in Machines :
          host = [kind |-> machine.kind, machine |-> machine, chosen |-> FALSE, mode |-> "03", dac |-> 0,
                  shadow |-> 0, loaded |-> FALSE, identity |-> FALSE, vram |-> NoPicture, seen |-> NoPicture]
    /\ dirty = TRUE /\ shown = FALSE /\ on = TRUE

\* set_video_mode() of the kernel: the hardware's own palette and attribute map, which in 12h
\* sends brown and the bright colours to DAC slots 20 and 56 to 63, and an empty screen.
SetVideoMode(h, mode) ==
    [h EXCEPT !.mode = mode, !.dac = 0, !.identity = FALSE, !.vram = NoPicture, !.seen = NoPicture]

\* gfx_mode_changed(): the display goes back to text for mode 3 only.
GfxModeChanged(h, mode) ==
    LET g == [h EXCEPT !.loaded = FALSE]
    IN  IF mode = "03" /\ shown /\ h.kind = "vga" THEN SetVideoMode(g, "03") ELSE g

\* INT 10h AH=0 with vga_set_mode(): the planes are cleared, the window of 13h is not.
SetMode(mode) ==
    /\ on
    /\ guest' = [guest EXCEPT !.mode = mode, !.chain = (mode = "13"), !.wide = (mode = "13"),
                              !.geo = Geometry(mode), !.unseen = FALSE, !.pal = 0, !.planes = 0,
                              !.text = IF mode = "03" THEN 1 ELSE @]
    /\ host' = GfxModeChanged(host, mode)
    /\ shown' = (shown /\ mode # "03")
    /\ dirty' = TRUE
    /\ UNCHANGED on

\* mmu_write() at A0000h: vga_mem_write(), or the memory of 13h.
WritePixels(v) ==
    /\ on
    /\ guest' = IF Mapped(guest) THEN [guest EXCEPT !.planes = v] ELSE [guest EXCEPT !.linear = v]
    /\ dirty' = TRUE
    /\ UNCHANGED <<host, shown, on>>

\* mmu_write() at B8000h, and con_print() in a window.
WriteText(v) ==
    /\ on
    /\ guest' = [guest EXCEPT !.text = v]
    /\ dirty' = TRUE
    /\ UNCHANGED <<host, shown, on>>

\* Faulty variant: the pixel format changes and nobody looks.
NoticedNot(old) == old

\* vga_port_write(): 3C5h of register 4, 3CFh of register 5; the palette of 3C0h, 3C6h,
\* 3C9h; the geometry, which is not noticed.
Noticed(old) == TRUE

SetFormat(chain, wide) ==
    /\ on
    /\ guest' = [guest EXCEPT !.chain = chain, !.wide = wide]
    /\ dirty' = Noticed(dirty)
    /\ UNCHANGED <<host, shown, on>>
SetPalette(v) ==
    /\ on
    /\ guest' = [guest EXCEPT !.pal = v]
    /\ dirty' = TRUE
    /\ UNCHANGED <<host, shown, on>>
SetGeometry(v) ==
    /\ on /\ Graphics(guest)
    /\ guest' = [guest EXCEPT !.geo = v, !.unseen = TRUE]
    /\ UNCHANGED <<host, dirty, shown, on>>

-----------------------------------------------------------------------------
(* The host's display.                                                       *)

\* What is seen on it.  In 12h the first sixteen slots of the DAC are loaded; without an
\* identity map brown and the bright colours are the hardware's, which are right only for
\* the reset palette.
Visible(h) ==
    IF h.kind # "vga" \/ h.mode = "03" THEN h.seen
    ELSE IF h.mode = "12" /\ ~h.identity /\ h.dac # 0 THEN [h.vram EXCEPT !.kind = "miscoloured"]
    ELSE [h.vram EXCEPT !.pal = h.dac]

\* choose_backend(): in the mode the guest is running, once; 13h when that one is refused.
ChooseBackend(h) ==
    IF h.chosen THEN h
    ELSE IF h.kind # "vga" THEN [h EXCEPT !.chosen = TRUE]
    ELSE IF Want(guest) \in h.machine.grants THEN [SetVideoMode(h, Want(guest)) EXCEPT !.chosen = TRUE]
    ELSE IF "13" \in h.machine.grants THEN [SetVideoMode(h, "13") EXCEPT !.chosen = TRUE]
    ELSE [h EXCEPT !.chosen = TRUE, !.kind = "none"]

\* Faulty variant: the palette is taken to have survived the mode set.
HostVgaEnterKeeps(h, mode) ==
    IF h.mode = mode \/ mode \notin h.machine.grants THEN h
    ELSE [SetVideoMode(h, mode) EXCEPT !.identity = (mode = "12")]

\* host_vga_enter(): what was in the DAC is gone; the map of 12h is made the identity, but
\* not when the display is in that mode already.
HostVgaEnter(h, mode) ==
    IF h.mode = mode \/ mode \notin h.machine.grants THEN h
    ELSE [SetVideoMode(h, mode) EXCEPT !.loaded = FALSE, !.identity = (mode = "12")]

\* load_dac(): only when the palette is not the one there.
LoadDac(h, pal) ==
    IF h.loaded /\ h.shadow = pal THEN h ELSE [h EXCEPT !.dac = pal, !.shadow = pal, !.loaded = TRUE]

\* present_vga() and present_vga_planar().
PresentVga(h, mode, p) ==
    LET entered == HostVgaEnter(h, mode)
    IN  IF entered.mode # mode THEN entered ELSE [LoadDac(entered, p.pal) EXCEPT !.vram = p]

\* present_vesa_native() or the VGA's.
PresentGraphics(h, p) ==
    IF h.kind = "vesa" THEN [h EXCEPT !.seen = p]
    ELSE PresentVga(h, Want(guest), p)

\* Faulty variant: a picture the window refused is forgotten.
RefusedForgotten(h) == FALSE

\* winhost_publish() with the window still reading the other buffer.
Refused(h) == h.kind = "window"

\* gfx_frame() past its rate limit.  The backend is chosen before the mode is looked at.
GfxFrame(reading) ==
    /\ on /\ dirty
    /\ LET h == ChooseBackend(host)
           p == Picture(guest)
       IN  IF h.kind = "window"
           THEN /\ host' = IF reading THEN h ELSE [h EXCEPT !.seen = p]
                /\ dirty' = (reading /\ Refused(h))
                /\ UNCHANGED shown
           ELSE /\ dirty' = FALSE
                /\ IF Graphics(guest)
                   THEN /\ host' = IF h.kind = "none" THEN h ELSE PresentGraphics(h, p)
                        /\ shown' = (shown \/ h.kind # "none")
                   ELSE /\ host' = IF shown \/ guest.text # NulText THEN [h EXCEPT !.seen = p] ELSE h
                        /\ UNCHANGED shown
    /\ guest' = [guest EXCEPT !.unseen = FALSE]
    /\ UNCHANGED on

\* gfx_flush() in a window, which may have died reading, and gfx_shutdown().
Finish(died) ==
    /\ on
    /\ on' = FALSE
    /\ host' = IF host.kind = "window" THEN (IF died THEN host ELSE [host EXCEPT !.seen = Picture(guest)])
               ELSE IF host.kind = "vga" /\ shown THEN SetVideoMode(host, "03") ELSE host
    /\ shown' = FALSE
    /\ dirty' = (host.kind = "window" /\ died)
    /\ UNCHANGED guest

Next ==
    \/ \E mode \in host.machine.modes : SetMode(mode)
    \/ \E v \in Values : WritePixels(v) \/ WriteText(v) \/ SetPalette(v)
    \/ \E chain, wide \in BOOLEAN : SetFormat(chain, wide)
    \/ \E v \in host.machine.geometries : SetGeometry(v)
    \/ \E reading \in BOOLEAN : GfxFrame(reading)
    \/ \E died \in BOOLEAN : Finish(died)

Spec == Init /\ [][Next]_vars

-----------------------------------------------------------------------------
\* A frame has been made of the guest as it is now, for a display there is.
Settled == on /\ ~dirty /\ ~guest.unseen /\ host.kind # "none"

\* Text that gfx.c does not show: on a VGA that is in a graphics mode, and when none was written.
TextHidden == ~Graphics(guest) /\ ((host.kind = "vga" /\ host.mode # "03") \/ (guest.text = NulText /\ ~shown))
\* A picture for which the host's VGA refuses the mode it takes.
ModeRefused == Graphics(guest) /\ host.kind = "vga" /\ Want(guest) \notin host.machine.grants
\* A picture in 12h with the hardware's attribute map.
Recoloured == host.kind = "vga" /\ host.mode = "12" /\ ~host.identity /\ host.vram = Picture(guest)
\* A VGA that was put into a graphics mode in which nothing was shown yet.
TooEarly == host.kind = "vga" /\ host.mode # "03" /\ host.vram = NoPicture

\* gfx.c: when nothing is marked dirty the display shows the guest's picture as it is now, in
\* its colours, whatever modes, formats and palettes it went through on whatever host; and a
\* guest that has ended leaves its last picture in the window and a VGA in text mode.  Where
\* the code does not do it the formula says what there is instead: a geometry set since the
\* last frame; text on a VGA that the first frame put into a graphics mode, although "Text
\* mode goes to the kernel console" (gfx.c:399); a large mode on a VGA that refuses 12h, although
\* it "is still sampled down" (gfx.c:22); the picture through the hardware's colours when a VGA
\* starts in 12h, whose map is not made the "identity so those pixels use our loaded DAC"
\* (gfx.c:305); and a VGA left in a mode in which nothing was ever shown.
ScreenCurrent ==
    /\ Settled => Visible(host) = Picture(guest) \/ TextHidden \/ ModeRefused \/ Recoloured
    /\ ~on /\ host.kind = "vga" => host.mode = "03" \/ TooEarly
    /\ ~on /\ host.kind = "window" /\ ~dirty => host.seen = Picture(guest)
=============================================================================
