-------------------------- MODULE DisplayGeometry --------------------------
(***************************************************************************)
(* Where the picture of a display is seen and where a pointer on it lands: *)
(* the rotation of captured images (capture/desktop_duplication.rs), the   *)
(* mapper made for the default display when the host starts (main.rs,      *)
(* core/mapping.rs), and where a pointer lands.                            *)
(*                                                                         *)
(* A point is a pair of pixels.  The client shows the image stretched over *)
(* its view and sends the pixels of the view as they are; the host maps    *)
(* from a rectangle as large as the display and rounds, so its own scale   *)
(* is one.  A display is attached to the desktop with its panel turned by  *)
(* 0, 90, 180 or 270 degrees.                                              *)
(***************************************************************************)
EXTENDS Integers, Sequences

CONSTANTS
  Panels,       \* sizes of panels as manufactured, [width, height]
  Rotations,    \* of the displays, a subset of the angles
  Views,        \* sizes the client's view can have, [width, height]
  FirstDisplay, \* default_display_id
  MaxModes      \* bound on changes of the desktop

Angles == {0, 90, 180, 270}

ASSUME GeometryAssumption ==
  /\ Panels \cup Views \subseteq [width : Nat \ {0}, height : Nat \ {0}]
  /\ Rotations \subseteq Angles /\ MaxModes \in Nat

VARIABLES
  desktop,  \* attached displays: panel, rotation, and origin on the desktop
  mapper,   \* of the injectors, made once
  shown,    \* the display that is streamed
  pointed,  \* output port: the last pointer event, or NoEvent
  modes

geometry == <<desktop, mapper, shown, pointed, modes>>

NoEvent == [happened |-> FALSE]
Point(x, y) == [x |-> x, y |-> y]
Moved(p, by) == Point(p.x + by.x, p.y + by.y)
Area(size) == [x : 0..(size.width - 1), y : 0..(size.height - 1)]

Sideways(rotation) == rotation \in {90, 270}

-----------------------------------------------------------------------------
(* The picture *)

\* rotated_dimensions; DesktopCoordinates of an output have this size as well.
RotatedSize(panel, rotation) ==
  IF Sideways(rotation) THEN [width |-> panel.height, height |-> panel.width] ELSE panel

\* What Windows does: the pixel of the panel that shows a point of the display.
OnPanel(panel, rotation, p) ==
  LET size == RotatedSize(panel, rotation)
  IN CASE rotation = 90 -> Point(p.y, size.width - 1 - p.x)
       [] rotation = 180 -> Point(size.width - 1 - p.x, size.height - 1 - p.y)
       [] rotation = 270 -> Point(size.height - 1 - p.y, p.x)
       [] OTHER -> p

\* rotate_bgra: where a pixel of the panel goes in the image.
\* Mutant: the image is turned the other way.
RotatedBack(panel, rotation, q) ==
  CASE rotation = 90 -> Point(q.y, panel.width - 1 - q.x)
    [] rotation = 180 -> Point(panel.width - 1 - q.x, panel.height - 1 - q.y)
    [] rotation = 270 -> Point(panel.height - 1 - q.y, q.x)
    [] OTHER -> q
Rotated(panel, rotation, q) ==
  CASE rotation = 90 -> Point(panel.height - 1 - q.y, q.x)
    [] rotation = 180 -> Point(panel.width - 1 - q.x, panel.height - 1 - q.y)
    [] rotation = 270 -> Point(q.y, panel.width - 1 - q.x)
    [] OTHER -> q

\* The pixel of the image that shows a point of the display.
InImage(panel, rotation, p) == Rotated(panel, rotation, OnPanel(panel, rotation, p))

-----------------------------------------------------------------------------
(* The pointer *)

\* DisplayDescriptor: the size is that on the desktop, the angle the panel's.
Descriptor(display) ==
  [origin |-> display.origin, size |-> RotatedSize(display.panel, display.rotation),
   rotation |-> display.rotation]

FullHD == [width |-> 1920, height |-> 1080]
TemporaryMapper == [origin |-> Point(0, 0), size |-> FullHD, rotation |-> 0]

\* select_video_display for the default display: that, or the first.
MapperFor(displays) ==
  IF displays = <<>> THEN TemporaryMapper
  ELSE Descriptor(displays[IF FirstDisplay \in DOMAIN displays THEN FirstDisplay ELSE 1])

Within(n, limit) == IF n < 0 THEN 0 ELSE IF n > limit THEN limit ELSE n

\* CoordinateMapper::map in Stretch mode, from a rectangle of the same size.
Stretched(m, p) == Point(Within(p.x, m.size.width), Within(p.y, m.size.height))
Turned(m, p) ==
  CASE m.rotation = 90 -> Point(m.size.height - p.y, p.x)
    [] m.rotation = 180 -> Point(m.size.width - p.x, m.size.height - p.y)
    [] m.rotation = 270 -> Point(p.y, m.size.width - p.x)
    [] OTHER -> p
Lands(m, p) == Moved(Turned(m, Stretched(m, p)), m.origin)

-----------------------------------------------------------------------------
(* The client *)

\* The decoder fills the view with the image: the pixels of an image of this
\* size of which some part is shown at a pixel of the view.
Under(view, size, at) ==
  {p \in Area(size) :
     /\ p.x * view.width < (at.x + 1) * size.width
     /\ at.x * size.width < (p.x + 1) * view.width
     /\ p.y * view.height < (at.y + 1) * size.height
     /\ at.y * size.height < (p.y + 1) * view.height}

\* The points of the display that are seen there.
Seen(display, view, at) ==
  LET size == Descriptor(display).size
      under == Under(view, size, at)
  IN {Moved(p, display.origin) :
        p \in {p \in Area(size) : InImage(display.panel, display.rotation, p) \in under}}

\* toStylusSample: the event is sent with the pixel of the view, not scaled,
\* and the injectors map it.
PointAt(view, at) ==
  /\ shown \in DOMAIN desktop
  /\ at \in Area(view)
  /\ pointed' = [happened |-> TRUE, display |-> desktop[shown], view |-> view, at |-> at,
                 sees |-> Seen(desktop[shown], view, at), lands |-> Lands(mapper, at)]
  /\ UNCHANGED <<desktop, mapper, shown, modes>>

\* A client or the operator asks for a display; a number without a display
\* means the default one, or the first.
Show(display) ==
  /\ shown' = IF display \in DOMAIN desktop THEN display
              ELSE IF FirstDisplay \in DOMAIN desktop THEN FirstDisplay ELSE 1
  /\ pointed' = NoEvent
  /\ UNCHANGED <<desktop, mapper, modes>>

\* A display is turned while the host runs.
ChangeDisplay(display, rotation) ==
  /\ modes < MaxModes
  /\ modes' = modes + 1
  /\ desktop' = [desktop EXCEPT ![display].rotation = rotation]
  /\ pointed' = NoEvent
  /\ UNCHANGED <<mapper, shown>>

\* The first display is the primary one, a second is beside and above it.
Origins == <<Point(0, 0), Point(10, -5)>>
Displays(i) == [panel : Panels, rotation : Rotations, origin : {Origins[i]}]

GeometryInit ==
  /\ desktop \in {<<d>> : d \in Displays(1)}
               \cup {<<d, e>> : d \in Displays(1), e \in Displays(2)}
  /\ mapper = MapperFor(desktop)
  /\ shown = 1 /\ pointed = NoEvent /\ modes = 0

GeometryNext ==
  \/ \E view \in Views : \E at \in Area(view) : PointAt(view, at)
  \/ \E display \in 1..2 : Show(display)
  \/ \E display \in DOMAIN desktop, rotation \in Rotations : ChangeDisplay(display, rotation)

GeometrySpec == GeometryInit /\ [][GeometryNext]_geometry

-----------------------------------------------------------------------------
(* Properties *)

\* The display the mapper was made for is still as it was.
MapperFits(display) == mapper = Descriptor(display)

\* What is seen at a pixel of the view are the points of the display at the
\* same place, as if its image had never been turned: the rotation of captured
\* images undoes what Windows does to the panel, for every angle.
PictureIsUpright ==
  pointed.happened =>
    pointed.sees =
      {Moved(p, pointed.display.origin) :
         p \in Under(pointed.view, Descriptor(pointed.display).size, pointed.at)}

\* docs/INITIAL_PROMPT.md:182: "Android client coordinates must map correctly to
\* Windows display coordinates", with "Support display rotation": on the display
\* the injectors were made for the pen lands on what is seen under it.
InkLandsWherePointed ==
  pointed.happened /\ MapperFits(pointed.display) => pointed.lands \in pointed.sees
=============================================================================
